---------------------------- MODULE HarnessFailover ----------------------------
(* The quota failover around the runtimes of one role                          *)
(* (packages/harness/src/failover-runtime.ts) over acpx sessions               *)
(* (packages/harness/src/acp-runtime-adapter.ts), for one call of an agent.    *)
(*                                                                             *)
(* The candidates are the chain buildFailoverRuntime makes (daemon.ts): the    *)
(* primary, its fallback models, the fallback profiles of the role. The caller *)
(* knows one public session; under it the session of one candidate at a time   *)
(* is watched, and a turn that fails for want of quota moves it to the next.   *)
EXTENDS Integers, Sequences

CONSTANTS
  Candidates,    \* the chain: 1 .. its length
  Restorable,    \* candidates whose runtime has restoreSession
  FollowUps,     \* prompts the caller sends after the first
  First,         \* the prompt the call starts with
  NoPrompt       \* the empty prompt

\* What the constants may be.
FailoverAssumption == Candidates \subseteq Nat /\ \E n \in Candidates : Candidates = 1 .. n

VARIABLES
  phase,      \* of the call: new, starting, restoring, open, refused
  at,         \* the candidate a start or a restore tries; 0 when none
  index,      \* candidateIndex; 0 before the session is open
  inner,      \* the session on each candidate
  watched,    \* inner sessions the wrapper is subscribed to
  switching,  \* the candidate a failover is starting; 0 when none runs
  input,      \* the prompt of the input the wrapper keeps
  unsent,     \* prompts the caller has still to send
  failing,    \* the prompt of the turn that made the wrapper switch (a history variable)
  tried,      \* candidates asked or skipped (a history variable)
  public      \* the last event of the public session

failoverVars == <<phase, at, index, inner, watched, switching, input, unsent, failing, tried, public>>

Last == CHOOSE c \in Candidates : \A d \in Candidates : d <= c
Prompts == {First} \cup FollowUps
NoInner == [state |-> "none", turns |-> <<>>, busy |-> FALSE]
Ended == {"completed", "failed", "cancelled"}

TypeOK ==
  /\ phase \in {"new", "starting", "restoring", "open", "refused"}
  /\ at \in Candidates \cup {0} /\ index \in Candidates \cup {0}
  /\ inner \in [Candidates -> [state: {"none", "waiting", "running"} \cup Ended,
                               turns: Seq(Prompts), busy: BOOLEAN]]
  /\ watched \subseteq Candidates
  /\ switching \in Candidates \cup {0}
  /\ input \in Prompts \cup {NoPrompt} /\ failing \in Prompts \cup {NoPrompt}
  /\ unsent \subseteq Prompts /\ tried \subseteq Candidates
  /\ public \in {"none", "waiting", "running", "quota"} \cup Ended

Init ==
  /\ phase = "new" /\ at = 0 /\ index = 0
  /\ inner = [c \in Candidates |-> NoInner]
  /\ watched = {} /\ switching = 0
  /\ input = NoPrompt /\ failing = NoPrompt /\ unsent = Prompts
  /\ tried = {} /\ public = "none"
-----------------------------------------------------------------------------
(* The session of a candidate.                                                 *)

\* startSession of acpx: an empty prompt sends no turn
Started == [state |-> "running", busy |-> FALSE,
            turns |-> IF input = NoPrompt THEN <<>> ELSE <<input>>]

\* enqueuePrompt: refused by a cancelled session
Enqueued(s, p) ==
  IF s.state = "cancelled" THEN s
  ELSE [s EXCEPT !.state = "running", !.turns = Append(@, p)]

\* stopSession and cancelSession leave an ended session as it is
Stopped(s) == IF s.state \in Ended THEN s ELSE [s EXCEPT !.state = "cancelled"]

\* the queue runs its next turn, unless the session was cancelled meanwhile
NextTurn(c) ==
  /\ inner[c].turns # <<>> /\ ~ inner[c].busy
  /\ inner' = [inner EXCEPT ![c] =
       IF @.state = "cancelled" THEN [@ EXCEPT !.turns = Tail(@)]
       ELSE [@ EXCEPT !.state = "running", !.busy = TRUE]]
  /\ UNCHANGED <<phase, at, index, watched, switching, input, unsent, failing, tried, public>>
-----------------------------------------------------------------------------
(* The start of the call.                                                      *)

StartSession ==
  /\ phase = "new"
  /\ phase' = "starting" /\ at' = 1
  /\ input' = First /\ unsent' = FollowUps
  /\ UNCHANGED <<index, inner, watched, switching, failing, tried, public>>

\* restoreSession keeps no prompt: the caller sends it once the session is open
RestoreSession ==
  /\ phase = "new"
  /\ phase' = "restoring" /\ at' = 1
  /\ UNCHANGED <<index, inner, watched, switching, input, unsent, failing, tried, public>>

Opened(session, event) ==
  /\ inner' = [inner EXCEPT ![at] = session]
  /\ watched' = {at} /\ index' = at /\ public' = event
  /\ phase' = "open" /\ at' = 0 /\ tried' = tried \cup {at}
  /\ UNCHANGED <<switching, input, unsent, failing>>

StartsOn == phase = "starting" /\ Opened(Started, "running")
RestoresOn ==
  /\ phase = "restoring" /\ at \in Restorable
  /\ Opened([NoInner EXCEPT !.state = "waiting"], "waiting")

\* the next candidate, or the error of the last one
PastOne ==
  /\ tried' = tried \cup {at}
  /\ IF at = Last
     THEN phase' = "refused" /\ at' = 0 /\ public' = "quota"
     ELSE at' = at + 1 /\ UNCHANGED <<phase, public>>
  /\ UNCHANGED <<index, inner, watched, switching, input, unsent, failing>>

StartQuota == phase = "starting" /\ PastOne
RestorePasses == phase = "restoring" /\ PastOne

\* any other error ends the call
Refuses ==
  /\ phase = "starting" \/ (phase = "restoring" /\ at \in Restorable)
  /\ phase' = "refused" /\ at' = 0 /\ tried' = tried \cup {at} /\ public' = "failed"
  /\ UNCHANGED <<index, inner, watched, switching, input, unsent, failing>>
-----------------------------------------------------------------------------
(* Turns and their failures.                                                   *)

\* the daemon sends the prompt of a restored call first; people send follow-ups
SendPrompt(p) ==
  /\ phase = "open"
  /\ p \in unsent /\ (First \in unsent => p = First)
  /\ unsent' = unsent \ {p}
  /\ inner' = [inner EXCEPT ![index] = Enqueued(@, p)]
  /\ public' = IF index \in watched /\ inner[index].state \notin {"running", "cancelled"}
               THEN "running" ELSE public
  /\ UNCHANGED <<phase, at, index, watched, switching, input, failing, tried>>

\* mutant: a candidate is passed over
FirstAfterSkips(c) == c + 2

FirstAfter(c) == c + 1

\* failoverFrom up to its first wait
Failover(c) ==
  IF switching # 0 THEN UNCHANGED <<watched, switching, public>>
  ELSE IF FirstAfter(c) > Last
  THEN public' = "quota" /\ UNCHANGED <<watched, switching>>
  ELSE switching' = FirstAfter(c) /\ watched' = watched \ {c} /\ UNCHANGED public

TurnEnds(c, how) ==
  /\ inner[c].busy /\ how \in {"completed", "failed", "quota"}
  /\ inner' = [inner EXCEPT ![c] =
       [state |-> IF @.state = "cancelled" THEN "cancelled"
                  ELSE IF how = "quota" THEN "failed" ELSE how,
        turns |-> Tail(@.turns), busy |-> FALSE]]
  /\ IF inner[c].state = "cancelled" \/ c \notin watched
     THEN UNCHANGED <<watched, switching, public>>
     ELSE IF how = "quota" THEN Failover(c)
     ELSE public' = how /\ UNCHANGED <<watched, switching>>
  /\ failing' = IF how = "quota" /\ c \in watched THEN Head(inner[c].turns) ELSE failing
  /\ UNCHANGED <<phase, at, index, input, unsent, tried>>

WatchedAfter(t) == watched \cup {t}

\* the next candidate has accepted: the session that failed is stopped
SwitchesOn ==
  /\ switching # 0
  /\ inner' = [inner EXCEPT ![switching] = Started, ![index] = Stopped(@)]
  /\ watched' = WatchedAfter(switching)
  /\ index' = switching /\ tried' = tried \cup {switching}
  /\ switching' = 0 /\ public' = "running"
  /\ UNCHANGED <<phase, at, input, unsent, failing>>

SwitchQuota ==
  /\ switching # 0 /\ tried' = tried \cup {switching}
  /\ IF switching = Last
     THEN switching' = 0 /\ public' = "quota"
     ELSE switching' = switching + 1 /\ UNCHANGED public
  /\ UNCHANGED <<phase, at, index, inner, watched, input, unsent, failing>>

\* any other error of a candidate ends the failover, and nobody is told
SwitchFails ==
  /\ switching # 0
  /\ tried' = tried \cup {switching} /\ switching' = 0
  /\ UNCHANGED <<phase, at, index, inner, watched, input, unsent, failing, public>>

\* cancelSession and stopSession
Cancel ==
  /\ phase = "open" /\ inner[index].state \notin Ended
  /\ inner' = [inner EXCEPT ![index] = Stopped(@)]
  /\ public' = IF index \in watched THEN "cancelled" ELSE public
  /\ UNCHANGED <<phase, at, index, watched, switching, input, unsent, failing, tried>>
-----------------------------------------------------------------------------
FailoverNext ==
  \/ StartSession \/ RestoreSession \/ StartsOn \/ RestoresOn
  \/ StartQuota \/ RestorePasses \/ Refuses
  \/ \E p \in Prompts : SendPrompt(p)
  \/ \E c \in Candidates : NextTurn(c)
  \/ \E c \in Candidates, how \in {"completed", "failed", "quota"} : TurnEnds(c, how)
  \/ SwitchesOn \/ SwitchQuota \/ SwitchFails \/ Cancel

FailoverSpec == Init /\ [][FailoverNext]_failoverVars
-----------------------------------------------------------------------------
\* A want of quota reaches the caller only when every candidate of the chain was
\* asked or cannot serve the call, whichever of them failed and when.
QuotaSurfacesLast == public = "quota" => tried = Candidates

\* Stated by failover-runtime.ts of a failover: the turn that failed is restarted on the
\* candidate that accepts it.
TurnIsRestarted ==
  [][(index' # index /\ index # 0) => inner'[index'].turns = <<failing>>]_failoverVars
=============================================================================
