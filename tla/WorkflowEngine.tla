---------------------------- MODULE WorkflowEngine ----------------------------
(***************************************************************************)
(* packages/workflow-engine: one run of a workflow, over the lives of the  *)
(* daemon that executes it. The workflow is a nested workflow() with a     *)
(* retry policy whose body makes Leads agent calls one after the other on  *)
(* its own builder and then runs Branches in parallel(), each branch a     *)
(* sequence of agent calls of its own.                                     *)
(*                                                                         *)
(* A strand is one line of calls of one round (one attempt of the nested   *)
(* workflow): strand <<r, 0>> the body's own calls, <<r, b>> branch b. A   *)
(* round that failed leaves its other strands running while the next round *)
(* starts. Calls are found again in the durable journal by their key.      *)
(*                                                                         *)
(* The harness behind a runner is abstract here (AgentSession has it): it  *)
(* may report a session checkpoint, then it answers or throws.             *)
(***************************************************************************)
EXTENDS Naturals, Sequences, FiniteSets

CONSTANTS
  Branches,    \* number of factories given to parallel()
  Leads,       \* agent calls of the body itself, before parallel()
  Length,      \* agent calls of each branch
  Slots,       \* RunWorkflowOptions.concurrency, the semaphore's permits
  Limit,       \* ParallelOptions.concurrency
  Attempts,    \* retryPolicy.maxAttempts of a strand's agent calls
  Rounds,      \* retryPolicy.maxAttempts of the nested workflow
  Lives,       \* bound: times the run is executed
  CancelIn     \* bound: <<life, round>> in which the caller's signal may fire

ASSUME EngineAssumption ==
  /\ Branches \in Nat \ {0} /\ Leads \in Nat \ {0} /\ Length \in Nat \ {0}
  /\ Slots \in Nat \ {0} /\ Limit \in Nat \ {0}
  /\ Attempts \in [0..Branches -> Nat \ {0}]
  /\ Rounds \in Nat \ {0} /\ Lives \in Nat \ {0} /\ CancelIn \subseteq Nat \X Nat

Strands == (1..Rounds) \X (0..Branches)
IsBody(s) == s[2] = 0
CallsOf(s) == IF IsBody(s) THEN Leads ELSE Length

\* Call keys are paths. A branch has a builder of its own in each round; the
\* body's builder is kept by every round, and counts its calls in the run.
Keys == ({0} \X {0} \X (1..(Leads * Rounds))) \cup ((1..Rounds) \X (1..Branches) \X (1..Length))
\* The call at a place of the workflow's text, whatever the round.
Places == (0..Branches) \X (1..(Leads + Length))
NoPlace == <<0, 0>>

VARIABLES
  \* durable: the run's SQLite journal
  journal,     \* the place whose answer is recorded under a key
  inflight,    \* keys with a session checkpoint
  \* the executing process
  outcome,     \* "none" while it runs; the run's signal is aborted otherwise
  open,        \* the journal's database is open
  life,
  round,       \* attempt of the nested workflow
  leads,       \* callCounters of the body's builder
  pc, pos, attempt,   \* of each strand
  stored,      \* strands holding a stored checkpoint not consumed yet
  available, waiters, \* the semaphore
  late         \* keys whose runner was abandoned before its session existed

durable == <<journal, inflight>>
limiter == <<available, waiters>>
run == <<outcome, open, life, round>>
vars == <<durable, run, leads, pc, pos, attempt, stored, limiter, late>>

Outcomes == {"none", "complete", "failed", "cancelled", "crashed"}
Holding == {"resolving", "resolved", "clearing", "resuming", "running", "session"}
Executing == {"resuming", "running", "session"}
Ended == {"done", "failed", "cancelled"}
Locations == Holding \cup Ended \cup
             {"unclaimed", "called", "acquire", "waiting", "saving", "tidying", "giving-up"}

TypeOK ==
  /\ journal \in [Keys -> Places \cup {NoPlace}] /\ inflight \in SUBSET Keys
  /\ outcome \in Outcomes /\ open \in BOOLEAN /\ life \in 1..Lives
  /\ round \in 1..Rounds /\ leads \in 1..(Leads * Rounds)
  /\ pc \in [Strands -> Locations] /\ pos \in [Strands -> 1..(Leads + Length)]
  /\ attempt \in [Strands -> Nat \ {0}] /\ stored \in SUBSET Strands
  /\ available \in 0..Slots /\ waiters \in Seq(Strands) /\ late \in SUBSET Keys

Aborted == outcome # "none"
KeyOfSharedBuilder(s) == IF IsBody(s) THEN <<0, 0, leads>> ELSE <<s[1], 1, pos[s]>>  \* mutant
KeyOf(s) == IF IsBody(s) THEN <<0, 0, leads>> ELSE <<s[1], s[2], pos[s]>>
PlaceOf(s) == <<s[2], pos[s]>>

\* A run starts with the first call of the first round's body.
Fresh ==
  /\ outcome = "none" /\ open = TRUE /\ round = 1 /\ leads = 1
  /\ pc = [s \in Strands |-> IF s = <<1, 0>> THEN "called" ELSE "unclaimed"]
  /\ pos = [s \in Strands |-> 1] /\ attempt = [s \in Strands |-> 1]
  /\ stored = {} /\ available = Slots /\ waiters = <<>> /\ late = {}

Init ==
  /\ journal = [k \in Keys |-> NoPlace] /\ inflight = {} /\ life = 1
  /\ Fresh

(***************************************************************************)
(* The durable journal                                                     *)
(***************************************************************************)
Recorded(k) == journal[k] # NoPlace
Set(k, place) == journal' = [journal EXCEPT ![k] = place] /\ UNCHANGED inflight
MarkInFlight(k) == inflight' = inflight \cup {k} /\ UNCHANGED journal
ClearInFlight(k) == inflight' = inflight \ {k} /\ UNCHANGED journal
GetInFlight(k) == k \in inflight

Go(s, from, to) == pc[s] = from /\ pc' = [pc EXCEPT ![s] = to]
Step(s, from, to) == Go(s, from, to) /\ UNCHANGED <<run, leads, pos, late>>

(***************************************************************************)
(* parallel(): workers take the branches in order; one whose branch failed *)
(* is gone, the others go on.                                              *)
(***************************************************************************)
Workers == IF Limit < Slots THEN Limit ELSE Slots
Occupied(r) == {b \in 1..Branches : pc[<<r, b>>] \notin {"unclaimed", "done"}}

Claim(s) ==
  /\ ~IsBody(s) /\ pc[<<s[1], 0>>] = "done" /\ ~Aborted
  /\ \A b \in 1..(s[2] - 1) : pc[<<s[1], b>>] # "unclaimed"
  /\ Cardinality(Occupied(s[1])) < Workers
  /\ Step(s, "unclaimed", "called")
  /\ UNCHANGED <<durable, attempt, stored, limiter>>

(***************************************************************************)
(* runAgentStep                                                            *)
(***************************************************************************)

\* The call's promise resolves and the strand goes on to its next call.
Return(s) ==
  IF pos[s] < CallsOf(s)
  THEN /\ pc' = [pc EXCEPT ![s] = "called"] /\ pos' = [pos EXCEPT ![s] = @ + 1]
       /\ leads' = IF IsBody(s) THEN leads + 1 ELSE leads
  ELSE /\ pc' = [pc EXCEPT ![s] = "done"] /\ UNCHANGED <<pos, leads>>

\* A recorded answer is replayed.
Replay(s) ==
  /\ pc[s] = "called" /\ ~Aborted /\ Recorded(KeyOf(s))
  /\ Return(s)
  /\ UNCHANGED <<durable, run, attempt, stored, limiter, late>>

\* Otherwise the call is to be made, with the checkpoint an interrupted run left.
LookUpAnyway(s) ==                                                        \* mutant
  /\ ~Aborted
  /\ Step(s, "called", "acquire")
  /\ attempt' = [attempt EXCEPT ![s] = 1]
  /\ stored' = IF GetInFlight(KeyOf(s)) THEN stored \cup {s} ELSE stored \ {s}
  /\ UNCHANGED <<durable, limiter>>

LookUp(s) ==
  /\ ~Aborted /\ ~Recorded(KeyOf(s))
  /\ Step(s, "called", "acquire")
  /\ attempt' = [attempt EXCEPT ![s] = 1]
  /\ stored' = IF GetInFlight(KeyOf(s)) THEN stored \cup {s} ELSE stored \ {s}
  /\ UNCHANGED <<durable, limiter>>

Acquire(s) ==
  /\ ~Aborted
  /\ IF available > 0
     THEN Step(s, "acquire", "resolving") /\ available' = available - 1 /\ UNCHANGED waiters
     ELSE Step(s, "acquire", "waiting") /\ waiters' = Append(waiters, s) /\ UNCHANGED available
  /\ UNCHANGED <<durable, attempt, stored>>

\* createRelease: the permit goes to the first waiter, or back.
LeaveAndFree(s, to) ==                                                    \* mutant
  /\ available' = available + 1
  /\ IF waiters = <<>>
     THEN UNCHANGED waiters /\ pc' = [pc EXCEPT ![s] = to]
     ELSE /\ waiters' = Tail(waiters)
          /\ pc' = [pc EXCEPT ![s] = to, ![Head(waiters)] = "resolving"]
  /\ UNCHANGED <<run, leads, pos>>

Leave(s, to) ==
  /\ IF waiters = <<>>
     THEN /\ available' = available + 1 /\ UNCHANGED waiters
          /\ pc' = [pc EXCEPT ![s] = to]
     ELSE /\ waiters' = Tail(waiters) /\ UNCHANGED available
          /\ pc' = [pc EXCEPT ![s] = to, ![Head(waiters)] = "resolving"]
  /\ UNCHANGED <<run, leads, pos>>

Resolve(s) ==
  /\ Step(s, "resolving", "resolved")
  /\ UNCHANGED <<durable, attempt, stored, limiter>>

\* The signal is looked at again after the resolver; a checkpoint is consumed
\* durably before the runner gets it,
Consume(s) ==
  /\ ~Aborted /\ s \in stored
  /\ Step(s, "resolved", "clearing")
  /\ stored' = stored \ {s} /\ ClearInFlight(KeyOf(s))
  /\ UNCHANGED <<attempt, limiter>>

\* ... and then the runner is called: with the checkpoint, whatever has happened
\* to the signal meanwhile,
Resume(s) ==
  /\ Step(s, "clearing", "resuming")
  /\ UNCHANGED <<durable, attempt, stored, limiter>>

\* ... or without one.
Run(s) ==
  /\ ~Aborted /\ s \notin stored
  /\ Step(s, "resolved", "running")
  /\ UNCHANGED <<durable, attempt, stored, limiter>>

\* onCheckpoint, once the harness has a session: a fresh or a restored one.
Mark(s) ==
  /\ pc[s] \in {"resuming", "running"}
  /\ Step(s, pc[s], "session")
  /\ IF open THEN MarkInFlight(KeyOf(s)) ELSE UNCHANGED durable
  /\ UNCHANGED <<attempt, stored, limiter>>

\* A runner abandoned at the abort goes on, and reports its session too.
MarkLate(k) ==
  /\ k \in late /\ late' = late \ {k}
  /\ IF open THEN MarkInFlight(k) ELSE UNCHANGED durable
  /\ UNCHANGED <<run, leads, pc, pos, attempt, stored, limiter>>

Answer(s) ==
  /\ pc[s] \in Executing
  /\ Leave(s, "saving")
  /\ UNCHANGED <<durable, attempt, stored, late>>

\* The attempt failed: withRetry tries again or gives the call up. A signal that
\* fired meanwhile makes it a cancellation.
Failing(s) ==
  IF Aborted \/ attempt[s] = Attempts[s[2]] THEN "giving-up" ELSE "acquire"
NextAttempt(s) ==
  attempt' = IF Failing(s) = "acquire" THEN [attempt EXCEPT ![s] = @ + 1] ELSE attempt

Throw(s) ==
  /\ pc[s] \in Executing \cup {"resolving"}
  /\ Leave(s, Failing(s)) /\ NextAttempt(s)
  /\ UNCHANGED <<durable, stored, late>>

\* journal.set is called before the signal is looked at.
Save(s) ==
  /\ open
  /\ Step(s, "saving", IF Aborted THEN "giving-up" ELSE "tidying")
  /\ Set(KeyOf(s), PlaceOf(s))
  /\ UNCHANGED <<attempt, stored, limiter>>

\* A store that fails is a failed attempt: the call is made again.
SaveFails(s) ==
  /\ Step(s, "saving", Failing(s)) /\ NextAttempt(s)
  /\ UNCHANGED <<durable, stored, limiter>>

\* The checkpoint goes after the answer is durable.
Tidy(s) ==
  /\ pc[s] = "tidying"
  /\ ClearInFlight(KeyOf(s))
  /\ IF Aborted
     THEN pc' = [pc EXCEPT ![s] = "giving-up"] /\ UNCHANGED <<pos, leads>>
     ELSE Return(s)
  /\ UNCHANGED <<run, attempt, stored, limiter, late>>

\* raceWithSignal: the abort rejects whatever a strand is awaiting. One that
\* had not entered the attempt loop has nothing to drop.
Abandon(s) ==
  /\ Aborted /\ outcome # "crashed"
  /\ \/ /\ Step(s, "called", "cancelled") /\ UNCHANGED limiter
     \/ /\ pc[s] \in {"acquire", "waiting", "tidying"} /\ Step(s, pc[s], "giving-up")
        /\ UNCHANGED limiter
     \/ /\ pc[s] \in Holding /\ Leave(s, "giving-up")
        /\ late' = IF pc[s] \in {"resuming", "running"} THEN late \cup {KeyOf(s)} ELSE late
  /\ UNCHANGED <<durable, attempt, stored>>

\* The call fails for good: its checkpoint is dropped, as far as the journal
\* is still open.
GiveUp(s) ==
  /\ Step(s, "giving-up", IF Aborted THEN "cancelled" ELSE "failed")
  /\ IF open THEN ClearInFlight(KeyOf(s)) ELSE UNCHANGED durable
  /\ UNCHANGED <<attempt, stored, limiter>>

(***************************************************************************)
(* workflow(), runWorkflow and the executor around it                      *)
(***************************************************************************)
BranchFailed == \E b \in 1..Branches : pc[<<round, b>>] = "failed"        \* mutant
RoundFailed == \E b \in 0..Branches : pc[<<round, b>>] = "failed"
RoundDone == \A b \in 0..Branches : pc[<<round, b>>] = "done"

\* withRetry of the nested workflow calls the body again, on the same builder.
NextRound ==
  /\ ~Aborted /\ RoundFailed /\ round < Rounds
  /\ round' = round + 1 /\ leads' = leads + 1
  /\ pc' = [pc EXCEPT ![<<round + 1, 0>>] = "called"]
  /\ UNCHANGED <<durable, outcome, open, life, pos, attempt, stored, limiter, late>>

\* runWorkflow's end aborts the signal; its listeners empty the semaphore's queue.
End(result) ==
  /\ ~Aborted
  /\ outcome' = result /\ waiters' = <<>>
  /\ UNCHANGED <<durable, open, life, round, leads, pc, pos, attempt, stored, available, late>>

Complete == RoundDone /\ End("complete")
Fail == RoundFailed /\ round = Rounds /\ End("failed")
Cancel == <<life, round>> \in CancelIn /\ End("cancelled")

\* executeWorkflow closes the journal, whatever strands are still cleaning up.
Close ==
  /\ Aborted /\ outcome # "crashed" /\ open
  /\ open' = FALSE
  /\ UNCHANGED <<durable, outcome, life, round, leads, pc, pos, attempt, stored, limiter, late>>

\* The daemon dies: the memory of the run is lost.
Crash ==
  /\ ~Aborted /\ life < Lives
  /\ outcome' = "crashed" /\ open' = FALSE
  /\ pc' = [s \in Strands |-> "unclaimed"] /\ waiters' = <<>> /\ late' = {}
  /\ available' = Slots
  /\ UNCHANGED <<durable, life, round, leads, pos, attempt, stored>>

\* The task is executed again under the same run id, so with the same journal.
Rerun ==
  /\ outcome \in {"failed", "cancelled", "crashed"} /\ ~open /\ life < Lives
  /\ life' = life + 1
  /\ outcome' = "none" /\ open' = TRUE /\ round' = 1 /\ leads' = 1
  /\ pc' = [s \in Strands |-> IF s = <<1, 0>> THEN "called" ELSE "unclaimed"]
  /\ pos' = [s \in Strands |-> 1] /\ attempt' = [s \in Strands |-> 1]
  /\ stored' = {} /\ available' = Slots /\ waiters' = <<>> /\ late' = {}
  /\ UNCHANGED durable

StrandStep(s) ==
  \/ Claim(s) \/ Replay(s) \/ LookUp(s) \/ Acquire(s) \/ Resolve(s) \/ Consume(s) \/ Resume(s)
  \/ Run(s) \/ Mark(s) \/ Answer(s) \/ Throw(s) \/ Save(s) \/ SaveFails(s) \/ Tidy(s)
  \/ Abandon(s) \/ GiveUp(s)

Program == (\E s \in Strands : StrandStep(s)) \/ NextRound \/ Complete \/ Fail \/ Close

Next == Program \/ (\E k \in Keys : MarkLate(k)) \/ Cancel \/ Crash \/ Rerun

Spec == Init /\ [][Next]_vars

\* The process keeps running its own steps, and a harness answers in the end:
\* the adapter's turn watchdog makes a silent one fail.
FairSpec == Spec /\ WF_vars(Program)

(***************************************************************************)
(* Properties                                                              *)
(***************************************************************************)

\* No permit of the semaphore is lost or made up, however holders, waiters and
\* the abort meet; and nobody waits while a permit is free.
SlotsConserved ==
  /\ available + Cardinality({s \in Strands : pc[s] \in Holding}) = Slots
  /\ waiters # <<>> => available = 0

\* An answer found under a key is the answer of the call that looks it up:
\* retries of a round and restarts never hand one call the answer of another.
OwnAnswers ==
  \A s \in Strands :
    pc[s] = "called" /\ journal[KeyOf(s)] # NoPlace => journal[KeyOf(s)] = PlaceOf(s)

\* The run ends: no strand waits for a permit, or for another strand, for ever.
RunEnds == outcome = "none" ~> outcome # "none"

\* A key is executing while a harness has its call.
KeysAt(stages) == {KeyOf(s) : s \in {r \in Strands : pc[r] \in stages}}

CallState ==
  LET executing == KeysAt(Executing)
      answered == KeysAt({"saving"})
  IN [k \in Keys |-> IF k \in executing THEN "executing"
                     ELSE IF k \in answered THEN "answered"
                     ELSE IF journal[k] # NoPlace THEN "recorded" ELSE "idle"]

Abstract == INSTANCE DurableCalls WITH Calls <- Keys, state <- CallState

\* The engine implements the abstract journal of calls.
Implements == Abstract!Spec
===============================================================================
