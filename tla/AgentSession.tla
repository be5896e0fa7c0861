----------------------------- MODULE AgentSession -----------------------------
(* One agent call of a workflow and the sessions it leaves behind: the ACP     *)
(* adapter that queues and runs turns (packages/harness/src/acp-runtime-       *)
(* adapter.ts), the closure of the daemon that starts or reattaches a session  *)
(* and waits for its answer (apps/cli/src/daemon.ts), and the controls a       *)
(* person has over a running agent (packages/runtime/src/agent-controls.ts).   *)
(*                                                                             *)
(* The store is synchronous SQLite behind async methods, so a chain of store   *)
(* calls is never interrupted by an event of a backend: a step is everything   *)
(* between two waits for a backend. What a turn says is only whose prompt it   *)
(* answers.                                                                    *)
EXTENDS Integers, Sequences, FiniteSets, SequencesExt

CONSTANTS
  MaxSessions,  \* sessions ever started: a bound
  MaxEvents,    \* things people ask of agents and runs, deaths of the daemon, and
                \* starts that fail in the harness or in the store: a bound
  Actions,      \* the reasons to start a session again: restart, retry, switch-profile
  None

ASSUME BoundsAssumption ==
  /\ MaxSessions \in Nat \ {0}
  /\ MaxEvents \in Nat
  /\ "retry" \in Actions

Ids == 1 .. MaxSessions

VARIABLES
  sess,       \* the adapter's sessions, in memory
  row,        \* agent_sessions.state, durable
  source,     \* agent_session_runtime_bindings: what a session replaces
  run,        \* the state of the run's row
  call,       \* the workflow's call and the closure that serves it
  checkpoint, \* the session the journal holds for the call
  signal,     \* the workflow's AbortSignal has fired
  suppressed, \* suppressedCancellationEvents
  reported,   \* sessions whose failure became an intervention
  inFlight,   \* control requests whose prompt has not been answered
  started,    \* sessions started so far
  left        \* what remains of MaxEvents

vars == <<sess, row, source, run, call, checkpoint, signal, suppressed, reported,
          inFlight, started, left>>

SessionStates == {"none", "running", "waiting", "completed", "failed", "cancelled"}
RowStates == {"none", "running", "waiting", "completed", "failed", "stopped"}
RunStates == {"running", "waiting", "completed", "failed"}
Ends == {"completed", "failed", "cancelled"}
Prompts == {"call", "again", "send", "interrupt"}  \* whose prompt a turn answers

Live(s) == s.state \notin Ends \cup {"none"}
TerminalRow(r) == r \in {"completed", "failed", "stopped"}
ActiveRow(r) == r \in {"running", "waiting"}

\* toAgentSessionState: how the store names the state of a harness session.
RowOf(state) == IF state = "cancelled" THEN "stopped" ELSE state

\* saveSessionState of the controls: what has ended stays as it ended.
SaveRow(old, new) == IF TerminalRow(old) THEN old ELSE new

NoSession == [state |-> "none", last |-> None, queue |-> <<>>, turn |-> None]
NewTurn(kind) == [kind |-> kind, settled |-> FALSE]
Event(state, kind) == [state |-> state, of |-> kind]
IdleCall == [pc |-> "idle", id |-> None, restored |-> FALSE, out |-> None, answer |-> None]

\* None is the absent value: no outcome, no turn and no event.
ASSUME NoneAssumption ==
  /\ None \notin {"resolved", "rejected"}
  /\ None \notin [kind: Prompts, settled: BOOLEAN]
  /\ None \notin [state: Ends, of: Prompts]

TypeOK ==
  /\ sess \in [Ids -> [state: SessionStates,
                       last: {None} \cup [state: SessionStates, of: {None} \cup Prompts],
                       queue: Seq(Prompts),
                       turn: {None} \cup [kind: Prompts, settled: BOOLEAN]]]
  /\ \A i \in Ids : sess[i].queue # <<>> => sess[i].turn # None
  /\ row \in [Ids -> RowStates]
  /\ source \in [Ids -> {None} \cup [of: Ids, by: Actions]]
  /\ run \in RunStates
  /\ call \in [pc: {"idle", "starting", "prompting", "waiting", "done"},
               id: {None} \cup Ids, restored: BOOLEAN,
               out: {None, "resolved", "rejected"}, answer: {None} \cup Prompts]
  /\ checkpoint \in {None} \cup Ids
  /\ signal \in BOOLEAN
  /\ suppressed \subseteq Ids /\ reported \subseteq Ids
  /\ inFlight \subseteq [op: {"send", "interrupt", "resuming"}, id: Ids]
  /\ started \in 0 .. MaxSessions
  /\ left \in 0 .. MaxEvents

Init ==
  /\ sess = [i \in Ids |-> NoSession]
  /\ row = [i \in Ids |-> "none"]
  /\ source = [i \in Ids |-> None]
  /\ run = "running"
  /\ call = IdleCall
  /\ checkpoint = None
  /\ signal = FALSE
  /\ suppressed = {} /\ reported = {} /\ inFlight = {}
  /\ started = 0
  /\ left = MaxEvents

-----------------------------------------------------------------------------
(* Events of a session. Two handlers hear them: the controls' (once the        *)
(* session is registered) and the daemon's (once the call waits for it).       *)

\* The daemon's closure waits for session i.
Hears(i) == call.pc = "waiting" /\ call.id = i

Settled(event) ==
  [call EXCEPT !.pc = "done",
               !.out = IF event.state = "completed" THEN "resolved" ELSE "rejected",
               !.answer = IF event.state = "completed" THEN event.of ELSE None]

\* updateSessionState: the daemon writes a state over whatever the row says.
UpdateSessionState(old, state) == IF old = "none" THEN old ELSE RowOf(state)

\* saveAgentSession: the rows once that of session i is in a state.
Saved(i, state) == [row EXCEPT ![i] = state]

\* saveAgentSessionRuntimeBinding of a session j that does i again.
SaveBinding(j, i, by) == source' = [source EXCEPT ![j] = [of |-> i, by |-> by]]

\* What an event leaves in the row: the controls swallow a cancellation that
\* they asked for themselves (quiet), and respect a row that has ended; the
\* daemon's updateSessionState overwrites.
RowAfter(i, event, quiet) ==
  IF row[i] = "none" THEN "none"
  ELSE IF Hears(i) /\ event.state \in Ends THEN UpdateSessionState(row[i], event.state)
  ELSE IF event.state = "cancelled" /\ quiet THEN row[i]
  ELSE SaveRow(row[i], RowOf(event.state))

\* mutant: the closure does not hear a failure.
CallAfterAnswer(i, event) ==
  IF Hears(i) /\ event.state \in {"completed", "cancelled"} THEN Settled(event) ELSE call

CallAfter(i, event) ==
  IF Hears(i) /\ event.state \in Ends THEN Settled(event) ELSE call

\* The controls report a failed agent to the people.
ReportedAfter(i, event) ==
  IF event.state = "failed" /\ row[i] # "none" THEN reported \cup {i} ELSE reported

Emitted(i, event) ==
  /\ row' = [row EXCEPT ![i] = RowAfter(i, event, i \in suppressed)]
  /\ call' = CallAfter(i, event)
  /\ suppressed' = IF event.state = "cancelled" THEN suppressed \ {i} ELSE suppressed
  /\ reported' = ReportedAfter(i, event)

\* mutant: a prompt goes ahead of those that wait and of the one being answered.
EnqueuedFirst(s, kind) ==
  IF s.turn = None
  THEN [s EXCEPT !.state = "running", !.turn = NewTurn(kind)]
  ELSE [s EXCEPT !.state = "running", !.turn = NewTurn(kind), !.queue = <<s.turn.kind>> \o @]

\* enqueuePrompt on a session that is not cancelled: a session without a turn
\* begins at once, any other queues the prompt behind its turn.
Enqueued(s, kind) ==
  IF s.turn = None
  THEN [s EXCEPT !.state = "running", !.turn = NewTurn(kind)]
  ELSE [s EXCEPT !.state = "running", !.queue = Append(@, kind)]

\* enqueuePrompt announces a session that was not running.
Announced(s) ==
  IF s.state = "running" THEN s ELSE [s EXCEPT !.last = Event("running", None)]

\* startSession: the new session is announced and runs its prompt at once.
StartedSession(kind) == [Enqueued(NoSession, kind) EXCEPT !.last = Event("running", None)]

\* restoreSession, and the prompt that the closure sends to it.
RestoredSession ==
  Enqueued(Announced([NoSession EXCEPT !.state = "waiting", !.last = Event("waiting", None)]),
           "call")

\* cancelSession and stopSession, of a session that has not ended.
CancelledSession(s) == [s EXCEPT !.state = "cancelled", !.last = Event("cancelled", None)]

\* resumeSession: the session runs, whatever it was and though it may have
\* nothing to do.
ResumedSession(s) == [s EXCEPT !.state = "running", !.last = Event("running", None)]

\* registerSession: the row of the session, with its binding.
Registered(i) == Saved(i, "running")

\* A turn is over: the next prompt is sent, or all are refused because the
\* session is cancelled.
Advanced(s) ==
  IF s.queue = <<>> THEN [s EXCEPT !.turn = None]
  ELSE IF s.state = "cancelled" THEN [s EXCEPT !.turn = None, !.queue = <<>>]
  ELSE [s EXCEPT !.state = "running", !.turn = NewTurn(Head(s.queue)), !.queue = Tail(@)]

\* The prompts that end with the turn: answered, or refused with it.
Answered(s) ==
  {s.turn.kind} \cup (IF s.state = "cancelled" THEN ToSet(s.queue) ELSE {})

-----------------------------------------------------------------------------
(* Turns: the stream of the backend, and the watchdog.                         *)

TurnVars == <<sess, row, call, suppressed, reported>>

\* Text of the answer: heard as "running", the session's own state stays.
Speaks(i) ==
  /\ sess[i].turn # None
  /\ sess' = [sess EXCEPT ![i].last = Event("running", None)]
  /\ Emitted(i, Event("running", None))
  /\ UNCHANGED <<source, run, checkpoint, signal, inFlight, started, left>>

\* The backend reports idle or working: the session takes that state, whatever
\* it was in.
Reports(i, state) ==
  /\ sess[i].turn # None
  /\ sess' = [sess EXCEPT ![i].state = state, ![i].last = Event(state, None)]
  /\ Emitted(i, Event(state, None))
  /\ UNCHANGED <<source, run, checkpoint, signal, inFlight, started, left>>

\* The turn fails while its stream is open.
FailsOpen(i) ==
  /\ sess[i].turn # None
  /\ ~sess[i].turn.settled
  /\ sess' = [sess EXCEPT ![i].state = "failed", ![i].last = Event("failed", None),
                          ![i].turn.settled = TRUE]
  /\ Emitted(i, Event("failed", None))
  /\ UNCHANGED <<source, run, checkpoint, signal, inFlight, started, left>>

\* An error in the stream. It also disarms the watchdog.
StreamError(i) == FailsOpen(i)

\* The turn's budget is spent: the session fails, and the backend is asked to
\* stop.
Watchdog(i) == FailsOpen(i)

\* What the end of the stream says of the session: nothing when it was cancelled
\* or has failed already.
EventOfEnd(s, result) ==
  IF s.state = "cancelled" \/ s.turn.settled THEN None
  ELSE Event(result, s.turn.kind)

Judged(s, event) ==
  IF event = None THEN s ELSE [s EXCEPT !.state = event.state, !.last = event]

\* The prompt of a reattached session has run: only now does the call listen,
\* and hears the last event again when that ended the session.
Listens(i, s) ==
  IF s.last # None /\ s.last.state \in Ends THEN Settled(s.last)
  ELSE [call EXCEPT !.pc = "waiting"]

EndTurn(i, result) ==
  /\ sess[i].turn # None
  /\ LET s == sess[i]
         event == EventOfEnd(s, result)
         judged == Judged(s, event)
         listens == call.pc = "prompting" /\ call.id = i /\ s.turn.kind = "call"
         heard == IF event = None THEN row[i] ELSE RowAfter(i, event, i \in suppressed)
     IN /\ sess' = [sess EXCEPT ![i] = Advanced(judged)]
        /\ call' = IF listens THEN Listens(i, judged)
                   ELSE IF event = None THEN call ELSE CallAfter(i, event)
        /\ row' = [row EXCEPT ![i] =
                     IF listens /\ judged.last.state \in Ends
                     THEN UpdateSessionState(row[i], judged.last.state)
                     ELSE IF s.turn.kind = "interrupt" THEN SaveRow(heard, "running")
                     ELSE heard]
        /\ suppressed' = IF event # None /\ event.state = "cancelled"
                         THEN suppressed \ {i} ELSE suppressed
        /\ reported' = IF event = None THEN reported ELSE ReportedAfter(i, event)
        /\ inFlight' = {r \in inFlight : r.id = i => r.op \notin Answered(judged)}
  /\ UNCHANGED <<source, run, checkpoint, signal, started, left>>

-----------------------------------------------------------------------------
(* The call: the engine offers the journal's checkpoint once and clears it,    *)
(* the closure reattaches that session or starts one.                          *)

StartCall ==
  /\ call.pc = "idle"
  /\ run = "running"
  /\ ~signal
  /\ call' = [IdleCall EXCEPT !.pc = "starting", !.id = checkpoint,
                              !.restored = checkpoint # None]
  /\ checkpoint' = None
  /\ UNCHANGED <<sess, row, source, run, signal, suppressed, reported, inFlight, started, left>>

\* startSession: the session runs its prompt at once; then the checkpoint is
\* journalled, the session registered, and the call waits.
SessionStarts ==
  /\ call.pc = "starting" /\ ~call.restored
  /\ started < MaxSessions
  /\ LET i == started + 1
     IN /\ sess' = [sess EXCEPT ![i] = StartedSession("call")]
        /\ row' = Registered(i)
        /\ checkpoint' = i
        /\ call' = [call EXCEPT !.pc = "waiting", !.id = i]
        /\ started' = i
  /\ UNCHANGED <<source, run, signal, suppressed, reported, inFlight, left>>

\* restoreSession: the row runs again, the prompt is sent again, and the call
\* does not listen before that turn is over.
SessionRestored ==
  /\ call.pc = "starting" /\ call.restored
  /\ LET i == call.id
     IN /\ sess' = [sess EXCEPT ![i] = RestoredSession]
        /\ row' = Registered(i)
        /\ checkpoint' = i
        /\ call' = [call EXCEPT !.pc = "prompting"]
  /\ UNCHANGED <<source, run, signal, suppressed, reported, inFlight, started, left>>

Rejected == [call EXCEPT !.pc = "done", !.out = "rejected"]

\* The harness cannot start or reattach the session.
StartFails ==
  /\ call.pc = "starting"
  /\ left > 0
  /\ call' = Rejected
  /\ left' = left - 1
  /\ UNCHANGED <<sess, row, source, run, checkpoint, signal, suppressed, reported,
                 inFlight, started>>

\* The store fails after the session has started. When it is the registration,
\* the session is stopped; when it is the checkpoint, nothing stops it.
StoreFails ==
  /\ call.pc = "starting" /\ ~call.restored
  /\ started < MaxSessions
  /\ left > 0
  /\ \E registration \in BOOLEAN :
       LET i == started + 1
       IN /\ sess' = [sess EXCEPT ![i] =
                        IF registration
                        THEN CancelledSession(StartedSession("call"))
                        ELSE StartedSession("call")]
          /\ checkpoint' = IF registration THEN i ELSE checkpoint
          /\ started' = i
  /\ call' = Rejected
  /\ left' = left - 1
  /\ UNCHANGED <<row, source, run, signal, suppressed, reported, inFlight>>

\* The workflow is cancelled. The engine stops waiting at once; the closure
\* hears it only while it waits for the answer.
Abort ==
  /\ ~signal
  /\ call.pc \in {"starting", "prompting", "waiting"}
  /\ signal' = TRUE
  /\ checkpoint' = None
  /\ IF call.pc # "waiting"
     THEN UNCHANGED TurnVars
     ELSE LET i == call.id
              event == Event("cancelled", None)
          IN IF Live(sess[i])
             THEN /\ sess' = [sess EXCEPT ![i] = CancelledSession(@)]
                  /\ Emitted(i, event)
             ELSE /\ call' = Rejected
                  /\ UNCHANGED <<sess, row, suppressed, reported>>
  /\ UNCHANGED <<source, run, inFlight, started, left>>

\* The engine takes the outcome and the run ends with its only call. The
\* checkpoint goes; that of a cancelled call went when it was cancelled.
Return ==
  /\ call.pc = "done" \/ signal
  /\ run \in {"running", "waiting"}
  /\ checkpoint' = IF signal THEN checkpoint ELSE None
  /\ run' = IF call.out = "resolved" /\ ~signal THEN "completed" ELSE "failed"
  /\ UNCHANGED <<sess, row, source, call, signal, suppressed, reported, inFlight, started, left>>

\* A person asks for the failed task again, which deletes its journal. (A second
\* call beside a closure that still waits is left out.)
Again ==
  /\ left > 0
  /\ run = "failed" /\ call.pc = "done"
  /\ run' = "running"
  /\ call' = IdleCall
  /\ signal' = FALSE
  /\ checkpoint' = None
  /\ left' = left - 1
  /\ UNCHANGED <<sess, row, source, suppressed, reported, inFlight, started>>

-----------------------------------------------------------------------------
(* What people ask of a session or of the run. A request whose twin is still   *)
(* in flight joins it and does nothing.                                        *)

Spend == /\ left > 0
         /\ left' = left - 1

\* cancelSession of all sessions in A, whose cancellation the controls asked for
\* (quiet) or not, and the state their rows are saved with.
CancelAll(A, quiet, state) ==
  LET hit == {i \in A : Live(sess[i])}
      event == Event("cancelled", None)
      after(i) == IF i \notin hit THEN row[i]
                  ELSE RowAfter(i, event, quiet \/ i \in suppressed)
  IN /\ sess' = [i \in Ids |->
                   IF i \in hit THEN CancelledSession(sess[i]) ELSE sess[i]]
     /\ row' = [i \in Ids |-> IF i \in A THEN SaveRow(after(i), state) ELSE row[i]]
     /\ call' = IF \E i \in hit : Hears(i) THEN Settled(event) ELSE call
     /\ suppressed' = (IF quiet THEN suppressed \cup A ELSE suppressed) \ hit

SendInstruction(i) ==
  /\ ActiveRow(row[i])
  /\ sess[i].state \notin {"none", "cancelled"}
  /\ [op |-> "send", id |-> i] \notin inFlight
  /\ Spend
  /\ sess' = [sess EXCEPT ![i] = Enqueued(Announced(@), "send")]
  /\ row' = Saved(i, SaveRow(row[i], "running"))
  /\ inFlight' = inFlight \cup {[op |-> "send", id |-> i]}
  /\ UNCHANGED <<source, run, call, checkpoint, signal, suppressed, reported, started>>

\* interruptAndSend, up to the wait for the backend.
Interrupt(i) ==
  /\ ActiveRow(row[i])
  /\ \A r \in inFlight : r.id = i => r.op = "send"
  /\ Spend
  /\ CancelAll({i}, TRUE, row[i])
  /\ inFlight' = inFlight \cup {[op |-> "resuming", id |-> i]}
  /\ UNCHANGED <<source, run, checkpoint, signal, reported, started>>

\* ... and after it: the session runs again and the prompt is queued, or the
\* backend did not reattach it.
InterruptResumes(i) ==
  /\ [op |-> "resuming", id |-> i] \in inFlight
  /\ sess[i].state # "none"
  /\ sess' = [sess EXCEPT ![i] = Enqueued(ResumedSession(@), "interrupt")]
  /\ row' = Saved(i, SaveRow(row[i], "running"))
  /\ inFlight' = (inFlight \ {[op |-> "resuming", id |-> i]})
                  \cup {[op |-> "interrupt", id |-> i]}
  /\ UNCHANGED <<source, run, call, checkpoint, signal, suppressed, reported, started, left>>

InterruptFails(i) ==
  /\ [op |-> "resuming", id |-> i] \in inFlight
  /\ IF sess[i].state = "none" THEN UNCHANGED left
     ELSE /\ left > 0
          /\ left' = left - 1
  /\ inFlight' = inFlight \ {[op |-> "resuming", id |-> i]}
  /\ UNCHANGED <<TurnVars, source, run, checkpoint, signal, started>>

Stop(i) ==
  /\ ActiveRow(row[i])
  /\ Spend
  /\ CancelAll({i}, FALSE, "stopped")
  /\ UNCHANGED <<source, run, checkpoint, signal, reported, inFlight, started>>

\* pauseRun cancels every active session of the run, and saves them as waiting.
PauseRun ==
  /\ run = "running"
  /\ Spend
  /\ CancelAll({i \in Ids : ActiveRow(row[i])}, TRUE, "waiting")
  /\ run' = "waiting"
  /\ UNCHANGED <<source, checkpoint, signal, reported, inFlight, started>>

\* resumeRun reattaches every session that waits; one that this process does
\* not know makes it fail.
ResumeRun ==
  /\ run = "waiting"
  /\ Spend
  /\ LET W == {i \in Ids : row[i] = "waiting"}
     IN /\ \A i \in W : sess[i].state # "none"
        /\ sess' = [i \in Ids |->
                      IF i \in W THEN ResumedSession(sess[i]) ELSE sess[i]]
        /\ row' = [i \in Ids |-> IF i \in W THEN "running" ELSE row[i]]
  /\ run' = "running"
  /\ UNCHANGED <<source, call, checkpoint, signal, suppressed, reported, inFlight, started>>

\* listAgentSessionRuntimeBindings of what replaces session i.
Bindings(i) == {j \in Ids : source[j] # None /\ source[j].of = i}

Replacements(i, by) == {j \in Bindings(i) : source[j].by = by}

\* mutant: nobody looks for the replacement of an earlier request.
ReplaceAgain(i, by) ==
  /\ TerminalRow(row[i])
  /\ started < MaxSessions
  /\ Spend
  /\ LET j == started + 1
     IN /\ sess' = [sess EXCEPT ![j] = StartedSession("again")]
        /\ row' = Registered(j)
        /\ SaveBinding(j, i, by)
        /\ started' = j
  /\ run' = "running"
  /\ UNCHANGED <<call, checkpoint, signal, suppressed, reported, inFlight>>

\* startReplacement: a session that ended is started again with its prompt, once
\* for each of the reasons.
Replace(i, by) ==
  /\ TerminalRow(row[i])
  /\ Replacements(i, by) = {}
  /\ started < MaxSessions
  /\ Spend
  /\ LET j == started + 1
     IN /\ sess' = [sess EXCEPT ![j] = StartedSession("again")]
        /\ row' = Registered(j)
        /\ SaveBinding(j, i, by)
        /\ started' = j
  /\ run' = "running"
  /\ UNCHANGED <<call, checkpoint, signal, suppressed, reported, inFlight>>

Latest == CHOOSE i \in Ids : row[i] # "none" /\ \A j \in Ids : row[j] # "none" => j <= i

\* retryRun starts the latest session again under a request of its own. When it
\* has been retried by hand already, the index refuses the binding and the new
\* session is stopped in its first turn.
RetryRun ==
  /\ \E i \in Ids : row[i] # "none"
  /\ \A i \in Ids : ~ActiveRow(row[i])
  /\ IF Replacements(Latest, "retry") = {} THEN Replace(Latest, "retry")
     ELSE /\ started < MaxSessions
          /\ Spend
          /\ started' = started + 1
          /\ sess' = [sess EXCEPT ![started + 1] =
                        CancelledSession(StartedSession("again"))]
          /\ UNCHANGED <<row, source, run, call, checkpoint, signal, suppressed, reported,
                         inFlight>>

\* The daemon dies and starts again. What it had in memory is gone; the rows say
\* what they said.
Crash ==
  /\ left > 0
  /\ left' = left - 1
  /\ sess' = [i \in Ids |-> NoSession]
  /\ call' = IF call.pc = "done" /\ run \in {"completed", "failed"} THEN call ELSE IdleCall
  /\ signal' = FALSE
  /\ suppressed' = {} /\ inFlight' = {}
  /\ UNCHANGED <<row, source, run, checkpoint, reported, started>>

-----------------------------------------------------------------------------
Turn(i) ==
  \/ Speaks(i) \/ StreamError(i) \/ Watchdog(i)
  \/ \E state \in {"running", "waiting"} : Reports(i, state)
  \/ \E result \in Ends : EndTurn(i, result)

Closure == StartCall \/ SessionStarts \/ SessionRestored \/ Return

\* The tools of the control plane that act on a session, and those that act on
\* the run.
AgentTools(i) ==
  \/ SendInstruction(i) \/ Interrupt(i) \/ Stop(i)
  \/ \E by \in Actions : Replace(i, by)

RunTools == PauseRun \/ ResumeRun \/ RetryRun

\* Answers to interventions about an agent or a run come down to the same.
Person == RunTools \/ \E i \in Ids : AgentTools(i)

Next ==
  \/ Closure \/ StartFails \/ StoreFails \/ Abort \/ Again \/ Crash
  \/ Person
  \/ \E i \in Ids : Turn(i) \/ InterruptResumes(i) \/ InterruptFails(i)

Spec == Init /\ [][Next]_vars

\* The event loop runs what it can, a start takes no longer than acpx's timeout
\* for it, and timers fire. Nothing is assumed of the backend of a turn.
Fairness == WF_vars(Closure) /\ \A i \in Ids : WF_vars(Watchdog(i))

FairSpec == Spec /\ Fairness

-----------------------------------------------------------------------------
(* The answer a workflow gets is the answer to its own prompt, whatever else   *)
(* people had the session do meanwhile, and once it has it that prompt is not  *)
(* being worked on any more. (Of a call that started its session: one that      *)
(* reattached may be answered by a later prompt, see the README.)              *)
AnswerIsOwn ==
  call.out = "resolved" /\ ~call.restored =>
    /\ call.answer = "call"
    /\ \A i \in Ids : call.id = i /\ sess[i].turn # None => sess[i].turn.kind # "call"

(* No two sessions redo the same session for the same reason, however often    *)
(* the request is repeated, across restarts of the daemon.                     *)
OneReplacement ==
  \A i, j \in Ids : source[i] # None /\ source[i] = source[j] => i = j

(* A call that started a session is decided, whatever people do to the session *)
(* and whatever its backend fails to say, unless the daemon dies.              *)
FreshCallEnds ==
  (call.pc = "waiting" /\ ~call.restored) ~> (call.pc # "waiting")

=============================================================================
