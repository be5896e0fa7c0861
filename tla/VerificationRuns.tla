--------------------------- MODULE VerificationRuns ---------------------------
(* The verification runs of one requirement of one task: the durable service   *)
(* that keeps them (packages/verification/src/durable-service.ts), the daemon  *)
(* that records in it the verdict of a workflow (apps/cli/src/daemon.ts) and   *)
(* the people who request, retry and cancel runs over MCP meanwhile.           *)
(*                                                                             *)
(* The service keeps its runs in memory, reads its file when it is first asked *)
(* and writes the whole of it after every change, one write at a time. Between *)
(* two waits for the disk or the tracker a call is not interrupted.            *)
EXTENDS Integers, Sequences, FiniteSets, SequencesExt

CONSTANTS
  People,       \* who calls the service besides the daemon
  Daemon,       \* the daemon, recording verdicts
  MaxAttempts,  \* retryPolicy.maxAttempts of the profile
  MaxCalls,     \* calls of people and verdicts of workflows: a bound
  MaxFaults,    \* deaths of the daemon and writes that fail: a bound
  None

\* What the constants may be.
VerificationAssumption ==
  /\ Daemon \notin People
  /\ MaxAttempts \in Nat \ {0}
  /\ MaxCalls \in Nat /\ MaxFaults \in Nat

Ids == 1 .. MaxCalls  \* in the order of startedAt; a call creates one run at most
Clients == People \cup {Daemon}
Verdicts == {"passed", "failed", "blocked"}
Terminal == Verdicts \cup {"cancelled"}
RunStates == {"none", "pending", "running"} \cup Terminal

VARIABLES
  mem,       \* runs: the state of each run in memory
  file,      \* ... and in the file
  attempt,   \* of each run
  created,   \* runs created so far
  loaded,    \* how far the first read of the file is
  reading,   \* what that read has seen
  queue,     \* writeQueue: the calls whose writes wait, the first being written
  writing,   \* the contents of the write under way
  broken,    \* writeQueue has rejected
  call,      \* the call each caller waits for
  overtaken, \* some call did not wait for the first read (a history variable)
  left       \* what remains of the bounds

vars == <<mem, file, attempt, created, loaded, reading, queue, writing, broken, call, overtaken,
          left>>

NoRuns == [i \in Ids |-> "none"]
NoCall == [op |-> "none", run |-> None, to |-> None, at |-> "none"]

TypeOK ==
  /\ mem \in [Ids -> RunStates] /\ file \in [Ids -> RunStates]
  /\ attempt \in [Ids -> 0 .. MaxAttempts]
  /\ created \in 0 .. MaxCalls
  /\ \A i \in Ids : (mem[i] # "none" \/ file[i] # "none") => i <= created /\ attempt[i] > 0
  /\ loaded \in {"no", "reading", "read", "yes"}
  /\ reading \in [Ids -> RunStates]
  /\ queue \in Seq(Clients) /\ IsInjective(queue)
  /\ writing \in {None} \cup [Ids -> RunStates]
  /\ writing # None => queue # <<>>
  /\ broken \in BOOLEAN /\ overtaken \in BOOLEAN
  /\ call \in [Clients -> [op: {"none", "request", "retry", "cancel", "markRunning", "complete"},
                           run: {None} \cup Ids,
                           to: {None} \cup RunStates,
                           at: {"none", "load", "inspect", "save", "back"}]]
  /\ \A c \in Clients : call[c].at = "save" <=> c \in ToSet(queue)
  /\ left \in [calls: 0 .. MaxCalls, faults: 0 .. MaxFaults]

Init ==
  /\ mem = NoRuns /\ file = NoRuns
  /\ attempt = [i \in Ids |-> 0]
  /\ created = 0
  /\ loaded = "no" /\ reading = NoRuns
  /\ queue = <<>> /\ writing = None /\ broken = FALSE
  /\ call = [c \in Clients |-> NoCall]
  /\ overtaken = FALSE
  /\ left = [calls |-> MaxCalls, faults |-> MaxFaults]

-----------------------------------------------------------------------------
(* Calls. The first one reads the file; one that comes while it is read goes   *)
(* on with what is in memory.                                                  *)

\* load: a call starts, or the daemon goes on with its next one.
Load(c, op, run, to) ==
  /\ call' = [call EXCEPT ![c] = [op |-> op, run |-> run, to |-> to,
                                  at |-> IF loaded = "no" THEN "load" ELSE "inspect"]]
  /\ loaded' = IF loaded = "no" THEN "reading" ELSE loaded
  /\ overtaken' = (overtaken \/ loaded \in {"reading", "read"})

Person(c) ==
  /\ call[c].at = "none"
  /\ left.calls > 0
  /\ left' = [left EXCEPT !.calls = @ - 1]
  /\ \/ Load(c, "request", None, None)
     \/ \E i \in 1 .. created : Load(c, "retry", i, None) \/ Load(c, "cancel", i, "cancelled")
  /\ UNCHANGED <<mem, file, attempt, created, reading, queue, writing, broken>>

\* A workflow has come to a verdict.
Verdict(v) ==
  /\ call[Daemon].at = "none"
  /\ left.calls > 0
  /\ left' = [left EXCEPT !.calls = @ - 1]
  /\ Load(Daemon, "request", None, v)
  /\ UNCHANGED <<mem, file, attempt, created, reading, queue, writing, broken>>

ReadFile ==
  /\ loaded = "reading"
  /\ reading' = file
  /\ loaded' = "read"
  /\ UNCHANGED <<mem, file, attempt, created, queue, writing, broken, call, overtaken, left>>

\* The runs of the file replace those in memory.
EndLoad ==
  /\ loaded = "read"
  /\ mem' = [i \in Ids |-> IF reading[i] # "none" THEN reading[i] ELSE mem[i]]
  /\ loaded' = "yes"
  /\ reading' = NoRuns
  /\ call' = [c \in Clients |-> IF call[c].at = "load" THEN [call[c] EXCEPT !.at = "inspect"]
                                ELSE call[c]]
  /\ UNCHANGED <<file, attempt, created, queue, writing, broken, overtaken, left>>

\* save: the caller waits for its write; a queue that has rejected once rejects
\* every later write.
Save(c, run) ==
  IF broken
  THEN /\ call' = [call EXCEPT ![c] = NoCall]
       /\ UNCHANGED queue
  ELSE /\ call' = [call EXCEPT ![c].at = "save", ![c].run = run]
       /\ queue' = Append(queue, c)

Known == {i \in Ids : mem[i] # "none"}
Latest == IF Known = {} THEN None ELSE CHOOSE i \in Known : \A j \in Known : j <= i

\* The call returns a run without having changed anything.
Back(c, run) ==
  /\ call' = [call EXCEPT ![c].at = "back", ![c].run = run]
  /\ UNCHANGED <<mem, attempt, created, queue>>

Throws(c) ==
  /\ call' = [call EXCEPT ![c] = NoCall]
  /\ UNCHANGED <<mem, attempt, created, queue>>

\* createRun, and the write of it.
Creates(c, n) ==
  /\ created' = created + 1
  /\ mem' = [mem EXCEPT ![created + 1] = "pending"]
  /\ attempt' = [attempt EXCEPT ![created + 1] = n]
  /\ Save(c, created + 1)

Updates(c, i, state) ==
  /\ mem' = [mem EXCEPT ![i] = state]
  /\ Save(c, i)
  /\ UNCHANGED <<attempt, created>>

\* A run that is wanted, under way or passed answers the request.
Request(c) ==
  IF Latest # None /\ mem[Latest] \in {"pending", "running", "passed"} THEN Back(c, Latest)
  ELSE Creates(c, 1)

Retry(c, i) ==
  IF mem[i] \in {"failed", "blocked", "cancelled"} /\ attempt[i] < MaxAttempts
  THEN Creates(c, attempt[i] + 1)
  ELSE Throws(c)

Cancel(c, i) ==
  IF mem[i] = "none" THEN Throws(c)
  ELSE IF mem[i] \in Terminal THEN Back(c, i) ELSE Updates(c, i, "cancelled")

MarkRunning(c, i) ==
  CASE mem[i] = "pending" -> Updates(c, i, "running")
    [] mem[i] = "running" -> Back(c, i)
    [] OTHER -> Throws(c)

\* mutant: a verdict is recorded whatever became of the run.
CompleteAnyway(c, i, verdict) ==
  IF mem[i] = "none" THEN Throws(c) ELSE Updates(c, i, verdict)

Complete(c, i, verdict) ==
  IF mem[i] = "none" THEN Throws(c)
  ELSE IF mem[i] \in Terminal THEN Back(c, i) ELSE Updates(c, i, verdict)

Act(c) ==
  /\ call[c].at = "inspect"
  /\ CASE call[c].op = "request" -> Request(c)
       [] call[c].op = "retry" -> Retry(c, call[c].run)
       [] call[c].op = "cancel" -> Cancel(c, call[c].run)
       [] call[c].op = "markRunning" -> MarkRunning(c, call[c].run)
       [] call[c].op = "complete" -> Complete(c, call[c].run, call[c].to)
  /\ UNCHANGED <<file, loaded, reading, writing, broken, overtaken, left>>

-----------------------------------------------------------------------------
(* The file: a temporary one with all that is in memory, renamed over it.      *)

StartWrite ==
  /\ queue # <<>> /\ writing = None
  /\ writing' = mem
  /\ UNCHANGED <<mem, file, attempt, created, loaded, reading, queue, broken, call, overtaken, left>>

EndWrite ==
  /\ writing # None
  /\ file' = writing
  /\ writing' = None
  /\ call' = [call EXCEPT ![Head(queue)].at = "back"]
  /\ queue' = Tail(queue)
  /\ UNCHANGED <<mem, attempt, created, loaded, reading, broken, overtaken, left>>

\* A write that fails rejects those behind it too.
WriteFails ==
  /\ writing # None
  /\ left.faults > 0
  /\ left' = [left EXCEPT !.faults = @ - 1]
  /\ writing' = None
  /\ broken' = TRUE
  /\ call' = [c \in Clients |-> IF c \in ToSet(queue) THEN NoCall ELSE call[c]]
  /\ queue' = <<>>
  /\ UNCHANGED <<mem, file, attempt, created, loaded, reading, overtaken>>

-----------------------------------------------------------------------------
\* A person has the answer.
Returns(c) ==
  /\ call[c].at = "back"
  /\ call' = [call EXCEPT ![c] = NoCall]
  /\ UNCHANGED <<mem, file, attempt, created, loaded, reading, queue, writing, broken, overtaken,
                 left>>

\* The daemon goes on with the state the service returned: a pending run is
\* marked as running, a running one completed, and any other left as it is.
DaemonGoesOn ==
  /\ call[Daemon].at = "back"
  /\ LET i == call[Daemon].run
         v == call[Daemon].to
     IN CASE call[Daemon].op = "request" /\ mem[i] = "pending" ->
               Load(Daemon, "markRunning", i, v)
          [] call[Daemon].op \in {"request", "markRunning"} /\ mem[i] = "running" ->
               Load(Daemon, "complete", i, v)
          [] OTHER ->
               /\ call' = [call EXCEPT ![Daemon] = NoCall]
               /\ UNCHANGED <<loaded, overtaken>>
  /\ UNCHANGED <<mem, file, attempt, created, reading, queue, writing, broken, left>>

Crash ==
  /\ left.faults > 0
  /\ left' = [left EXCEPT !.faults = @ - 1]
  /\ mem' = NoRuns /\ loaded' = "no" /\ reading' = NoRuns
  /\ queue' = <<>> /\ writing' = None /\ broken' = FALSE
  /\ call' = [c \in Clients |-> NoCall]
  /\ UNCHANGED <<file, attempt, created, overtaken>>

Service == ReadFile \/ EndLoad \/ StartWrite \/ EndWrite \/ \E c \in Clients : Act(c)

Next ==
  \/ Service \/ WriteFails \/ DaemonGoesOn \/ Crash
  \/ \E c \in People : Person(c) \/ Returns(c)
  \/ \E v \in Verdicts : Verdict(v)

Spec == Init /\ [][Next]_vars

-----------------------------------------------------------------------------
(* A verdict on disk is never replaced or lost: not by a cancellation that     *)
(* came late, not by a second verdict, not by a crash in the middle of a write *)
(* (unless a call overtook the first read of the file, see the README).        *)
VerdictsLast ==
  [][(~overtaken' =>
        \A i \in Ids : file[i] \in Terminal => file'[i] = file[i])]_vars
=============================================================================
