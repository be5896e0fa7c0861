------------------------------ MODULE CliHarness ------------------------------
(* Harness sessions that are one process each: the native and acp adapters     *)
(* (packages/harness/src/native-adapter.ts, acp-adapter.ts) and the dsh        *)
(* adapter (packages/harness-deepseek/src/index.ts) over executeProcess        *)
(* (packages/process-execution/src/index.ts).                                  *)
(*                                                                             *)
(* The prompt travels on stdin, and to dsh in a file named in the environment. *)
(* A process that ends, its streams, an abort and the caller that listens come *)
(* in any order; every wait of the code is a stage of its own.                 *)
EXTENDS Integers, FiniteSets

CONSTANTS
  CliSessions   \* sessions of the adapters

VARIABLES
  adapter,    \* the adapter each belongs to
  stage,      \* where the run of each session is
  session,    \* its state
  aborted,    \* its AbortController was used
  version,    \* versionPromise of the dsh adapter
  files,      \* temporary files of the run on disk
  child,      \* its process
  killed,     \* the process was sent its signal
  stdin,      \* what became of the payload
  outcome,    \* how executeProcess settled
  listening,  \* the caller has subscribed
  heard       \* ends it was told of

cliVars == <<adapter, stage, session, aborted, version, files, child, killed, stdin, outcome, listening, heard>>
process == <<child, killed, stdin, outcome>>
caller == <<adapter, listening, heard>>

Over == {"completed", "failed", "cancelled"}

TypeOK ==
  /\ adapter \in [CliSessions -> {"native", "acp", "dsh"}]
  /\ stage \in [CliSessions -> {"new", "probing", "refused", "overlay", "artifact", "patch", "spawn",
                                "exec", "dispose", "cleanup", "return", "done"}]
  /\ session \in [CliSessions -> {"none", "running"} \cup Over]
  /\ aborted \in [CliSessions -> BOOLEAN]
  /\ version \in {"none", "asked", "supported", "bad"}
  /\ files \in [CliSessions -> SUBSET {"overlay", "payload"}]
  /\ child \in [CliSessions -> {"none", "alive", "exited", "gone"}]
  /\ killed \in [CliSessions -> BOOLEAN]
  /\ stdin \in [CliSessions -> {"open", "complete", "broken"}]
  /\ outcome \in [CliSessions -> {"pending", "zero", "other", "rejected"}]
  /\ listening \in [CliSessions -> BOOLEAN] /\ heard \in [CliSessions -> Nat]

Init ==
  /\ adapter \in [CliSessions -> {"native", "acp", "dsh"}]
  /\ stage = [s \in CliSessions |-> "new"]
  /\ session = [s \in CliSessions |-> "none"]
  /\ aborted = [s \in CliSessions |-> FALSE]
  /\ version = "none"
  /\ files = [s \in CliSessions |-> {}]
  /\ child = [s \in CliSessions |-> "none"]
  /\ killed = [s \in CliSessions |-> FALSE]
  /\ stdin = [s \in CliSessions |-> "open"]
  /\ outcome = [s \in CliSessions |-> "pending"]
  /\ listening = [s \in CliSessions |-> FALSE]
  /\ heard = [s \in CliSessions |-> 0]

Goes(s, to) == stage' = [stage EXCEPT ![s] = to]
Settles(s, how) == outcome' = [outcome EXCEPT ![s] = how]
\* emit: to the handlers of the moment
Told(s) == heard' = [heard EXCEPT ![s] = IF listening[s] THEN @ + 1 ELSE @]
-----------------------------------------------------------------------------
(* Sessions and their caller.                                                  *)

Begun(s, first) == session' = [session EXCEPT ![s] = "running"] /\ Goes(s, first)

Starts(s) ==
  /\ stage[s] = "new" /\ Begun(s, "spawn")
  /\ UNCHANGED <<aborted, version, files, process, caller>>

StartNative(s) == adapter[s] = "native" /\ Starts(s)
StartAcp(s) == adapter[s] = "acp" /\ Starts(s)

\* dsh asks for the version once: every start waits for the same promise
StartDsh(s) ==
  /\ stage[s] = "new" /\ adapter[s] = "dsh"
  /\ Goes(s, "probing")
  /\ version' = IF version = "none" THEN "asked" ELSE version
  /\ UNCHANGED <<session, aborted, files, process, caller>>

ProbeEnds ==
  /\ version = "asked"
  /\ version' \in {"supported", "bad"}
  /\ UNCHANGED <<stage, session, aborted, files, process, caller>>

AfterProbe(s) ==
  /\ stage[s] = "probing" /\ version \in {"supported", "bad"}
  /\ IF version = "supported" THEN Begun(s, "overlay") ELSE Goes(s, "refused") /\ UNCHANGED session
  /\ UNCHANGED <<aborted, version, files, process, caller>>

\* subscribe, which repeats an end that has come already
Listen(s) ==
  /\ session[s] # "none" /\ ~ listening[s]
  /\ listening' = [listening EXCEPT ![s] = TRUE]
  /\ heard' = [heard EXCEPT ![s] = IF session[s] \in Over THEN @ + 1 ELSE @]
  /\ UNCHANGED <<adapter, stage, session, aborted, version, files, process>>

\* cancelSession, and stopSession
Cancel(s) ==
  /\ session[s] = "running"
  /\ aborted' = [aborted EXCEPT ![s] = TRUE]
  /\ session' = [session EXCEPT ![s] = "cancelled"]
  /\ Told(s)
  /\ UNCHANGED <<adapter, stage, version, files, process, listening>>
-----------------------------------------------------------------------------
(* The files of dsh.                                                           *)

\* a file operation that fails ends the run: inside the try its finally removes both
MakeOverlay(s) ==
  /\ stage[s] = "overlay"
  /\ \/ Goes(s, "artifact") /\ files' = [files EXCEPT ![s] = {"overlay"}] /\ UNCHANGED outcome
     \/ Goes(s, "return") /\ Settles(s, "rejected") /\ UNCHANGED files
  /\ UNCHANGED <<session, aborted, version, child, killed, stdin, caller>>

\* createPayloadArtifact removes what it made when it cannot write
MakeArtifact(s) ==
  /\ stage[s] = "artifact"
  /\ \/ Goes(s, "patch") /\ files' = [files EXCEPT ![s] = @ \cup {"payload"}] /\ UNCHANGED outcome
     \/ Goes(s, "return") /\ Settles(s, "rejected") /\ UNCHANGED files
  /\ UNCHANGED <<session, aborted, version, child, killed, stdin, caller>>

\* mutant: nothing is removed when the patch cannot be written
AfterPatchFails == "return"

AfterPatch == "dispose"

WritePatch(s) ==
  /\ stage[s] = "patch"
  /\ \/ Goes(s, "spawn") /\ UNCHANGED outcome
     \/ Goes(s, AfterPatch) /\ Settles(s, "rejected")
  /\ UNCHANGED <<session, aborted, version, files, child, killed, stdin, caller>>

Dispose(s) ==
  /\ stage[s] = "dispose"
  /\ Goes(s, "cleanup") /\ files' = [files EXCEPT ![s] = @ \ {"payload"}]
  /\ UNCHANGED <<session, aborted, version, process, caller>>

Cleanup(s) ==
  /\ stage[s] = "cleanup"
  /\ Goes(s, "return") /\ files' = [files EXCEPT ![s] = @ \ {"overlay"}]
  /\ UNCHANGED <<session, aborted, version, process, caller>>
-----------------------------------------------------------------------------
(* executeProcess.                                                             *)

\* a file payload leaves stdin empty, so that it is complete at once
Spawn(s) ==
  /\ stage[s] = "spawn" /\ Goes(s, "exec")
  /\ \/ /\ child' = [child EXCEPT ![s] = "alive"]
        /\ stdin' = [stdin EXCEPT ![s] = IF adapter[s] = "dsh" THEN "complete" ELSE @]
        /\ UNCHANGED outcome
     \/ Settles(s, "rejected") /\ UNCHANGED <<child, stdin>>
  /\ UNCHANGED <<session, aborted, version, files, killed, caller>>

Executing(s) == child[s] \in {"alive", "exited"} /\ outcome[s] = "pending"
\* fail and its cleanup
Fails(s) == Settles(s, "rejected") /\ killed' = [killed EXCEPT ![s] = TRUE]

StdinFinishes(s) ==
  /\ Executing(s) /\ stdin[s] = "open"
  /\ stdin' = [stdin EXCEPT ![s] = "complete"]
  /\ UNCHANGED <<stage, session, aborted, version, files, child, killed, outcome, caller>>

StdinBreaks(s) ==
  /\ Executing(s) /\ stdin[s] = "open"
  /\ stdin' = [stdin EXCEPT ![s] = "broken"] /\ Fails(s)
  /\ UNCHANGED <<stage, session, aborted, version, files, child, caller>>

\* the error a spawned child emits for its signal, which only a live process takes
AbortError(s) ==
  /\ Executing(s) /\ child[s] = "alive" /\ aborted[s]
  /\ Fails(s)
  /\ UNCHANGED <<stage, session, aborted, version, files, child, stdin, caller>>

\* the process ends; what it started may hold its streams open
ChildExits(s) ==
  /\ child[s] = "alive"
  /\ child' = [child EXCEPT ![s] = "exited"]
  /\ UNCHANGED <<stage, session, aborted, version, files, killed, stdin, outcome, caller>>

\* 'close': the exit code counts only when the whole payload was taken
ChildCloses(s) ==
  /\ child[s] = "exited"
  /\ child' = [child EXCEPT ![s] = "gone"]
  /\ IF outcome[s] # "pending" THEN UNCHANGED <<outcome, killed>>
     ELSE IF stdin[s] # "complete" THEN Fails(s)
     ELSE (\E code \in {"zero", "other"} : Settles(s, code)) /\ UNCHANGED killed
  /\ UNCHANGED <<stage, session, aborted, version, files, stdin, caller>>

Settled(s) ==
  /\ stage[s] = "exec" /\ outcome[s] # "pending"
  /\ Goes(s, IF adapter[s] = "dsh" THEN "dispose" ELSE "return")
  /\ UNCHANGED <<session, aborted, version, files, process, caller>>

\* mutant: the result is taken whatever became of the session
TakenAnyhow(s) == stage[s] = "return"

Taken(s) == stage[s] = "return" /\ ~ aborted[s] /\ session[s] # "cancelled"

\* what runSession, runCliSession and runProcess do with the result
Return(s) ==
  /\ stage[s] = "return" /\ Goes(s, "done")
  /\ IF Taken(s)
     THEN /\ session' = [session EXCEPT ![s] = IF outcome[s] = "zero" THEN "completed" ELSE "failed"]
          /\ Told(s)
     ELSE UNCHANGED <<session, heard>>
  /\ UNCHANGED <<adapter, aborted, version, files, process, listening>>

NativeEnds(s) == adapter[s] = "native" /\ Return(s)
AcpEnds(s) == adapter[s] = "acp" /\ Return(s)
DshEnds(s) == adapter[s] = "dsh" /\ Return(s)
-----------------------------------------------------------------------------
\* what the code does on its own once its waits are over
CliRuns(s) ==
  \/ AfterProbe(s) \/ MakeOverlay(s) \/ MakeArtifact(s) \/ WritePatch(s)
  \/ Dispose(s) \/ Cleanup(s) \/ Spawn(s) \/ AbortError(s) \/ Settled(s)
  \/ NativeEnds(s) \/ AcpEnds(s) \/ DshEnds(s)

CliNext ==
  \/ ProbeEnds
  \/ \E s \in CliSessions :
       \/ StartNative(s) \/ StartAcp(s) \/ StartDsh(s) \/ Listen(s) \/ Cancel(s)
       \/ StdinFinishes(s) \/ StdinBreaks(s) \/ ChildExits(s) \/ ChildCloses(s)
       \/ CliRuns(s)

CliSpec == Init /\ [][CliNext]_cliVars
-----------------------------------------------------------------------------
\* A session ends once for the caller that listens to it, whether it listens before or
\* after the end: the result of a process that was cancelled comes too late to count.
OneEnd ==
  \A s \in CliSessions : heard[s] <= 1 /\ (listening[s] /\ session[s] \in Over => heard[s] = 1)

\* The file with the prompt of a task is gone when the run of the session is over,
\* whichever step of the run failed and whenever it was cancelled.
PromptIsRemoved == \A s \in CliSessions : stage[s] = "done" => "payload" \notin files[s]
=============================================================================
