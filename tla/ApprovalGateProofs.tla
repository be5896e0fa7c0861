-------------------------- MODULE ApprovalGateProofs --------------------------
(***************************************************************************)
(* What ApprovalGate guarantees whatever the plans, the callers and what   *)
(* they ask for: its type, that only an approved plan gets implemented,    *)
(* that one call at a time decides, and that the gate is a GateDecision.   *)
(***************************************************************************)
EXTENDS ApprovalGate, TLAPS

(***************************************************************************)
(* Types                                                                   *)
(***************************************************************************)

CallType == [pc : CallStages, action : Resolutions \cup {"dismiss"}, worded : BOOLEAN]
RecordType == [status : {"none", "open", "resolved", "dismissed"}, plan : Plans \cup {NoPlan},
               approved : BOOLEAN, action : Resolutions \cup {"none"}]

\* The type invariant with the records kept apart: a step that leaves them alone
\* need not look into them.
Plain ==
  /\ journal \in Plans \cup {NoPlan} /\ plan \in Plans \cup {NoPlan}
  /\ run \in {"none", "running", "waiting", "failed", "completed"}
  /\ tracker \in {"ready", "blocked", "completed"}
  /\ paused \in BOOLEAN /\ finished \in BOOLEAN
  /\ pc \in Stages
  /\ transition \in {"none", "reading", "emitting"}
  /\ decision \in Resolutions \cup {"none", "dismiss"}

\* The values of "nothing yet" are calls and records.
LEMMA NothingYet == NoCall \in CallType /\ NoRecord \in RecordType
BY DEF NoCall, NoRecord, CallType, RecordType, CallStages, Resolutions

\* The gate starts with every variable in its type.
LEMMA GateTypeInit == Init => TypeOK
<1> SUFFICES ASSUME Init PROVE TypeOK
  OBVIOUS
<1>1. call \in [Callers -> CallType] /\ record \in RecordType
  BY NothingYet DEF Init
<1>2. QED
  BY <1>1 DEF Init, TypeOK, CallType, RecordType, Stages

\* What a call becomes is a call.
LEMMA ReturnedIsCall ==
  ASSUME TypeOK, NEW c \in Callers
  PROVE  Returned(call[c]) \in CallType
<1>1. call[c] \in CallType
  BY DEF TypeOK, CallType
<1>2. QED
  BY <1>1 DEF Returned, CallType, CallStages

\* No step takes a variable out of its type.
LEMMA GateTypeNext == TypeOK /\ [Next]_vars => TypeOK'
<1> SUFFICES ASSUME TypeOK, [Next]_vars PROVE TypeOK'
  OBVIOUS
<1> USE GateAssumption DEF GateAssumption
<1>0. Plain /\ record \in RecordType /\ call \in [Callers -> CallType]
  BY DEF TypeOK, Plain, RecordType, CallType
<1>a. Plain' /\ record' \in RecordType /\ call' \in [Callers -> CallType] => TypeOK'
  BY DEF TypeOK, Plain, RecordType, CallType
<1>1. CASE Execute
  <2>1. CASE RequestGate
    <3>1. record' \in RecordType
      BY <2>1 DEF RequestGate, TypeOK, RecordType, NoRecord, Resolutions
    <3>2. QED
      BY <2>1, <3>1 DEF RequestGate, TypeOK, RecordType, Stages
  <2>2. CASE Start \/ Architect
    BY <2>2 DEF Start, Architect, TypeOK, callVars, Stages
  <2>3. CASE RecordWaiting \/ Pause \/ PassGate \/ Implement \/ Close \/ ClearJournal
    <3>1. CASE RecordWaiting
      BY <3>1 DEF RecordWaiting, TypeOK, callVars, Stages
    <3>2. CASE Pause
      BY <3>2 DEF Pause, TypeOK, callVars, Stages
    <3>3. CASE PassGate
      BY <3>3 DEF PassGate, TypeOK, callVars, Stages
    <3>4. CASE Implement
      BY <3>4 DEF Implement, TypeOK, callVars, Stages
    <3>5. CASE Close
      BY <3>5 DEF Close, TypeOK, callVars, Stages
    <3>6. CASE ClearJournal
      BY <3>6 DEF ClearJournal, TypeOK, callVars, Stages
    <3>7. QED
      BY <2>3, <3>1, <3>2, <3>3, <3>4, <3>5, <3>6
  <2>4. QED
    BY <1>1, <2>1, <2>2, <2>3 DEF Execute
<1>2. ASSUME NEW c \in Callers, NEW a \in Actions, NEW worded \in BOOLEAN, Ask(c, a, worded)
      PROVE  TypeOK'
  <2>1. call' \in [Callers -> CallType]
    <3>1. [pc |-> IF Joins THEN "joined" ELSE "leading", action |-> a, worded |-> worded] \in CallType
      BY <1>2 DEF Ask, CallType, CallStages
    <3>2. call \in [Callers -> CallType]
      BY DEF TypeOK, CallType
    <3>3. QED
      BY <1>2, <3>1, <3>2 DEF Ask
  <2>2. transition' \in {"none", "reading", "emitting"}
    BY <1>2 DEF Ask, TypeOK
  <2>3. QED
    BY <1>2, <2>1, <2>2 DEF Ask, TypeOK, task, CallType
<1>3. ASSUME NEW c \in Callers, Handle(c) PROVE TypeOK'
  <2>1. CASE Save(c)
    <3>1. /\ call[c].action \in Resolutions \cup {"dismiss"}
          /\ record \in RecordType
      BY DEF TypeOK, RecordType
    <3>2. record' \in RecordType
      BY <2>1, <3>1 DEF Save, RecordType
    <3>3. decision' \in Resolutions \cup {"none", "dismiss"} /\ transition' = "emitting"
      BY <2>1, <3>1 DEF Save, TypeOK
    <3>4. QED
      BY <2>1, <3>2, <3>3 DEF Save, TypeOK, RecordType, task
  <2>2. CASE Return(c)
    <3>1. call' \in [Callers -> CallType]
      BY <2>2, ReturnedIsCall DEF Return
    <3>2. QED
      BY <2>2, <3>1 DEF Return, TypeOK, task, CallType
  <2>3. CASE Throw(c)
    <3>1. call' \in [Callers -> CallType]
      BY <2>3, NothingYet DEF Throw, TypeOK, CallType
    <3>2. QED
      BY <2>3, <3>1 DEF Throw, TypeOK, task, CallType
  <2>4. CASE ApplyRetry(c) \/ Retry(c) \/ ApplyStop(c)
    <3>1. PICK stage \in CallStages : Move(c, stage)
      BY <2>4 DEF ApplyRetry, Retry, ApplyStop, CallStages
    <3>2. call' \in [Callers -> CallType]
      BY <3>1 DEF Move, TypeOK, CallType
    <3>3. CASE ApplyRetry(c)
      BY <3>2, <3>3 DEF ApplyRetry, TypeOK, CallType
    <3>4. CASE Retry(c) \/ ApplyStop(c)
      BY <3>2, <3>4 DEF Retry, ApplyStop, TypeOK, CallType
    <3>5. QED
      BY <2>4, <3>3, <3>4
  <2>5. CASE SetReady(c) \/ SetBlocked(c) \/ ApplyNothing(c)
    <3>1. call' \in [Callers -> CallType]
      BY <2>5, NothingYet DEF SetReady, SetBlocked, ApplyNothing, TypeOK, CallType
    <3>2. QED
      BY <2>5, <3>1 DEF SetReady, SetBlocked, ApplyNothing, task, TypeOK, CallType
  <2>6. QED
    BY <1>3, <2>1, <2>2, <2>3, <2>4, <2>5 DEF Handle
<1>4. CASE RetryFailed \/ Reopen
  <2>1. CASE RetryFailed
    BY <1>0, <1>a, <2>1 DEF RetryFailed, callVars, Plain
  <2>2. CASE Reopen
    BY <1>0, <1>a, <2>2 DEF Reopen, callVars, Plain
  <2>3. QED
    BY <1>4, <2>1, <2>2
<1>5. CASE RestartDaemon
  <2>1. call' \in [Callers -> CallType]
    BY <1>5, NothingYet DEF RestartDaemon
  <2>2. QED
    BY <1>0, <1>a, <1>5, <2>1 DEF RestartDaemon, Plain, Stages
<1>6. CASE UNCHANGED vars
  BY <1>0, <1>a, <1>6 DEF vars, task, Plain
<1>7. QED
  BY <1>1, <1>2, <1>3, <1>4, <1>5, <1>6 DEF Next

\* Every variable of the gate keeps its type (createHighRiskWorkflow, interventions.ts).
THEOREM GateTypeCorrect == Spec => []TypeOK
<1>1. TypeOK /\ [Next]_vars => TypeOK'
  BY GateTypeNext
<1>2. QED
  BY GateTypeInit, <1>1, PTL DEF Spec

(***************************************************************************)
(* Only what was approved is implemented                                   *)
(***************************************************************************)

\* While the record is not settled nobody has decided; once it is, the line
\* that approves is the decision's; an implementation has passed the gate.
DecidedOnce ==
  /\ ~Settled => decision = "none"
  /\ Approved => decision = "approve"
  /\ pc = "implementation" => decision = "approve"

\* Only a save decides, and it finds the record open: a settled one stays.
LEMMA DecidedNext == TypeOK /\ DecidedOnce /\ [Next]_vars => DecidedOnce'
<1> SUFFICES ASSUME TypeOK, DecidedOnce, [Next]_vars PROVE DecidedOnce'
  OBVIOUS
<1> USE DEF DecidedOnce, Settled, Approved
<1>1. CASE RequestGate
  BY <1>1 DEF RequestGate, NoRecord
<1>2. CASE PassGate
  BY <1>2 DEF PassGate, callVars
<1>3. CASE Start \/ Architect \/ RecordWaiting \/ Pause \/ Implement \/ Close \/ ClearJournal
  BY <1>3 DEF Start, Architect, RecordWaiting, Pause, Implement, Close, ClearJournal, callVars
<1>4. ASSUME NEW c \in Callers, Save(c) PROVE DecidedOnce'
  BY <1>4 DEF Save, task, TypeOK
<1>5. ASSUME NEW c \in Callers,
             \/ \E a \in Actions, worded \in BOOLEAN : Ask(c, a, worded)
             \/ Return(c) \/ Throw(c) \/ ApplyRetry(c) \/ Retry(c) \/ SetReady(c)
             \/ ApplyStop(c) \/ SetBlocked(c) \/ ApplyNothing(c)
      PROVE  DecidedOnce'
  BY <1>5 DEF Ask, Return, Throw, ApplyRetry, Retry, SetReady, ApplyStop, SetBlocked, ApplyNothing,
              Move, task
<1>6. CASE RetryFailed \/ Reopen \/ RestartDaemon
  BY <1>6 DEF RetryFailed, Reopen, RestartDaemon, callVars
<1>7. CASE UNCHANGED vars
  BY <1>7 DEF vars, task
<1>8. QED
  BY <1>1, <1>2, <1>3, <1>4, <1>5, <1>6, <1>7 DEF Next, Execute, Handle

\* A plan is implemented only when the first durable answer approved it, however
\* many callers answer, at the same time or again, and wherever the daemon dies
\* (requireWorkflowApproval, "fail closed").
THEOREM OnlyApproved == Spec => []OnlyApprovedIsImplemented
<1>1. Init => DecidedOnce
  BY DEF Init, DecidedOnce, Settled, Approved, NoRecord
<1>2. DecidedOnce => OnlyApprovedIsImplemented
  BY DEF DecidedOnce, OnlyApprovedIsImplemented
<1>3. QED
  BY <1>1, <1>2, DecidedNext, GateTypeCorrect, PTL DEF Spec

(***************************************************************************)
(* A waiting run has a gate that shows a plan                              *)
(***************************************************************************)

\* Past the request there is a record, and it shows a plan.
GateShown ==
  /\ record.status # "none" => record.plan # NoPlan
  /\ pc = "gate" => plan # NoPlan
  /\ pc \in {"asking", "waiting"} => record.status # "none"
  /\ run = "waiting" => record.status # "none"
  /\ \A c \in Callers : call[c].pc # "idle" => record.status # "none"

\* Records are never removed, and the run waits only after the request made one.
LEMMA GateShownNext == TypeOK /\ GateShown /\ [Next]_vars => GateShown'
<1> SUFFICES ASSUME TypeOK, GateShown, [Next]_vars PROVE GateShown'
  OBVIOUS
<1> USE GateAssumption DEF GateAssumption, GateShown
<1>1. CASE RequestGate
  BY <1>1 DEF RequestGate, NoRecord
<1>2. CASE Architect
  BY <1>2 DEF Architect, callVars, TypeOK
<1>3. CASE Start \/ PassGate \/ RecordWaiting \/ Pause \/ Implement \/ Close \/ ClearJournal
  BY <1>3 DEF Start, PassGate, RecordWaiting, Pause, Implement, Close, ClearJournal, callVars
<1>4. ASSUME NEW c \in Callers, Save(c) PROVE GateShown'
  <2>1. record.status # "none"
    BY <1>4 DEF Save
  <2>2. record'.status # "none" /\ record'.plan = record.plan
    BY <1>4 DEF Save, TypeOK
  <2>3. QED
    BY <1>4, <2>1, <2>2 DEF Save, task
<1>5. ASSUME NEW c \in Callers, NEW a \in Actions, NEW worded \in BOOLEAN, Ask(c, a, worded)
      PROVE  GateShown'
  BY <1>5 DEF Ask, task
<1>6. ASSUME NEW c \in Callers,
             \/ Return(c) \/ Throw(c) \/ ApplyRetry(c) \/ Retry(c) \/ SetReady(c)
             \/ ApplyStop(c) \/ SetBlocked(c) \/ ApplyNothing(c)
      PROVE  GateShown'
  <2>1. record.status # "none" /\ record' = record
    BY <1>6 DEF Return, Throw, ApplyRetry, Retry, SetReady, ApplyStop, SetBlocked, ApplyNothing
  <2>2. UNCHANGED <<run, pc, plan>>
    BY <1>6 DEF Return, Throw, ApplyRetry, Retry, SetReady, ApplyStop, SetBlocked, ApplyNothing, task
  <2>3. QED
    BY <2>1, <2>2
<1>7. CASE RetryFailed \/ Reopen
  BY <1>7 DEF RetryFailed, Reopen, callVars
<1>8. CASE RestartDaemon
  <2>1. \A c \in Callers : call'[c].pc = "idle"
    BY <1>8 DEF RestartDaemon, NoCall
  <2>2. QED
    BY <1>8, <2>1 DEF RestartDaemon
<1>9. CASE UNCHANGED vars
  BY <1>9 DEF vars, task
<1>10. QED
  BY <1>1, <1>2, <1>3, <1>4, <1>5, <1>6, <1>7, <1>8, <1>9 DEF Next, Execute, Handle

\* A waiting run always has a gate with a plan for people to find: the record
\* is durable before the row, and a restart forgets neither (daemon.ts 813-821).
THEOREM WaitingIsShown == Spec => []WaitingHasGate
<1>1. Init => GateShown
  BY DEF Init, GateShown, NoRecord, NoCall
<1>2. GateShown => WaitingHasGate
  BY DEF GateShown, WaitingHasGate
<1>3. TypeOK /\ GateShown /\ [Next]_vars => GateShown'
  BY GateShownNext
<1>4. QED
  BY <1>1, <1>2, <1>3, GateTypeCorrect, PTL DEF Spec

(***************************************************************************)
(* One call decides                                                        *)
(***************************************************************************)

\* OneLeader holds from the start and every step keeps it.
LEMMA OneLeaderNext == TypeOK /\ OneLeader /\ [Next]_vars => OneLeader'
<1> SUFFICES ASSUME TypeOK, OneLeader, [Next]_vars PROVE OneLeader'
  OBVIOUS
<1>1. CASE UNCHANGED <<call, transition>>
  BY <1>1 DEF OneLeader
<1>2. ASSUME NEW c \in Callers, NEW a \in Actions, NEW worded \in BOOLEAN, Ask(c, a, worded)
      PROVE  OneLeader'
  <2>1. \A k \in Callers \ {c} : call'[k] = call[k]
    BY <1>2 DEF Ask, TypeOK
  <2>2. call[c].pc = "idle" /\ call'[c].pc = IF transition = "none" THEN "leading" ELSE "joined"
    BY <1>2 DEF Ask, TypeOK, Joins
  <2>3. transition' = IF transition = "none" THEN "reading" ELSE transition
    BY <1>2 DEF Ask, Joins
  <2>4. QED
    BY <2>1, <2>2, <2>3 DEF OneLeader
<1>3. ASSUME NEW c \in Callers, Save(c) PROVE OneLeader'
  BY <1>3 DEF Save, OneLeader, task
<1>4. ASSUME NEW c \in Callers, Return(c) \/ Throw(c) PROVE OneLeader'
  <2>1. \A k \in Callers : call'[k].pc \notin {"leading", "joined"}
    BY <1>4 DEF Return, Throw, Returned, NoCall, TypeOK
  <2>2. QED
    BY <1>4, <2>1 DEF Return, Throw, OneLeader
<1>5. ASSUME NEW c \in Callers,
             \/ ApplyRetry(c) \/ Retry(c) \/ SetReady(c)
             \/ ApplyStop(c) \/ SetBlocked(c) \/ ApplyNothing(c)
      PROVE  OneLeader'
  <2>1. /\ transition' = transition
        /\ call[c].pc \notin {"leading", "joined"} /\ call'[c].pc \notin {"leading", "joined"}
        /\ \A k \in Callers \ {c} : call'[k] = call[k]
    BY <1>5 DEF ApplyRetry, Retry, SetReady, ApplyStop, SetBlocked, ApplyNothing, Move, NoCall, TypeOK
  <2>2. QED
    BY <2>1 DEF OneLeader
<1>6. CASE RestartDaemon
  BY <1>6 DEF RestartDaemon, OneLeader, NoCall
<1>7. CASE Execute \/ RetryFailed \/ Reopen
  <2>1. UNCHANGED <<call, transition>>
    BY <1>7 DEF Execute, Start, Architect, RequestGate, RecordWaiting, Pause, PassGate, Implement,
                Close, ClearJournal, RetryFailed, Reopen, callVars
  <2>2. QED
    BY <1>1, <2>1
<1>8. CASE UNCHANGED vars
  BY <1>1, <1>8 DEF vars
<1>9. QED
  BY <1>2, <1>3, <1>4, <1>5, <1>6, <1>7, <1>8 DEF Next, Handle

\* Transitions of the gate's record are serialized: whoever asks, exactly one
\* call leads and the others share its result (runTransition).
THEOREM TransitionsAreSerialized == Spec => []OneLeader
<1>1. Init => OneLeader
  BY DEF Init, OneLeader, NoCall
<1>2. QED
  BY <1>1, OneLeaderNext, GateTypeCorrect, PTL DEF Spec

(***************************************************************************)
(* The gate is a decision                                                  *)
(***************************************************************************)

\* The stages of the work behind the gate.
BehindGate == {"implementation", "lifecycle", "closing"}

\* A step that leaves the record alone and does not pass the gate leaves the work, or
\* shows nothing.
LEMMA NoDecision ==
  ASSUME record' = record, pc' \in BehindGate => pc \in BehindGate
  PROVE  [Gate!Next]_Gate!vars
<1>1. Verdict' = Verdict
  BY DEF Verdict, Approved
<1> QED BY <1>1 DEF Gate!Next, Gate!vars, Gate!Leave, BehindGate

\* The request asks, the first save decides, and only an approval is passed.
LEMMA GateStep ==
  ASSUME TypeOK, GateShown, [Next]_vars
  PROVE  [Gate!Next]_Gate!vars
<1>1. CASE RequestGate
  <2>1. Verdict' = Verdict \/ (Verdict = "none" /\ Verdict' = "open")
    BY <1>1 DEF RequestGate, Verdict, Approved, NoRecord, TypeOK
  <2>2. pc \notin BehindGate /\ pc' \notin BehindGate
    BY <1>1 DEF RequestGate, BehindGate
  <2> QED BY <2>1, <2>2 DEF Gate!Next, Gate!vars, Gate!Ask, BehindGate
<1>2. CASE PassGate
  <2>1. record' = record /\ (pc' \in BehindGate => Approved)
    BY <1>2 DEF PassGate, callVars, BehindGate
  <2>2. CASE Approved
    <3>1. Verdict = "approved" /\ Verdict' = Verdict /\ pc' \in BehindGate
      BY <1>2, <2>1, <2>2 DEF PassGate, Verdict, Approved, BehindGate
    <3> QED BY <3>1 DEF Gate!Next, Gate!Pass, BehindGate
  <2>3. CASE ~Approved
    BY <2>1, <2>3, NoDecision
  <2> QED BY <2>2, <2>3
<1>3. CASE Start \/ Architect \/ RecordWaiting \/ Pause \/ Implement \/ Close \/ ClearJournal
  <2>1. record' = record /\ (pc' \in BehindGate => pc \in BehindGate)
    BY <1>3 DEF Start, Architect, RecordWaiting, Pause, Implement, Close, ClearJournal, callVars,
                BehindGate
  <2> QED BY <2>1, NoDecision
<1>4. ASSUME NEW c \in Callers, Save(c) PROVE [Gate!Next]_Gate!vars
  <2>1. record.status = "open"
    BY <1>4 DEF Save, Settled, GateShown, TypeOK
  <2>2. record'.status \in {"resolved", "dismissed"} /\ pc' = pc
    BY <1>4 DEF Save, task, TypeOK
  <2>3. Verdict = "open" /\ Verdict' \in {"approved", "rejected"}
    BY <2>1, <2>2 DEF Verdict
  <2> QED BY <2>2, <2>3 DEF Gate!Next, Gate!Decide
<1>5. ASSUME NEW c \in Callers, NEW a \in Actions, NEW worded \in BOOLEAN, Ask(c, a, worded)
      PROVE  [Gate!Next]_Gate!vars
  BY <1>5, NoDecision DEF Ask, task
<1>6. ASSUME NEW c \in Callers,
             \/ Return(c) \/ Throw(c) \/ ApplyRetry(c) \/ Retry(c) \/ SetReady(c)
             \/ ApplyStop(c) \/ SetBlocked(c) \/ ApplyNothing(c)
      PROVE  [Gate!Next]_Gate!vars
  <2>1. UNCHANGED <<record, pc>>
    BY <1>6 DEF Return, Throw, ApplyRetry, Retry, SetReady, ApplyStop, SetBlocked, ApplyNothing, task
  <2> QED BY <2>1, NoDecision
<1>7. CASE RetryFailed \/ Reopen
  BY <1>7, NoDecision DEF RetryFailed, Reopen, callVars
<1>8. CASE RestartDaemon
  BY <1>8, NoDecision DEF RestartDaemon, BehindGate
<1>9. CASE UNCHANGED vars
  BY <1>9, NoDecision DEF vars, task
<1> QED BY <1>1, <1>2, <1>3, <1>4, <1>5, <1>6, <1>7, <1>8, <1>9 DEF Next, Execute, Handle

\* The gate is decided once, by an answer to its question, and passed only when it was
\* approved, for any plans and callers: concurrent, late, repeated, wordless and
\* contradicting answers, dismissals and crashes included. DaemonLoop's gates are the same
\* (GatesAreDecisions).
THEOREM GateIsDecision == Spec => GateDecides
<1>1. Init => Gate!Init /\ GateShown
  BY DEF Init, Gate!Init, Verdict, NoRecord, GateShown, NoCall
<1>2. TypeOK /\ GateShown /\ [Next]_vars => GateShown'
  BY GateShownNext
<1>3. TypeOK /\ GateShown /\ [Next]_vars => [Gate!Next]_Gate!vars
  BY GateStep
<1> QED BY <1>1, <1>2, <1>3, GateTypeCorrect, PTL DEF Spec, GateDecides, Gate!Spec
=============================================================================
