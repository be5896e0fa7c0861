-------------------------- MODULE TaskExecutionProofs --------------------------
(***************************************************************************)
(* What holds of a task's executions whatever workflows are configured,    *)
(* however often people ask for the task, and wherever the daemon dies.    *)
(***************************************************************************)
EXTENDS TaskExecution, TLAPS

(***************************************************************************)
(* The order of the calls                                                  *)
(***************************************************************************)

Flows == {"default", "verified", "design", "high-risk"}
StagePhases ==
  {"design", "architecture", "gate", "implementation", "base", "security-review", "review",
   "verification", "validation"}

\* The stage a call is made in: its own, or the one whose failure it fixes.
StageOf(c) == CASE c.phase = "fix" -> "review"
                [] c.phase = "security-fix" -> "security-review"
                [] c.phase = "verification-fix" -> "verification"
                [] OTHER -> c.phase

\* How far in every workflow a stage is.
Place(stage) == CASE stage \in {"design", "architecture"} -> 1
                  [] stage = "gate" -> 2
                  [] stage \in {"implementation", "base"} -> 3
                  [] stage = "security-review" -> 4
                  [] stage = "review" -> 5
                  [] stage = "verification" -> 6
                  [] stage = "validation" -> 7
                  [] OTHER -> 8

\* What a workflow can come to: a fix follows only a review that is not the last.
CallsOf(f) ==
  {c \in Calls \cup {Gate} :
     /\ \E i \in DOMAIN Stages(f) : Stages(f)[i] = StageOf(c)
     /\ c.phase \in {"fix", "security-fix"} => c.cycle < MaxFix
     /\ c.phase = "verification-fix" => c.cycle < MaxVerify}

\* A set of places in a workflow has a first.
LEMMA First ==
  ASSUME NEW S \in SUBSET (1..7), S # {}
  PROVE  \E i \in S : \A j \in S : i <= j
<1>1. CASE 1 \in S
  BY <1>1
<1>2. CASE 1 \notin S /\ 2 \in S
  BY <1>2
<1>3. CASE 1 \notin S /\ 2 \notin S /\ 3 \in S
  BY <1>3
<1>4. CASE 1 \notin S /\ 2 \notin S /\ 3 \notin S /\ 4 \in S
  BY <1>4
<1>5. CASE 1 \notin S /\ 2 \notin S /\ 3 \notin S /\ 4 \notin S
  <2>1. \A i \in S : i \in {5, 6, 7}
    BY <1>5
  <2>2. CASE 5 \in S
    BY <2>1, <2>2
  <2>3. CASE 5 \notin S /\ 6 \in S
    BY <2>1, <2>3
  <2>4. CASE 5 \notin S /\ 6 \notin S
    <3>1. PICK i \in S : TRUE
      OBVIOUS
    <3> QED BY <2>1, <2>4, <3>1
  <2> QED BY <2>2, <2>3, <2>4
<1> QED BY <1>1, <1>2, <1>3, <1>4, <1>5

\* A workflow's stages are in the order of their places, and validation is last.
LEMMA StagesInOrder ==
  ASSUME NEW f \in Flows
  PROVE  /\ DOMAIN Stages(f) \subseteq 1..7 /\ 1 \in DOMAIN Stages(f)
         /\ Head(Stages(f)) = Stages(f)[1]
         /\ \A i \in DOMAIN Stages(f) : Stages(f)[i] \in StagePhases
         /\ \A i, j \in DOMAIN Stages(f) : i < j <=> Place(Stages(f)[i]) < Place(Stages(f)[j])
         /\ \E i \in DOMAIN Stages(f) : Stages(f)[i] = "validation"
<1>1. CASE f = "default"
  BY <1>1 DEF Stages, DefaultWorkflow, StagePhases, Place
<1>2. CASE f = "verified"
  BY <1>2 DEF Stages, WorkflowWithVerification, StagePhases, Place
<1>3. CASE f = "design"
  BY <1>3 DEF Stages, DesignFrontendWorkflow, StagePhases, Place
<1>4. CASE f = "high-risk"
  BY <1>4 DEF Stages, HighRiskWorkflow, StagePhases, Place
<1>5. QED
  BY <1>1, <1>2, <1>3, <1>4 DEF Flows

\* After a stage comes the first later one that is not skipped, or the end.
LEMMA NextStageIs ==
  ASSUME NEW f \in Flows, NEW i \in DOMAIN Stages(f), NEW passed \in BOOLEAN
  PROVE  \/ /\ NextStage(f, Stages(f)[i], passed) = Done
            /\ \A j \in DOMAIN Stages(f) : j > i => Skips(f, Stages(f)[j], passed)
         \/ \E j \in DOMAIN Stages(f) :
              /\ j > i /\ NextStage(f, Stages(f)[i], passed) = Call(Stages(f)[j], 0)
              /\ \A k \in DOMAIN Stages(f) : i < k /\ k < j => Skips(f, Stages(f)[k], passed)
<1> DEFINE stages == Stages(f)
           here == CHOOSE k \in DOMAIN stages : stages[k] = stages[i]
           later == {k \in DOMAIN stages : k > here /\ ~Skips(f, stages[k], passed)}
           next == CHOOSE k \in later : \A j \in later : k <= j
<1>1. here = i
  <2>1. \A k \in DOMAIN stages : stages[k] = stages[i] => k = i
    BY StagesInOrder
  <2> QED BY <2>1
<1>2. NextStage(f, stages[i], passed) = IF later = {} THEN Done ELSE Call(stages[next], 0)
  BY DEF NextStage
<1>3. CASE later = {}
  BY <1>1, <1>2, <1>3
<1>4. CASE later # {}
  <2>1. later \in SUBSET (1..7)
    BY StagesInOrder
  <2>2. next \in later /\ \A j \in later : next <= j
    <3> HIDE DEF later
    <3> QED BY <1>4, <2>1, First
  <2>3. next \in DOMAIN stages /\ next > i
    BY <1>1, <2>2
  <2>4. \A k \in DOMAIN stages : i < k /\ k < next => Skips(f, stages[k], passed)
    <3> SUFFICES ASSUME NEW k \in DOMAIN stages, i < k, k < next, ~Skips(f, stages[k], passed)
                 PROVE  FALSE
      OBVIOUS
    <3>1. k \in later
      BY <1>1
    <3>2. next <= k
      BY <2>2, <3>1
    <3>3. k \in 1..7 /\ next \in 1..7
      BY <2>1, <2>2, <3>1
    <3> HIDE DEF next
    <3> QED BY <3>2, <3>3
  <2> HIDE DEF next, later, here
  <2> QED BY <1>2, <1>4, <2>3, <2>4
<1> QED BY <1>3, <1>4


\* How far a call is: by its stage, then its cycle, a fix after its review.
Fixes == {"fix", "security-fix", "verification-fix"}
Rank(c) == 30 * Place(StageOf(c)) + 2 * c.cycle + (IF c.phase \in Fixes THEN 1 ELSE 0)

\* A call has the phase of a stage or of a fix, and its stage is a stage's.
LEMMA CallsHavePlaces ==
  ASSUME NEW c \in Calls
  PROVE  /\ c = Call(c.phase, c.cycle)
         /\ c.phase \in {"design", "architecture", "implementation", "base", "validation",
                         "security-review", "security-fix", "review", "fix", "verification",
                         "verification-fix"}
         /\ c.cycle \in 0..10 /\ Place(StageOf(c)) \in 1..7 /\ Rank(c) \in Nat
<1>1. MaxFix \in 0..10 /\ MaxVerify \in 0..10
  BY TaskAssumption DEF TaskAssumption
<1>2. /\ c.phase \in {"design", "architecture", "implementation", "base", "validation",
                      "security-review", "security-fix", "review", "fix", "verification",
                      "verification-fix"}
      /\ c.cycle \in 0..10 /\ c = Call(c.phase, c.cycle)
  BY <1>1 DEF Calls, Call
<1>3. Place(StageOf(c)) \in 1..7
  BY <1>2 DEF Place, StageOf
<1>4. QED
  BY <1>2, <1>3 DEF Rank

\* What follows the end of a stage is further on, and belongs to the workflow.
LEMMA NextStageGoesOn ==
  ASSUME NEW f \in Flows, NEW i \in DOMAIN Stages(f), NEW passed \in BOOLEAN
  PROVE  LET next == NextStage(f, Stages(f)[i], passed) IN
         /\ next \in CallsOf(f) \cup {Done}
         /\ Place(StageOf(next)) > Place(Stages(f)[i])
<1> DEFINE next == NextStage(f, Stages(f)[i], passed)
<1>1. CASE next = Done
  BY <1>1, StagesInOrder DEF Done, Call, StageOf, Place, StagePhases
<1>2. ASSUME NEW j \in DOMAIN Stages(f), j > i, next = Call(Stages(f)[j], 0)
      PROVE  next \in CallsOf(f) /\ Place(StageOf(next)) > Place(Stages(f)[i])
  <2>1. Stages(f)[j] \in StagePhases /\ Place(Stages(f)[i]) < Place(Stages(f)[j])
    BY <1>2, StagesInOrder
  <2>2. StageOf(next) = Stages(f)[j] /\ next.phase = Stages(f)[j] /\ next.cycle = 0
    BY <1>2, <2>1 DEF StageOf, Call, StagePhases
  <2>3. next \in Calls \cup {Gate}
    <3>1. MaxFix \in 0..10 /\ MaxVerify \in 0..10
      BY TaskAssumption DEF TaskAssumption
    <3> QED BY <1>2, <2>1, <3>1 DEF Calls, Gate, Call, StagePhases
  <2>4. next.phase \notin Fixes
    BY <2>1, <2>2 DEF StagePhases, Fixes
  <2> HIDE DEF next
  <2> QED BY <2>1, <2>2, <2>3, <2>4 DEF CallsOf, Fixes
<1>3. next = Done \/ \E j \in DOMAIN Stages(f) : j > i /\ next = Call(Stages(f)[j], 0)
  BY NextStageIs
<1> HIDE DEF next
<1>4. QED
  BY <1>1, <1>2, <1>3 DEF next

\* Every answer leads further, to a call of the same workflow or to its end:
\* the fix loops are bounded (maxFixCycles, maxVerificationFixCycles).
LEMMA FollowingGoesOn ==
  ASSUME NEW f \in Flows, NEW c \in CallsOf(f) \ {Gate}, NEW passed \in BOOLEAN
  PROVE  /\ Following(f, c, passed) \in CallsOf(f) \cup {Done}
         /\ Rank(Following(f, c, passed)) > Rank(c)
<1> DEFINE next == Following(f, c, passed)
<1>0. MaxFix \in 0..10 /\ MaxVerify \in 0..10
  BY TaskAssumption DEF TaskAssumption
<1>1. PICK i \in DOMAIN Stages(f) : Stages(f)[i] = StageOf(c)
  BY DEF CallsOf
<1>2. c \in Calls
  BY DEF CallsOf
<1>3. c.cycle \in 0..10 /\ Place(StageOf(c)) \in 1..7 /\ c.phase \in {"design", "architecture",
        "implementation", "base", "validation", "security-review", "security-fix", "review", "fix",
        "verification", "verification-fix"}
  BY <1>2, CallsHavePlaces
<1>4. Rank(c) <= 30 * Place(StageOf(c)) + 21
  BY <1>3 DEF Rank
<1>5. CASE c.phase \notin Fixes /\ next = NextStage(f, c.phase, passed)
  <2>1. StageOf(c) = c.phase
    BY <1>5 DEF StageOf, Fixes
  <2>2. next \in CallsOf(f) \cup {Done} /\ Place(StageOf(next)) > Place(StageOf(c))
    <3> HIDE DEF next
    <3> QED BY <1>1, <1>5, <2>1, NextStageGoesOn
  <2>3. next.cycle \in Nat /\ Place(StageOf(next)) \in Nat
    <3>1. CASE next \in Calls
      <4> HIDE DEF next
      <4> QED BY <3>1, CallsHavePlaces
    <3>2. CASE next = Done \/ next = Gate
      <4> HIDE DEF next
      <4> QED BY <3>2 DEF Done, Gate, Call, StageOf, Place
    <3> QED BY <2>2, <3>1, <3>2 DEF CallsOf
  <2>4. Rank(next) >= 30 * Place(StageOf(next))
    <3> HIDE DEF next
    <3> QED BY <2>3 DEF Rank
  <2>5. Rank(next) \in Nat /\ Rank(c) \in Nat
    <3> HIDE DEF next
    <3> QED BY <2>3, <1>2, CallsHavePlaces DEF Rank
  <2> HIDE DEF next
  <2> QED BY <1>3, <1>4, <2>2, <2>3, <2>4, <2>5 DEF next
<1>6. ASSUME \/ /\ c.phase = "review" /\ c.cycle < MaxFix /\ next = Call("fix", c.cycle)
             \/ /\ c.phase = "security-review" /\ c.cycle < MaxFix
                /\ next = Call("security-fix", c.cycle)
             \/ /\ c.phase = "verification" /\ c.cycle < MaxVerify
                /\ next = Call("verification-fix", c.cycle)
             \/ c.phase = "fix" /\ next = Call("review", c.cycle + 1)
             \/ c.phase = "security-fix" /\ next = Call("security-review", c.cycle + 1)
             \/ c.phase = "verification-fix" /\ next = Call("verification", c.cycle + 1)
      PROVE  next \in CallsOf(f) /\ Rank(next) > Rank(c)
  <2>1. next \in Calls
    <3> HIDE DEF next
    <3> QED BY <1>0, <1>3, <1>6 DEF Calls, Call, CallsOf
  <2>2. StageOf(next) = StageOf(c)
    <3> HIDE DEF next
    <3> QED BY <1>6 DEF StageOf, Call
  <2>3. next \in CallsOf(f)
    <3> HIDE DEF next
    <3> QED BY <1>1, <1>6, <2>1, <2>2 DEF CallsOf, Call
  <2>4. Rank(next) > Rank(c)
    <3> HIDE DEF next
    <3> QED BY <1>3, <1>6, <2>2 DEF Rank, Fixes, Call
  <2> QED BY <2>3, <2>4
<1>7. \/ c.phase \notin Fixes /\ next = NextStage(f, c.phase, passed)
      \/ /\ c.phase = "review" /\ c.cycle < MaxFix /\ next = Call("fix", c.cycle)
      \/ /\ c.phase = "security-review" /\ c.cycle < MaxFix
         /\ next = Call("security-fix", c.cycle)
      \/ /\ c.phase = "verification" /\ c.cycle < MaxVerify
         /\ next = Call("verification-fix", c.cycle)
      \/ c.phase = "fix" /\ next = Call("review", c.cycle + 1)
      \/ c.phase = "security-fix" /\ next = Call("security-review", c.cycle + 1)
      \/ c.phase = "verification-fix" /\ next = Call("verification", c.cycle + 1)
  BY <1>0, <1>3 DEF Following, AfterReview, AfterVerification, Fixes
<1> QED BY <1>5, <1>6, <1>7

(***************************************************************************)
(* Types                                                                   *)
(***************************************************************************)

\* While an execution is at work it has come to something of its workflow.
OnItsWay ==
  pc \in {"allocate", "workflow", "agent"} =>
    /\ flow \in Flows /\ at \in CallsOf(flow) \cup {Done}
    /\ pc = "agent" => at \in Calls

\* The gate and the end are not calls that anybody answers.
LEMMA GateIsNoCall == Gate \notin Calls /\ Done \notin Calls /\ Gate # Done
  BY DEF Gate, Done, Call, Calls

\* A workflow starts with a call of its own.
LEMMA EntryIsACall ==
  ASSUME NEW f \in Flows
  PROVE  Entry(f) \in CallsOf(f) \ {Gate}
<1>1. Entry(f) = Call(Stages(f)[1], 0) /\ 1 \in DOMAIN Stages(f)
  BY StagesInOrder DEF Entry
<1>2. Stages(f)[1] \in {"design", "architecture", "implementation", "base"}
  BY DEF Flows, Stages, DefaultWorkflow, WorkflowWithVerification, DesignFrontendWorkflow,
         HighRiskWorkflow
<1>3. Entry(f) \in Calls /\ StageOf(Entry(f)) = Stages(f)[1]
  BY <1>1, <1>2 DEF Calls, Call, StageOf
<1>4. Entry(f).phase \notin Fixes
  BY <1>1, <1>2 DEF Call, Fixes
<1> QED BY <1>1, <1>3, <1>4, GateIsNoCall DEF CallsOf, Fixes

\* Past the gate comes the implementation.
LEMMA AfterTheGate ==
  ASSUME NEW f \in Flows, Gate \in CallsOf(f)
  PROVE  f = "high-risk" /\ Call("implementation", 0) \in CallsOf(f) \ {Gate}
<1>1. PICK i \in DOMAIN Stages(f) : Stages(f)[i] = "gate"
  BY DEF CallsOf, StageOf, Gate, Call
<1>2. f = "high-risk"
  BY <1>1 DEF Flows, Stages, DefaultWorkflow, WorkflowWithVerification, DesignFrontendWorkflow
<1>3. \E k \in DOMAIN Stages(f) : Stages(f)[k] = "implementation"
  BY <1>2 DEF Stages, HighRiskWorkflow
<1> DEFINE c == Call("implementation", 0)
<1>4. c \in Calls /\ StageOf(c) = "implementation" /\ c.phase = "implementation"
  BY DEF Calls, Call, StageOf
<1> HIDE DEF c
<1> QED BY <1>2, <1>3, <1>4, GateIsNoCall DEF CallsOf, c

\* An empty journal has no answers.
LEMMA EmptyJournal == DOMAIN <<>> = {}
  OBVIOUS

\* The variables of the daemon and of the people have their types at first.
LEMMA TypeInit == Init => TypeOK /\ OnItsWay
<1> SUFFICES ASSUME Init PROVE TypeOK /\ OnItsWay
  OBVIOUS
<1> USE TaskAssumption DEF TaskAssumption
<1>1. NoAnswers \in [Judgements -> Answers]
  BY DEF NoAnswers, NoAnswer, Answers
<1>2. Done \in Calls \cup {Gate, Done}
  OBVIOUS
<1>3. 1 \in 1..Lives /\ 1 \in 1..Requests /\ 0 \in 0..MaxTree
  OBVIOUS
<1>4. DOMAIN journal = {}
  BY EmptyJournal DEF Init
<1> QED BY <1>1, <1>2, <1>3, <1>4 DEF Init, TypeOK, OnItsWay

\* What the closure takes from an answer keeps the types.
LEMMA TakeType ==
  ASSUME TypeOK, flow \in Flows, NEW c \in CallsOf(flow) \cap Calls, NEW answer \in Answers,
         Take(c, answer)
  PROVE  answers' \in [Judgements -> Answers] /\ at' \in CallsOf(flow) \cup {Done}
<1>1. answers' \in [Judgements -> Answers]
  BY DEF Take, TypeOK
<1>2. answer.passed \in BOOLEAN
  BY DEF Answers
<1>3. Following(flow, c, answer.passed) \in CallsOf(flow) \cup {Done}
  BY <1>2, FollowingGoesOn, GateIsNoCall
<1> QED BY <1>1, <1>3 DEF Take

\* It touches the verdict of the call's own phase, if it is a judgement.
LEMMA TakeEffect ==
  ASSUME TypeOK, NEW c, NEW answer, Take(c, answer)
  PROVE  \A j \in Judgements : answers'[j] = answers[j] \/ (j = c.phase /\ answers'[j] = answer)
<1>1. answers \in [Judgements -> Answers]
  BY DEF TypeOK
<1>2. answers' = IF c.phase \in Judgements THEN [answers EXCEPT ![c.phase] = answer] ELSE answers
  BY DEF Take
<1> QED BY <1>1, <1>2

\* Every step of the daemon, of an agent and of the people keeps them.
LEMMA TypeNext == TypeOK /\ OnItsWay /\ [Next]_vars => (TypeOK /\ OnItsWay)'
<1> SUFFICES ASSUME TypeOK, OnItsWay, [Next]_vars PROVE TypeOK' /\ OnItsWay'
  OBVIOUS
<1> USE TaskAssumption DEF TaskAssumption
<1>0. \A f \in Flows : CallsOf(f) \subseteq Calls \cup {Gate}
  BY DEF CallsOf
<1>1. CASE Launch
  <2>1. flow' \in Flows
    BY <1>1 DEF Launch, FlowFor, Flows
  <2>2. at' \in CallsOf(flow') \cap Calls
    BY <1>0, <1>1, <2>1, EntryIsACall DEF Launch
  <2> QED BY <1>1, <2>1, <2>2 DEF Launch, TypeOK, OnItsWay, Flows
<1>2. CASE Allocate
  <2>1. /\ primary' \in {"none", "active", "failed", "released"}
        /\ disk' \in {"absent", "present", "detached"}
        /\ pc' \in {"workflow", "ending"} /\ result' \in {"none", "success", "failure", "waiting"}
    BY <1>2 DEF Allocate, CreateWorktree, Fail, Go, TypeOK
  <2> QED BY <1>2, <2>1 DEF Allocate, Running, people, TypeOK, OnItsWay
<1>3. CASE Replay
  <2>1. at \in CallsOf(flow) \cap Calls /\ journal[at] \in Answers /\ flow \in Flows
    BY <1>3, GateIsNoCall DEF Replay, Running, TypeOK, OnItsWay
  <2>2. answers' \in [Judgements -> Answers] /\ at' \in CallsOf(flow) \cup {Done}
    BY <1>3, <2>1, TakeType DEF Replay
  <2> QED BY <1>0, <1>3, <2>1, <2>2 DEF Replay, Running, people, durable, TypeOK, OnItsWay
<1>4. CASE Ask
  <2>1. /\ environment' \in {"down", "up", "broken", "leaked"} /\ prepared' \in {"no", "ready", "failed"}
        /\ pc' \in {"agent", "ending"} /\ result' \in {"none", "success", "failure", "waiting"}
    BY <1>4 DEF Ask, Prepare, Go, Fail, TypeOK
  <2> QED BY <1>4, <2>1 DEF Ask, Running, people, TypeOK, OnItsWay
<1>5. CASE Answer
  <2>1. PICK passed \in BOOLEAN :
          LET answer == [passed |-> passed, tree |-> tree, epoch |-> epoch]
          IN journal' = Journalled(at, answer) /\ Take(at, answer)
    BY <1>5 DEF Answer, Verdicts
  <2> DEFINE answer == [passed |-> passed, tree |-> tree, epoch |-> epoch]
  <2>2. answer \in Answers /\ at \in CallsOf(flow) \cap Calls /\ flow \in Flows
    BY <1>5, GateIsNoCall DEF Answer, Running, TypeOK, OnItsWay, Answers
  <2>3. DOMAIN journal' \subseteq Calls /\ \A c \in DOMAIN journal' : journal'[c] \in Answers
    <3>1. journal' = Journalled(at, answer)
      BY <2>1
    <3> HIDE DEF answer
    <3>2. /\ DOMAIN journal' = {at} \cup DOMAIN journal /\ journal'[at] = answer
          /\ \A d \in DOMAIN journal : d # at => journal'[d] = journal[d]
      BY <3>1 DEF Journalled
    <3>3. DOMAIN journal \subseteq Calls /\ \A c \in DOMAIN journal : journal[c] \in Answers
      BY DEF TypeOK
    <3> QED BY <2>2, <3>2, <3>3
  <2>4. answers' \in [Judgements -> Answers] /\ at' \in CallsOf(flow) \cup {Done}
    BY <2>1, <2>2, TakeType
  <2> QED BY <1>0, <1>5, <2>2, <2>3, <2>4 DEF Answer, Running, people, Go, TypeOK, OnItsWay
<1>6. CASE AgentFails \/ Return
  BY <1>6 DEF AgentFails, Return, Running, people, durable, Fail, Go, TypeOK, OnItsWay
<1>7. CASE ReachGate
  <2>1. at = Gate /\ flow \in Flows /\ Gate \in CallsOf(flow)
    BY <1>7, GateIsNoCall DEF ReachGate, Running, OnItsWay
  <2>2. Call("implementation", 0) \in CallsOf(flow) \cap Calls
    BY <1>0, <2>1, AfterTheGate
  <2>3. /\ gate' \in {"none", "open", "approved", "rejected"}
        /\ \/ pc' = "ending" /\ at' = at
           \/ pc' = "workflow" /\ at' = Call("implementation", 0)
        /\ result' \in {"none", "success", "failure", "waiting"}
    BY <1>7, <2>1 DEF ReachGate, Running, Fail, Go, TypeOK
  <2> QED BY <1>0, <1>7, <2>1, <2>2, <2>3 DEF ReachGate, Running, people, TypeOK, OnItsWay
<1>8. CASE Publish
  BY <1>8 DEF Publish, Running, people, Fail, TypeOK, OnItsWay
<1>9. ASSUME Forget, pc' \in {"lifecycle", "idle"}
      PROVE  /\ OnItsWay' /\ at' \in Calls \cup {Gate, Done} /\ prepared' = "no" /\ flow' = "none"
             /\ answers' \in [Judgements -> Answers]
  <2>1. NoAnswers \in [Judgements -> Answers]
    BY DEF NoAnswers, NoAnswer, Answers
  <2> QED BY <1>9, <2>1 DEF Forget, OnItsWay
<1>10. CASE End
  <2>1. /\ environment' \in {"down", "up", "broken", "leaked"}
        /\ result' \in {"none", "success", "failure", "waiting"}
        /\ row' \in {"none", "running", "waiting", "failed", "completed"}
        /\ Forget /\ pc' = "lifecycle"
    BY <1>10 DEF End, Teardown, TypeOK
  <2> QED BY <1>9, <1>10, <2>1 DEF End, people, TypeOK
<1>11. CASE Lifecycle
  BY <1>11 DEF Lifecycle, Settle, durable, TypeOK, OnItsWay
<1>12. ASSUME DropJournal \/ UNCHANGED <<journal, spent, edited>>
       PROVE  /\ DOMAIN journal' \subseteq Calls /\ \A c \in DOMAIN journal' : journal'[c] \in Answers
              /\ {spent', edited'} \subseteq BOOLEAN
  BY <1>12, EmptyJournal DEF DropJournal, TypeOK
<1>13. CASE Clean
  <2>1. /\ primary' \in {"none", "active", "failed", "released"}
        /\ disk' \in {"absent", "present", "detached"}
    BY <1>13 DEF Clean, RemoveWorktree, TypeOK
  <2> QED BY <1>12, <1>13, <2>1 DEF Clean, Settle, TypeOK, OnItsWay
<1>14. CASE Work
  BY <1>14 DEF Work, Running, people, memory, TypeOK, OnItsWay
<1>15. CASE Retry \/ Resolve \/ SyncConflict \/ Reopen
  <2>1. DropJournal \/ UNCHANGED <<journal, spent, edited>>
    BY <1>15 DEF Retry, Resolve, SyncConflict, Reopen
  <2>2. /\ epoch' \in 1..Requests /\ status' = "ready" /\ tree' \in 0..MaxTree /\ pushed' \in 0..MaxTree
        /\ gate' \in {"none", "open", "approved", "rejected"} /\ Idle /\ UNCHANGED view
    BY <1>15 DEF Retry, Resolve, SyncConflict, Reopen, AskAgain, TypeOK
  <2> QED BY <1>12, <2>1, <2>2 DEF Idle, memory, TypeOK, OnItsWay
<1>16. CASE MergeByHand \/ Edit
  BY <1>16 DEF MergeByHand, Edit, Idle, memory, TypeOK, OnItsWay
<1>17. CASE Crash
  <2>1. /\ environment' \in {"down", "up", "broken", "leaked"} /\ status' \in {"ready", "paused", "done"}
        /\ life' \in 1..Lives /\ spent' \in BOOLEAN /\ pc' = "idle" /\ Forget
    BY <1>17 DEF Crash, TypeOK
  <2> QED BY <1>9, <1>17, <2>1 DEF Crash, TypeOK
<1>18. CASE UNCHANGED vars
  BY <1>18 DEF vars, durable, people, memory, TypeOK, OnItsWay
<1> QED BY <1>1, <1>2, <1>3, <1>4, <1>5, <1>6, <1>7, <1>8, <1>10, <1>11, <1>13, <1>14, <1>15,
           <1>16, <1>17, <1>18 DEF Next, Program, People

\* Every variable keeps its type, whatever the configuration.
THEOREM ExecutionTypeCorrect == Spec => []TypeOK
<1>1. Init => TypeOK /\ OnItsWay
  BY TypeInit
<1>2. TypeOK /\ OnItsWay /\ [Next]_vars => (TypeOK /\ OnItsWay)'
  BY TypeNext
<1> QED BY <1>1, <1>2, PTL DEF Spec

(***************************************************************************)
(* Environments                                                            *)
(***************************************************************************)

\* An environment that is up is one that this execution prepared and has yet to
\* tear down.
UpIsHeld == environment = "up" => prepared # "no" /\ pc \in {"workflow", "agent", "publish", "ending"}

\* What is up is held by the environment that will tear it down.
LEMMA HeldNext == TypeOK /\ UpIsHeld /\ [Next]_vars => UpIsHeld'
<1> SUFFICES ASSUME TypeOK, UpIsHeld, [Next]_vars PROVE UpIsHeld'
  OBVIOUS
<1>1. CASE Launch \/ Allocate \/ Work
  BY <1>1 DEF Launch, Allocate, CreateWorktree, Work, Running, people, memory, Go, Fail, UpIsHeld
<1>2. CASE Replay \/ Answer \/ AgentFails \/ Return \/ Publish
  BY <1>2 DEF Replay, Answer, AgentFails, Return, Publish, Running, durable, people, Go, Fail, UpIsHeld
<1>9. CASE ReachGate
  <2>1. pc' \in {"workflow", "ending"}
    BY <1>9 DEF ReachGate, Go, Fail, TypeOK
  <2> QED BY <1>9, <2>1 DEF ReachGate, Running, UpIsHeld
<1>3. CASE Ask
  BY <1>3 DEF Ask, Prepare, Running, people, Go, Fail, UpIsHeld
<1>4. CASE End
  BY <1>4 DEF End, Teardown, Forget, UpIsHeld
<1>5. CASE Lifecycle \/ Clean
  BY <1>5 DEF Lifecycle, Clean, Settle, durable, UpIsHeld
<1>6. CASE People
  BY <1>6 DEF People, Retry, Resolve, SyncConflict, MergeByHand, Reopen, Edit, Idle, memory, UpIsHeld
<1>7. CASE Crash
  BY <1>7 DEF Crash, UpIsHeld
<1>8. CASE UNCHANGED vars
  BY <1>8 DEF vars, durable, people, memory, UpIsHeld
<1> QED BY <1>1, <1>2, <1>3, <1>4, <1>5, <1>6, <1>7, <1>8, <1>9 DEF Next, Program

\* However an execution ends - published, failed, waiting for the gate, or with
\* a call that threw - no environment of its verifier outlives it
\* (executeWorkflow's finally, VerificationEnvironment.teardown).
THEOREM EnvironmentsAreTornDown == Spec => []EnvironmentIsTornDown
<1>1. Init => UpIsHeld
  BY DEF Init, UpIsHeld
<1>2. UpIsHeld => EnvironmentIsTornDown
  BY DEF UpIsHeld, EnvironmentIsTornDown
<1> QED BY <1>1, <1>2, HeldNext, ExecutionTypeCorrect, PTL DEF Spec

(***************************************************************************)
(* Journals                                                                *)
(***************************************************************************)

\* The journal is dropped wherever someone asks again, and a task that was done
\* left none, or one that is known to have been left.
AskedOnce ==
  /\ pc # "idle" => status = "active"
  /\ status = "done" => spent \/ journal = <<>>

\* A task that may be launched has no execution.
LEMMA AskedNext == TypeOK /\ AskedOnce /\ [Next]_vars => AskedOnce'
<1> SUFFICES ASSUME TypeOK, AskedOnce, [Next]_vars PROVE AskedOnce'
  OBVIOUS
<1>1. CASE pc # "idle" /\ UNCHANGED status
  BY <1>1 DEF AskedOnce
<1>2. CASE Launch
  BY <1>2 DEF Launch, AskedOnce
<1>3. CASE Lifecycle
  BY <1>3 DEF Lifecycle, Settle, durable, AskedOnce
<1>4. CASE Clean
  BY <1>4 DEF Clean, Settle, DropJournal, AskedOnce
<1>5. CASE Retry \/ Resolve \/ SyncConflict \/ Reopen
  BY <1>5 DEF Retry, Resolve, SyncConflict, Reopen, Idle, memory, AskAgain, AskedOnce
<1>6. CASE MergeByHand \/ Edit
  BY <1>6 DEF MergeByHand, Edit, Idle, memory, AskedOnce
<1>7. CASE Crash
  BY <1>7 DEF Crash, AskedOnce
<1>8. CASE UNCHANGED vars
  BY <1>8 DEF vars, durable, people, memory, AskedOnce
<1>9. CASE Allocate \/ Replay \/ Ask \/ Answer \/ AgentFails \/ ReachGate \/ Return \/ Publish
             \/ End \/ Work
  BY <1>1, <1>9 DEF Allocate, Replay, Ask, Answer, AgentFails, ReachGate, Return, Publish, End, Work,
     Running, people
<1> QED BY <1>2, <1>3, <1>4, <1>5, <1>6, <1>7, <1>8, <1>9 DEF Next, Program, People

\* The journal holds answers to the current request only.
LEMMA CurrentNext ==
  TypeOK /\ AskedOnce /\ JournalIsCurrent /\ [Next]_vars => JournalIsCurrent'
<1> SUFFICES ASSUME TypeOK, AskedOnce, JournalIsCurrent, [Next]_vars PROVE JournalIsCurrent'
  OBVIOUS
<1>1. CASE UNCHANGED <<journal, epoch>> /\ (spent => spent')
  BY <1>1 DEF JournalIsCurrent
<1>2. CASE DropJournal
  BY <1>2, EmptyJournal DEF DropJournal, JournalIsCurrent
<1>3. CASE Answer
  <2>1. PICK passed : journal' = Journalled(at, [passed |-> passed, tree |-> tree, epoch |-> epoch])
    BY <1>3 DEF Answer
  <2>2. \A d \in DOMAIN journal' :
          \/ d \in DOMAIN journal /\ journal'[d] = journal[d]
          \/ journal'[d].epoch = epoch
    BY <2>1 DEF Journalled
  <2> QED BY <1>3, <2>2 DEF Answer, Running, people, JournalIsCurrent
<1>4. CASE Reopen
  BY <1>4, EmptyJournal DEF Reopen, AskedOnce, JournalIsCurrent
<1>5. CASE Clean \/ Retry \/ Resolve \/ SyncConflict
  BY <1>2, <1>5 DEF Clean, Retry, Resolve, SyncConflict
<1>6. CASE Launch \/ Allocate \/ Replay \/ Ask \/ AgentFails \/ ReachGate \/ Return \/ Publish \/ End
             \/ Lifecycle \/ Work \/ MergeByHand \/ Edit \/ Crash \/ UNCHANGED vars
  <2>1. UNCHANGED journal
    BY <1>6 DEF Launch, Allocate, Replay, Ask, AgentFails, ReachGate, Return, Publish, End,
       Lifecycle, Work, MergeByHand, Edit, Crash, vars, durable
  <2>2. CASE Launch \/ End \/ Lifecycle
    BY <1>1, <2>1, <2>2 DEF Launch, End, Lifecycle, people
  <2>3. CASE \E stage : Running(stage)
    BY <1>1, <2>1, <2>3 DEF Running, people
  <2>4. CASE MergeByHand
    BY <1>1, <2>1, <2>4 DEF MergeByHand
  <2>5. CASE Edit \/ Crash
    BY <1>1, <2>1, <2>5 DEF Edit, Crash
  <2>6. CASE UNCHANGED vars
    BY <1>1, <2>1, <2>6 DEF vars, people
  <2> QED BY <1>6, <2>2, <2>3, <2>4, <2>5, <2>6
        DEF Allocate, Replay, Ask, AgentFails, ReachGate, Return, Publish, Work
<1> QED BY <1>3, <1>4, <1>5, <1>6 DEF Next, Program, People

\* No answer from before a retry, a resolution or a reopening is ever replayed,
\* but for a journal known to have been left behind: every path back to "ready"
\* goes through a deletion (deleteTaskJournal, applyResolution).
THEOREM JournalsAreCurrent == Spec => []JournalIsCurrent
<1>1. Init => AskedOnce /\ JournalIsCurrent
  BY EmptyJournal DEF Init, AskedOnce, JournalIsCurrent
<1>2. TypeOK /\ AskedOnce /\ JournalIsCurrent /\ [Next]_vars => (AskedOnce /\ JournalIsCurrent)'
  BY AskedNext, CurrentNext
<1> QED BY <1>1, <1>2, ExecutionTypeCorrect, PTL DEF Spec

(***************************************************************************)
(* What is published was judged                                            *)
(***************************************************************************)

\* The workflow of the task, as long as nobody edits it.
Mine == FlowFor(view)
Answered == DOMAIN journal

\* What is done after an answered call: the gate is no call, and the
\* implementation follows it.
Then(c) ==
  LET next == Following(Mine, c, journal[c].passed)
  IN IF next = Gate THEN Call("implementation", 0) ELSE next

\* The answers are a path: it starts at the workflow's entry, and goes from
\* each call but the last to the next.
JournalIsPath ==
  /\ Answered \subseteq CallsOf(Mine)
  /\ Answered # {} => Entry(Mine) \in Answered
  /\ \A c, d \in Answered : Rank(c) < Rank(d) => Then(c) \in Answered /\ Rank(Then(c)) <= Rank(d)

\* An execution is on it, at a call that was answered or at the one that is next.
Arrived(c) == c = Entry(Mine) \/ \E b \in Answered : c = Then(b)
ExecutionIsOnPath ==
  /\ pc \in {"allocate", "workflow", "agent", "publish"} => flow = Mine
  /\ pc \in {"allocate", "workflow", "agent"} =>
       Arrived(at) \/ (at = Gate /\ Arrived(Call("implementation", 0)))
  /\ pc = "agent" => at \notin Answered
  /\ pc = "publish" => \E b \in Answered : Then(b) = Done

\* An answer was given at the content the worktree has, unless a later writer may
\* have changed it.
WrittenAfter(c) ==
  \E w \in CallsOf(Mine) :
    /\ w.phase \in Writers /\ Rank(w) > Rank(c)
    /\ w \in Answered \/ \E b \in Answered : Then(b) = w
VerdictsAreCurrent == \A c \in Answered : journal[c].tree = tree \/ WrittenAfter(c)

\* The verdicts an execution holds are in the journal.
HeldIsJournalled ==
  \A j \in Judgements :
    \/ answers[j] = NoAnswer
    \/ \E c \in Answered : c.phase = j /\ journal[c] = answers[j]

Judged == JournalIsPath /\ ExecutionIsOnPath /\ VerdictsAreCurrent /\ HeldIsJournalled
JudgedUnlessEdited ==
  /\ pc \in {"idle", "lifecycle", "clean"} => answers = NoAnswers
  /\ spent \/ edited \/ Judged

\* The selected workflow is one of the four.
LEMMA MineIsAFlow == Mine \in Flows
  BY DEF Mine, FlowFor, Flows

\* Calls of one workflow that are as far are the same call.
LEMMA RanksTell ==
  ASSUME NEW f \in Flows, NEW c \in CallsOf(f) \cap Calls, NEW d \in CallsOf(f) \cap Calls,
         Rank(c) = Rank(d)
  PROVE  c = d
<1>1. /\ c = Call(c.phase, c.cycle) /\ d = Call(d.phase, d.cycle)
      /\ c.cycle \in 0..10 /\ d.cycle \in 0..10
      /\ Place(StageOf(c)) \in 1..7 /\ Place(StageOf(d)) \in 1..7
  BY CallsHavePlaces
<1>2. /\ Place(StageOf(c)) = Place(StageOf(d)) /\ c.cycle = d.cycle
      /\ c.phase \in Fixes <=> d.phase \in Fixes
  BY <1>1 DEF Rank
<1>3. StageOf(c) = StageOf(d)
  <2>1. PICK i \in DOMAIN Stages(f) : Stages(f)[i] = StageOf(c)
    BY DEF CallsOf
  <2>2. PICK j \in DOMAIN Stages(f) : Stages(f)[j] = StageOf(d)
    BY DEF CallsOf
  <2>3. i = j
    BY <1>1, <1>2, <2>1, <2>2, StagesInOrder
  <2> QED BY <2>1, <2>2, <2>3
<1>4. c.phase = d.phase
  <2>1. c.phase \in Fixes \/ c.phase \notin Fixes
    OBVIOUS
  <2> QED BY <1>2, <1>3, <2>1, CallsHavePlaces DEF StageOf, Fixes
<1> QED BY <1>1, <1>2, <1>4

\* What is done next is further on.
LEMMA ThenGoesOn ==
  ASSUME TypeOK, JournalIsPath, NEW c \in Answered
  PROVE  /\ Then(c) \in (CallsOf(Mine) \cap Calls) \cup {Done}
         /\ Rank(c) \in Nat /\ Rank(Then(c)) \in Nat /\ Rank(Then(c)) > Rank(c)
<1> DEFINE next == Following(Mine, c, journal[c].passed)
<1>1. c \in CallsOf(Mine) \ {Gate} /\ c \in Calls /\ journal[c].passed \in BOOLEAN
  BY GateIsNoCall DEF JournalIsPath, Answered, TypeOK, Answers
<1>2. next \in CallsOf(Mine) \cup {Done} /\ Rank(next) > Rank(c)
  BY <1>1, MineIsAFlow, FollowingGoesOn
<1>3. Rank(Done) = 240 /\ Rank(Gate) = 60 /\ Rank(Call("implementation", 0)) = 90
  BY DEF Rank, Done, Gate, Call, StageOf, Place, Fixes
<1>4. Rank(c) \in Nat /\ (next \in Calls => Rank(next) \in Nat)
  BY <1>1, CallsHavePlaces
<1>5. CASE next = Gate
  <2>1. Then(c) = Call("implementation", 0) /\ Gate \in CallsOf(Mine)
    BY <1>2, <1>5, GateIsNoCall DEF Then
  <2>2. Then(c) \in CallsOf(Mine) \cap Calls
    BY <2>1, MineIsAFlow, AfterTheGate DEF CallsOf
  <2> QED BY <1>2, <1>3, <1>4, <1>5, <2>1, <2>2
<1>6. CASE next # Gate
  <2>1. Then(c) = next
    BY <1>6 DEF Then
  <2>2. next \in (CallsOf(Mine) \cap Calls) \cup {Done}
    BY <1>2, <1>6 DEF CallsOf
  <2> HIDE DEF next
  <2> QED BY <1>2, <1>3, <1>4, <2>1, <2>2
<1> QED BY <1>5, <1>6

\* While the task is as it was, so are its workflow and what follows a call.
LEMMA FollowingKept ==
  ASSUME view' = view, NEW f, NEW c, NEW passed
  PROVE  Following(f, c, passed)' = Following(f, c, passed)
BY DEF Following, AfterReview, AfterVerification, NextStage, Skips

\* What the path through a workflow reads of the state.
LEMMA PathKept ==
  ASSUME view' = view, journal' = journal
  PROVE  /\ Mine' = Mine /\ Answered' = Answered
         /\ \A c : Then(c)' = Then(c)
         /\ \A c : Arrived(c)' = Arrived(c)
         /\ \A c : WrittenAfter(c)' = WrittenAfter(c)
         /\ JournalIsPath' = JournalIsPath
<1>1. Mine' = Mine /\ Answered' = Answered
  BY DEF Mine, Answered
<1>2. \A c : Then(c)' = Then(c)
  BY <1>1, FollowingKept DEF Then
<1> QED BY <1>1, <1>2 DEF Arrived, WrittenAfter, JournalIsPath

\* A step that leaves the task, its journal and its worktree alone has only to
\* stay on the path, and to forget verdicts or none.
LEMMA JudgedKept ==
  ASSUME Judged, UNCHANGED <<view, journal, tree>>, UNCHANGED answers \/ answers' = NoAnswers,
         ExecutionIsOnPath'
  PROVE  Judged'
<1>1. JournalIsPath' /\ VerdictsAreCurrent'
  BY PathKept DEF Judged, VerdictsAreCurrent
<1>2. HeldIsJournalled'
  BY PathKept DEF Judged, HeldIsJournalled, NoAnswers
<1> QED BY <1>1, <1>2 DEF Judged

\* No answers, nothing to judge.
LEMMA NothingToJudge ==
  ASSUME journal' = <<>>, pc' = "idle", answers' = NoAnswers
  PROVE  Judged'
<1>1. Answered' = {}
  BY EmptyJournal DEF Answered
<1> QED BY <1>1 DEF Judged, JournalIsPath, ExecutionIsOnPath, VerdictsAreCurrent, HeldIsJournalled,
                    NoAnswers

\* A call that nobody answered is further than every answered one.
LEMMA NextIsFurthest ==
  ASSUME TypeOK, JournalIsPath, NEW c \in (CallsOf(Mine) \cap Calls) \ Answered, Arrived(c)
  PROVE  /\ Answered = {} => c = Entry(Mine)
         /\ Answered # {} => \E b \in Answered :
              c = Then(b) /\ \A d \in Answered : Rank(d) <= Rank(b)
         /\ \A d \in Answered : Rank(d) < Rank(c)
<1>1. CASE Answered = {}
  BY <1>1 DEF Arrived
<1>2. CASE Answered # {}
  <2>1. PICK b \in Answered : c = Then(b)
    BY <1>2 DEF Arrived, JournalIsPath
  <2>2. ASSUME NEW d \in Answered PROVE Rank(d) <= Rank(b)
    BY <2>1, ThenGoesOn DEF JournalIsPath
  <2>3. \A d \in Answered : Rank(d) < Rank(c)
    BY <2>1, <2>2, ThenGoesOn
  <2> QED BY <1>2, <2>1, <2>2, <2>3
<1> QED BY <1>1, <1>2

\* An answer to the call that is next makes the path longer.
LEMMA AnswerGoesOn ==
  ASSUME TypeOK, JournalIsPath, view' = view,
         NEW c \in (CallsOf(Mine) \cap Calls) \ Answered, Arrived(c), NEW answer \in Answers,
         journal' = Journalled(c, answer)
  PROVE  /\ JournalIsPath' /\ Answered' = Answered \cup {c} /\ journal'[c] = answer
         /\ \A d \in Answered : journal'[d] = journal[d] /\ Then(d)' = Then(d)
<1>1. Mine' = Mine
  BY DEF Mine
<1>2. /\ Answered' = Answered \cup {c} /\ journal'[c] = answer
      /\ \A d \in Answered : journal'[d] = journal[d]
  BY DEF Answered, Journalled
<1>3. \A d \in Answered : Then(d)' = Then(d)
  BY <1>1, <1>2, FollowingKept DEF Then
<1>4. Rank(c) \in Nat /\ \A d \in Answered : Rank(d) < Rank(c) /\ Rank(d) \in Nat
  BY NextIsFurthest, ThenGoesOn, CallsHavePlaces
<1>5. ASSUME NEW d \in Answered', NEW e \in Answered', Rank(d) < Rank(e)
      PROVE  Then(d)' \in Answered' /\ Rank(Then(d)') <= Rank(e)
  <2>1. d \in Answered
    BY <1>2, <1>4, <1>5
  <2>2. CASE e \in Answered
    BY <1>2, <1>3, <1>5, <2>1, <2>2 DEF JournalIsPath
  <2>3. CASE e = c
    <3>1. PICK b \in Answered : c = Then(b) /\ \A x \in Answered : Rank(x) <= Rank(b)
      BY <2>1, NextIsFurthest
    <3>2. CASE d = b
      BY <1>2, <1>3, <1>4, <2>3, <3>1, <3>2
    <3>3. CASE d # b
      <4>1. b \in CallsOf(Mine) \cap Calls /\ d \in CallsOf(Mine) \cap Calls
        BY <2>1 DEF JournalIsPath, TypeOK, Answered
      <4>2. Rank(d) # Rank(b)
        BY <3>3, <4>1, MineIsAFlow, RanksTell
      <4>3. Rank(d) < Rank(b)
        BY <1>4, <2>1, <3>1, <4>2
      <4>4. Then(d) \in Answered /\ Rank(Then(d)) <= Rank(b)
        BY <2>1, <4>3 DEF JournalIsPath
      <4> QED BY <1>2, <1>3, <1>4, <2>1, <2>3, <4>4, ThenGoesOn
    <3> QED BY <3>2, <3>3
  <2> QED BY <1>2, <2>2, <2>3
<1>6. (Answered \subseteq CallsOf(Mine))' /\ (Entry(Mine) \in Answered)'
  <2>1. Entry(Mine) \in Answered'
    <3>1. CASE Answered = {}
      <4>1. c = Entry(Mine)
        BY <3>1, NextIsFurthest
      <4> QED BY <1>2, <4>1
    <3>2. CASE Answered # {}
      BY <1>2, <3>2 DEF JournalIsPath
    <3> QED BY <3>1, <3>2
  <2> QED BY <1>1, <1>2, <2>1 DEF JournalIsPath
<1>7. JournalIsPath'
  BY <1>5, <1>6 DEF JournalIsPath
<1> QED BY <1>2, <1>3, <1>7

\* A step of an execution that is under way keeps the judgement.
LEMMA ExecutionJudged ==
  ASSUME TypeOK, OnItsWay, AskedOnce, JudgedUnlessEdited, ~spent', ~edited',
         Allocate \/ Replay \/ Ask \/ Answer \/ AgentFails \/ ReachGate \/ Return \/ Publish \/ Work
  PROVE  Judged'
<1>1. UNCHANGED <<view, flow, spent, edited>> /\ Judged
  BY DEF Allocate, Replay, Ask, Answer, AgentFails, ReachGate, Return, Publish, Work, Running,
         people, JudgedUnlessEdited
<1>2. Mine' = Mine
  BY <1>1 DEF Mine
<1>3. CASE Allocate
  <2>1. UNCHANGED <<journal, tree, answers, at>> /\ pc = "allocate" /\ pc' \in {"workflow", "ending"}
    BY <1>3 DEF Allocate, CreateWorktree, Go, Fail, Running
  <2>2. ExecutionIsOnPath'
    BY <1>1, <2>1, PathKept DEF Judged, ExecutionIsOnPath
  <2> QED BY <1>1, <2>1, <2>2, JudgedKept
<1>4. CASE Replay
  <2>1. /\ at \in Answered /\ UNCHANGED <<journal, tree, pc>> /\ pc = "workflow" /\ flow = Mine
        /\ Take(at, journal[at])
    BY <1>1, <1>4 DEF Replay, Running, durable, Answered, Judged, ExecutionIsOnPath
  <2>2. Arrived(at') \/ (at' = Gate /\ Arrived(Call("implementation", 0)))
    <3>1. at' = Following(Mine, at, journal[at].passed)
      BY <2>1 DEF Take
    <3>2. at' = Then(at) \/ (at' = Gate /\ Then(at) = Call("implementation", 0))
      BY <3>1 DEF Then
    <3>3. Arrived(Then(at))
      BY <2>1 DEF Arrived
    <3> QED BY <3>2, <3>3
  <2>3. ExecutionIsOnPath'
    BY <1>1, <1>2, <2>1, <2>2, PathKept DEF ExecutionIsOnPath
  <2>4. HeldIsJournalled'
    <3>1. \A j \in Judgements :
            answers'[j] = answers[j] \/ (j = at.phase /\ answers'[j] = journal[at])
      BY <2>1, TakeEffect
    <3> QED BY <1>1, <2>1, <3>1, PathKept DEF Judged, HeldIsJournalled
  <2>5. JournalIsPath' /\ VerdictsAreCurrent'
    BY <1>1, <2>1, PathKept DEF Judged, VerdictsAreCurrent
  <2> QED BY <2>3, <2>4, <2>5 DEF Judged
<1>5. CASE Ask
  <2>1. /\ UNCHANGED <<journal, tree, answers, at>> /\ pc = "workflow" /\ pc' \in {"agent", "ending"}
        /\ at \notin Answered
    BY <1>5 DEF Ask, Go, Fail, Running, Answered
  <2>2. ExecutionIsOnPath'
    BY <1>1, <1>2, <2>1, PathKept DEF Judged, ExecutionIsOnPath
  <2> QED BY <1>1, <2>1, <2>2, JudgedKept
<1>6. ASSUME pc = "agent"
      PROVE  /\ at \in (CallsOf(Mine) \cap Calls) \ Answered /\ Arrived(at) /\ flow = Mine
             /\ JournalIsPath
  <2>1. at \in Calls /\ at \notin Answered /\ flow = Mine
    BY <1>1, <1>6 DEF OnItsWay, Judged, ExecutionIsOnPath
  <2> QED BY <1>1, <1>6, <2>1, GateIsNoCall DEF OnItsWay, Judged, ExecutionIsOnPath
<1>7. CASE Answer
  <2>1. PICK passed \in BOOLEAN :
          LET answer == [passed |-> passed, tree |-> tree, epoch |-> epoch]
          IN journal' = Journalled(at, answer) /\ Take(at, answer)
    BY <1>7 DEF Answer, Verdicts
  <2> DEFINE answer == [passed |-> passed, tree |-> tree, epoch |-> epoch]
  <2>2. answer \in Answers /\ answer.tree = tree
    BY DEF TypeOK, Answers
  <2>3. journal' = Journalled(at, answer) /\ Take(at, answer)
    BY <2>1
  <2>4. pc = "agent" /\ pc' = "workflow" /\ UNCHANGED tree
    BY <1>7 DEF Answer, Running, Go
  <2> HIDE DEF answer
  <2>5. /\ JournalIsPath' /\ Answered' = Answered \cup {at} /\ journal'[at] = answer
        /\ \A d \in Answered : journal'[d] = journal[d] /\ Then(d)' = Then(d)
    BY <1>1, <1>6, <2>2, <2>3, <2>4, AnswerGoesOn
  <2>6. ExecutionIsOnPath'
    <3>1. PICK c : c = at
      OBVIOUS
    <3>2. at' = Following(Mine, c, answer.passed)
      BY <1>6, <2>3, <2>4, <3>1 DEF Take
    <3>3. Then(c)' = IF at' = Gate THEN Call("implementation", 0) ELSE at'
      <4>1. PICK m : m = Mine
        OBVIOUS
      <4>2. PICK p : p = answer.passed
        OBVIOUS
      <4>3. Following(m, c, p)' = Following(m, c, p)
        BY <1>1, FollowingKept
      <4>4. Mine' = m /\ journal'[c].passed = p /\ at' = Following(m, c, p)
        BY <1>2, <2>5, <3>1, <3>2, <4>1, <4>2
      <4> QED BY <4>3, <4>4 DEF Then
    <3>4. Arrived(Then(c))'
      BY <2>5, <3>1 DEF Arrived
    <3>5. Arrived(at)' \/ (at' = Gate /\ Arrived(Call("implementation", 0))')
      BY <3>3, <3>4
    <3> QED BY <1>1, <1>2, <1>6, <2>4, <3>5 DEF ExecutionIsOnPath
  <2>7. VerdictsAreCurrent'
    <3>1. ASSUME NEW c \in Answered, WrittenAfter(c) PROVE WrittenAfter(c)'
      BY <1>2, <2>5, <3>1 DEF WrittenAfter
    <3>2. ASSUME NEW c \in Answered PROVE journal'[c].tree = tree' \/ WrittenAfter(c)'
      BY <1>1, <2>4, <2>5, <3>1 DEF Judged, VerdictsAreCurrent
    <3> QED BY <2>2, <2>4, <2>5, <3>2 DEF VerdictsAreCurrent
  <2>8. HeldIsJournalled'
    <3>1. \A j \in Judgements :
            answers'[j] = answers[j] \/ (j = at.phase /\ answers'[j] = answer)
      BY <2>3, TakeEffect
    <3> QED BY <1>1, <2>5, <3>1 DEF Judged, HeldIsJournalled
  <2> QED BY <2>5, <2>6, <2>7, <2>8 DEF Judged
<1>8. CASE AgentFails
  <2>1. UNCHANGED <<journal, tree, answers>> /\ pc' = "ending"
    BY <1>8 DEF AgentFails, durable, Fail
  <2> QED BY <1>1, <2>1, JudgedKept DEF ExecutionIsOnPath
<1>9. CASE ReachGate
  <2>1. /\ UNCHANGED <<journal, tree, answers>> /\ pc = "workflow" /\ at = Gate
        /\ \/ pc' = "ending"
           \/ pc' = "workflow" /\ at' = Call("implementation", 0)
    BY <1>9 DEF ReachGate, Go, Fail, Running, TypeOK
  <2>2. Arrived(Call("implementation", 0))
    <3>1. Gate # Entry(Mine)
      BY MineIsAFlow, EntryIsACall
    <3>2. ASSUME NEW b \in Answered PROVE Then(b) # Gate
      BY <1>1, ThenGoesOn, GateIsNoCall DEF Judged
    <3> QED BY <1>1, <2>1, <3>1, <3>2 DEF Judged, ExecutionIsOnPath, Arrived
  <2>3. ExecutionIsOnPath'
    BY <1>1, <1>2, <2>1, <2>2, PathKept DEF Judged, ExecutionIsOnPath
  <2> QED BY <1>1, <2>1, <2>3, JudgedKept
<1>10. CASE Return
  <2>1. /\ UNCHANGED <<journal, tree, answers, at>> /\ pc = "workflow" /\ at = Done
        /\ pc' \in {"publish", "ending"}
    BY <1>10 DEF Return, durable, Go, Fail, Running
  <2>2. \E b \in Answered : Then(b) = Done
    <3>1. Done # Entry(Mine)
      BY MineIsAFlow, EntryIsACall, GateIsNoCall DEF CallsOf
    <3> QED BY <1>1, <2>1, <3>1, GateIsNoCall DEF Judged, ExecutionIsOnPath, Arrived
  <2>3. ExecutionIsOnPath'
    BY <1>1, <1>2, <2>1, <2>2, PathKept DEF Judged, ExecutionIsOnPath
  <2> QED BY <1>1, <2>1, <2>3, JudgedKept
<1>11. CASE Publish
  <2>1. UNCHANGED <<journal, tree, answers>> /\ pc' = "ending"
    BY <1>11 DEF Publish, Fail
  <2> QED BY <1>1, <2>1, JudgedKept DEF ExecutionIsOnPath
<1>12. CASE Work
  <2>1. /\ pc = "agent" /\ at.phase \in Writers /\ UNCHANGED <<journal, answers, at, pc>>
    BY <1>12 DEF Work, Running, memory
  <2>2. ASSUME NEW c \in Answered PROVE WrittenAfter(c)
    <3>1. Rank(c) < Rank(at)
      BY <1>6, <2>1, NextIsFurthest
    <3>2. \E b \in Answered : Then(b) = at
      BY <1>6, <2>1, NextIsFurthest
    <3> QED BY <1>6, <2>1, <3>1, <3>2 DEF WrittenAfter
  <2>3. VerdictsAreCurrent'
    BY <1>1, <2>1, <2>2, PathKept DEF VerdictsAreCurrent
  <2>4. JournalIsPath' /\ HeldIsJournalled' /\ ExecutionIsOnPath'
    BY <1>1, <1>2, <2>1, PathKept DEF Judged, HeldIsJournalled, ExecutionIsOnPath
  <2> QED BY <2>3, <2>4 DEF Judged
<1> QED BY <1>3, <1>4, <1>5, <1>7, <1>8, <1>9, <1>10, <1>11, <1>12

\* What the path has come past was judged at the content that is there now.
LEMMA JudgedNext ==
  TypeOK /\ OnItsWay /\ AskedOnce /\ JudgedUnlessEdited /\ [Next]_vars => JudgedUnlessEdited'
<1> SUFFICES ASSUME TypeOK, OnItsWay, AskedOnce, JudgedUnlessEdited, [Next]_vars
             PROVE  JudgedUnlessEdited'
  OBVIOUS
<1>1. CASE Launch
  <2>1. /\ UNCHANGED <<view, journal, tree, answers, spent, edited>> /\ pc' \in {"allocate", "ending"}
        /\ flow' = Mine /\ at' = Entry(Mine)
    BY <1>1 DEF Launch, Mine
  <2>2. ExecutionIsOnPath'
    BY <2>1 DEF ExecutionIsOnPath, Arrived, Mine
  <2> QED BY <2>1, <2>2, JudgedKept DEF JudgedUnlessEdited
<1>2. CASE Allocate \/ Replay \/ Ask \/ Answer \/ AgentFails \/ ReachGate \/ Return \/ Publish \/ Work
  <2>1. pc' \notin {"idle", "lifecycle", "clean"}
    BY <1>2 DEF Allocate, CreateWorktree, Replay, Ask, Answer, AgentFails, ReachGate, Return, Publish,
                Work, Running, Go, Fail, memory, TypeOK
  <2> QED BY <1>2, <2>1, ExecutionJudged DEF JudgedUnlessEdited, TypeOK
<1>3. CASE End
  <2>1. /\ UNCHANGED <<view, journal, tree, spent, edited>> /\ pc' = "lifecycle"
        /\ answers' = NoAnswers
    BY <1>3 DEF End, people, Forget
  <2> QED BY <2>1, JudgedKept DEF JudgedUnlessEdited, ExecutionIsOnPath
<1>4. CASE Lifecycle
  <2>1. /\ UNCHANGED <<view, journal, tree, answers, spent, edited>> /\ pc' \in {"idle", "clean"}
        /\ pc = "lifecycle"
    BY <1>4 DEF Lifecycle, Settle, durable
  <2> QED BY <2>1, JudgedKept DEF JudgedUnlessEdited, ExecutionIsOnPath
<1>5. ASSUME DropJournal, pc \in {"idle", "clean"}, pc' = "idle", answers' = answers
      PROVE  JudgedUnlessEdited'
  <2>1. answers' = NoAnswers
    BY <1>5 DEF JudgedUnlessEdited
  <2> QED BY <1>5, <2>1, NothingToJudge DEF DropJournal, JudgedUnlessEdited
<1>6. CASE Clean \/ Retry \/ Resolve \/ SyncConflict
  BY <1>5, <1>6 DEF Clean, Settle, Retry, Resolve, SyncConflict, Idle, memory
<1>7. CASE Reopen \/ MergeByHand
  <2>1. UNCHANGED <<view, journal, tree, answers, edited, pc>> /\ pc = "idle" /\ (spent => spent')
    BY <1>7 DEF Reopen, MergeByHand, Idle, memory
  <2> QED BY <2>1, JudgedKept DEF JudgedUnlessEdited, ExecutionIsOnPath
<1>8. CASE Edit
  <2>1. /\ UNCHANGED <<journal, answers, spent, pc>> /\ pc = "idle"
        /\ edited' \/ journal = <<>>
    BY <1>8 DEF Edit, Idle, memory
  <2> QED BY <2>1, NothingToJudge DEF JudgedUnlessEdited
<1>9. CASE Crash
  <2>1. /\ UNCHANGED <<view, journal, tree, edited>> /\ pc' = "idle" /\ answers' = NoAnswers
        /\ spent => spent'
    BY <1>9 DEF Crash, Forget
  <2> QED BY <2>1, JudgedKept DEF JudgedUnlessEdited, ExecutionIsOnPath
<1>10. CASE UNCHANGED vars
  <2>1. UNCHANGED <<view, journal, tree, answers, spent, edited, pc, flow, at>>
    BY <1>10 DEF vars, durable, people, memory
  <2>2. Judged => ExecutionIsOnPath'
    BY <2>1, PathKept DEF Judged, ExecutionIsOnPath
  <2> QED BY <2>1, <2>2, JudgedKept DEF JudgedUnlessEdited
<1> QED BY <1>1, <1>2, <1>3, <1>4, <1>6, <1>7, <1>8, <1>9, <1>10 DEF Next, Program, People

\* Only the validation leads to the end, and past a passed review or a passed
\* verification nothing goes back.
LEMMA LastCalls ==
  ASSUME NEW f \in Flows, NEW c \in CallsOf(f) \cap Calls, NEW passed \in BOOLEAN
  PROVE  /\ Following(f, c, passed) = Done => c = Call("validation", 0)
         /\ c.phase \in {"review", "verification"} /\ passed =>
              Rank(Following(f, c, passed)) >= 30 * (Place(c.phase) + 1)
<1>1. PICK i \in DOMAIN Stages(f) : Stages(f)[i] = StageOf(c)
  BY DEF CallsOf
<1>2. c = Call(c.phase, c.cycle) /\ c.phase \in {"design", "architecture",
        "implementation", "base", "validation", "security-review", "security-fix", "review", "fix",
        "verification", "verification-fix"}
  BY CallsHavePlaces
<1>3. ASSUME c.phase \notin Fixes, NextStage(f, c.phase, passed) = Done PROVE c = Call("validation", 0)
  <2>1. StageOf(c) = c.phase
    BY <1>2, <1>3 DEF StageOf, Fixes
  <2>2. PICK k \in DOMAIN Stages(f) : Stages(f)[k] = "validation"
    BY StagesInOrder
  <2>3. ~Skips(f, "validation", passed)
    BY DEF Skips
  <2>4. \A j \in DOMAIN Stages(f) : Call(Stages(f)[j], 0) # Done
    BY StagesInOrder DEF Call, Done, StagePhases
  <2>5. ~ (k > i)
    BY <1>1, <1>3, <2>1, <2>2, <2>3, <2>4, NextStageIs
  <2>6. ~ (k < i)
    BY <1>1, <2>2, StagesInOrder DEF Place, StagePhases
  <2>7. k = i
    BY <1>1, <2>2, <2>5, <2>6, StagesInOrder
  <2>8. c.phase = "validation"
    BY <1>1, <2>1, <2>2, <2>7
  <2> QED BY <1>2, <2>8 DEF Calls, Call
<1>4. c.phase \in Fixes => Following(f, c, passed) # Done
  BY DEF Following, Fixes, Call, Done
<1>5. c.phase \notin Fixes /\ Following(f, c, passed) = Done =>
        NextStage(f, c.phase, passed) = Done
  BY DEF Following, AfterReview, AfterVerification, Call, Done
<1>6. ASSUME c.phase \in {"review", "verification"}, passed
      PROVE  Rank(Following(f, c, passed)) >= 30 * (Place(c.phase) + 1)
  <2> DEFINE next == NextStage(f, c.phase, passed)
  <2>1. Following(f, c, passed) = next /\ StageOf(c) = c.phase
    BY <1>6 DEF Following, AfterReview, AfterVerification, StageOf
  <2>2. next \in CallsOf(f) \cup {Done} /\ Place(StageOf(next)) > Place(c.phase)
    BY <1>1, <2>1, NextStageGoesOn
  <2> HIDE DEF next
  <2>3. next.cycle \in Nat /\ Place(StageOf(next)) \in Nat
    <3>1. CASE next \in Calls
      BY <3>1, CallsHavePlaces
    <3>2. CASE next = Done \/ next = Gate
      BY <3>2 DEF Done, Gate, Call, StageOf, Place
    <3> QED BY <2>2, <3>1, <3>2 DEF CallsOf
  <2>4. Place(c.phase) \in Nat
    BY <1>6 DEF Place
  <2> QED BY <2>1, <2>2, <2>3, <2>4 DEF Rank
<1> QED BY <1>3, <1>4, <1>5, <1>6

\* A writer that may have come after an answered call either follows it on the
\* path, and was answered, or comes after the last call.
LEMMA WritersComeAfter ==
  ASSUME TypeOK, JournalIsPath, NEW c \in Answered, NEW b \in Answered, Then(b) = Done,
         WrittenAfter(c)
  PROVE  \E w \in Answered : w.phase \in Writers /\ Rank(w) >= Rank(Then(c))
<1>1. PICK w \in CallsOf(Mine) :
        /\ w.phase \in Writers /\ Rank(w) > Rank(c)
        /\ w \in Answered \/ \E d \in Answered : Then(d) = w
  BY DEF WrittenAfter
<1>2. w \in Answered
  <2>1. ASSUME NEW d \in Answered, Then(d) = w, w \notin Answered PROVE FALSE
    <3>1. \A e \in Answered : Rank(e) <= Rank(d) /\ Rank(e) <= Rank(b)
      BY <2>1, ThenGoesOn, GateIsNoCall DEF JournalIsPath, Answered, TypeOK
    <3>2. b \in CallsOf(Mine) \cap Calls /\ d \in CallsOf(Mine) \cap Calls
      BY DEF JournalIsPath, TypeOK, Answered
    <3>3. Rank(b) = Rank(d)
      BY <3>1, ThenGoesOn
    <3>4. b = d
      BY <3>2, <3>3, MineIsAFlow, RanksTell
    <3>5. w = Done
      BY <2>1, <3>4
    <3> QED BY <1>1, <3>5 DEF Done, Call, Writers
  <2> QED BY <1>1, <2>1
<1>3. Rank(Then(c)) <= Rank(w)
  BY <1>1, <1>2 DEF JournalIsPath
<1> QED BY <1>1, <1>2, <1>3, ThenGoesOn

\* Writers come before the validation, and after a review only the verifier's.
LEMMA WritersComeBefore ==
  ASSUME NEW w \in Calls, w.phase \in Writers
  PROVE  /\ Rank(w) \in Nat /\ Rank(w) < 210
         /\ Rank(w) >= 180 => w.phase = "verification-fix"
<1>1. w.cycle \in 0..10 /\ Rank(w) \in Nat
  BY CallsHavePlaces
<1> QED BY <1>1 DEF Writers, Rank, StageOf, Place, Fixes

\* What a workflow that returned holds was given at what is about to be pushed.
LEMMA ReturnedIsJudged ==
  ASSUME TypeOK, Judged, pc = "publish",
         NEW j \in {"validation", "verification", "review"}, answers[j].passed
  PROVE  \/ answers[j].tree = tree
         \/ j = "review" /\ \E c \in DOMAIN journal : c.phase = "verification-fix"
<1>1. PICK b \in Answered : Then(b) = Done
  BY DEF Judged, ExecutionIsOnPath
<1>2. PICK c \in Answered : c.phase = j /\ journal[c] = answers[j]
  BY DEF Judged, HeldIsJournalled, Judgements, NoAnswer
<1>3. c \in CallsOf(Mine) \cap Calls /\ journal[c].passed /\ journal[c].passed \in BOOLEAN
  BY <1>2 DEF Judged, JournalIsPath, TypeOK, Answers, Answered
<1>4. ASSUME WrittenAfter(c)
      PROVE  j = "review" /\ \E w \in DOMAIN journal : w.phase = "verification-fix"
  <2>1. PICK w \in Answered : w.phase \in Writers /\ Rank(w) >= Rank(Then(c))
    BY <1>1, <1>4, WritersComeAfter DEF Judged
  <2>2. w \in Calls
    BY DEF TypeOK, Answered
  <2>3. Rank(Then(c)) > Rank(c) /\ Rank(c) \in Nat /\ Rank(Then(c)) \in Nat
    BY ThenGoesOn DEF Judged
  <2>4. CASE j = "validation"
    <3>1. Rank(c) >= 210
      BY <1>2, <1>3, <2>4, CallsHavePlaces DEF Rank, StageOf, Place
    <3> QED BY <2>1, <2>2, <2>3, <3>1, WritersComeBefore
  <2>5. CASE j # "validation"
    <3>1. Rank(Following(Mine, c, journal[c].passed)) >= 30 * (Place(j) + 1)
      BY <1>2, <1>3, <2>5, MineIsAFlow, LastCalls
    <3>2. Place("review") = 5 /\ Place("verification") = 6 /\ Rank(Gate) = 60
      BY DEF Place, Rank, Gate, Call, StageOf, Fixes
    <3>3. Rank(Then(c)) >= 30 * (Place(j) + 1)
      BY <2>5, <3>1, <3>2 DEF Then
    <3> QED BY <2>1, <2>2, <2>3, <2>5, <3>2, <3>3, WritersComeBefore DEF Answered
  <2> QED BY <2>4, <2>5
<1> QED BY <1>2, <1>4 DEF Judged, VerdictsAreCurrent

\* A workflow that is about to be published succeeded.
Publishing == pc = "publish" => Succeeded

\* An execution that publishes has succeeded.
LEMMA PublishingNext == TypeOK /\ Publishing /\ [Next]_vars => Publishing'
<1> SUFFICES ASSUME TypeOK, Publishing, [Next]_vars, pc' = "publish" PROVE Succeeded'
  BY DEF Publishing
<1>1. CASE Return
  <2>1. Succeeded /\ UNCHANGED <<answers, flow, view>>
    BY <1>1 DEF Return, Running, people, Go, Fail
  <2> QED BY <2>1 DEF Succeeded
<1>2. CASE UNCHANGED vars
  BY <1>2 DEF vars, people, memory, Publishing, Succeeded
<1>3. CASE ~ (Return \/ UNCHANGED vars)
  BY <1>3 DEF Next, Program, People, Launch, Allocate, CreateWorktree, Replay, Ask, Answer, AgentFails,
     ReachGate, Publish, End, Lifecycle, Clean, Retry, Resolve, SyncConflict, MergeByHand, Reopen,
     Edit, Work, Crash, Running, Idle, memory, Go, Fail, Settle, TypeOK
<1> QED BY <1>1, <1>2, <1>3

\* What is pushed has passed validation, and verification if it blocks, at
\* exactly the pushed content, and was reviewed at it unless only the verifier's
\* fixes came later: for every configuration of workflows, through replays,
\* crashes in the middle of a writer, retries, resolutions and conflicts.
THEOREM PublishedWasJudged == Spec => PublishedIsJudged
<1> DEFINE Inv == TypeOK /\ OnItsWay /\ AskedOnce /\ JudgedUnlessEdited /\ Publishing
           Published == pc = "publish" /\ pushed' # pushed /\ ~spent /\ ~edited
           Verdict ==
             /\ answers["validation"].passed /\ answers["validation"].tree = pushed'
             /\ view.profile /\ Blocking => /\ answers["verification"].passed
                                            /\ answers["verification"].tree = pushed'
             /\ answers["review"].tree = pushed'
                  \/ \E c \in DOMAIN journal : c.phase = "verification-fix"
<1>1. Init => Inv
  BY TypeInit, EmptyJournal DEF Init, AskedOnce, JudgedUnlessEdited, Publishing, Judged, JournalIsPath,
     ExecutionIsOnPath, VerdictsAreCurrent, HeldIsJournalled, NoAnswers, Answered
<1>2. Inv /\ [Next]_vars => Inv'
  BY TypeNext, AskedNext, JudgedNext, PublishingNext
<1>3. ASSUME Inv, [Next]_vars, Published PROVE Verdict
  <2>1. pushed' = tree
    BY <1>3 DEF Next, Program, People, Launch, Allocate, Replay, Ask, Answer, AgentFails, ReachGate,
       Return, Publish, End, Lifecycle, Clean, Retry, Resolve, SyncConflict, MergeByHand, Reopen,
       Edit, Work, Crash, Running, Idle, durable, vars
  <2>2. TypeOK /\ Judged /\ Succeeded /\ pc = "publish"
    BY <1>3 DEF JudgedUnlessEdited, Publishing
  <2>3. \A j \in {"validation", "verification", "review"} : answers[j].passed =>
          \/ answers[j].tree = tree
          \/ j = "review" /\ \E c \in DOMAIN journal : c.phase = "verification-fix"
    BY <2>2, ReturnedIsJudged
  <2> QED BY <2>1, <2>2, <2>3 DEF Succeeded
<1>4. Inv /\ [Next]_vars => [Published => Verdict]_vars
  BY <1>3
<1> QED BY <1>1, <1>2, <1>4, PTL DEF Spec, PublishedIsJudged
===============================================================================
