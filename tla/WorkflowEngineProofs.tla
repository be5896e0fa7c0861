-------------------------- MODULE WorkflowEngineProofs --------------------------
(***************************************************************************)
(* What the engine guarantees of one run for any number of branches, calls, *)
(* permits, attempts, rounds and lives.                                    *)
(***************************************************************************)
EXTENDS WorkflowEngine, SequenceTheorems, FiniteSetTheorems, TLAPS

(***************************************************************************)
(* Types                                                                   *)
(***************************************************************************)

\* The bodies take turns: only that of the current round makes calls, each round
\* counts at most Leads of them on the builder they share, and a branch is
\* claimed once the body of its round is done.
BodiesTakeTurns ==
  /\ \A s \in Strands : pos[s] <= CallsOf(s)
  /\ \A r \in 1..Rounds : r # round => pc[<<r, 0>>] \in Ended \cup {"unclaimed"}
  /\ \A r \in 1..Rounds : r > round => pc[<<r, 0>>] = "unclaimed" /\ pos[<<r, 0>>] = 1
  /\ leads <= (round - 1) * Leads + pos[<<round, 0>>]
  /\ \A s \in Strands : ~IsBody(s) /\ pc[s] # "unclaimed" => pc[<<s[1], 0>>] = "done"

\* The calls of the rounds so far fit in those of all rounds.
LEMMA RoundsFit ==
  ASSUME NEW r \in 1..Rounds
  PROVE  /\ (r - 1) * Leads \in Nat /\ Leads * Rounds \in Nat \ {0}
         /\ (r - 1) * Leads + Leads = r * Leads
         /\ (r - 1) * Leads + Leads <= Leads * Rounds
<1>1. Leads \in Nat \ {0} /\ Rounds \in Nat \ {0} /\ r \in Nat /\ r - 1 \in Nat
  BY EngineAssumption DEF EngineAssumption
<1>2. (r - 1) * Leads \in Nat /\ Leads * Rounds \in Nat \ {0} /\ (r - 1) * Leads + Leads = r * Leads
  BY <1>1
<1>3. Rounds - r \in Nat
  BY <1>1
<1>4. (Rounds - r) * Leads \in Nat /\ r * Leads \in Nat
  BY <1>1, <1>3
<1>5. Rounds * Leads = r * Leads + (Rounds - r) * Leads
  BY <1>1, <1>3
<1>6. Leads * Rounds = Rounds * Leads
  BY <1>1
<1> QED BY <1>1, <1>2, <1>4, <1>5, <1>6

\* A strand is its round and its number, and what it calls has a key and a place.
LEMMA StrandParts ==
  ASSUME NEW s \in Strands
  PROVE  /\ s = <<s[1], s[2]>> /\ s[1] \in 1..Rounds /\ s[2] \in 0..Branches
         /\ <<s[1], 0>> \in Strands /\ CallsOf(s) \in Nat \ {0} /\ CallsOf(s) <= Leads + Length
         /\ \A r \in 1..Rounds : <<r, 0>> \in Strands
BY EngineAssumption DEF EngineAssumption, Strands, CallsOf

\* A strand is always at a call of the run.
LEMMA KeyIsKey ==
  ASSUME TypeOK, BodiesTakeTurns, NEW s \in Strands
  PROVE  KeyOf(s) \in Keys /\ PlaceOf(s) \in Places
<1>1. s[1] \in 1..Rounds /\ s[2] \in 0..Branches /\ pos[s] \in 1..(Leads + Length) /\ pos[s] <= CallsOf(s)
  BY StrandParts DEF TypeOK, BodiesTakeTurns
<1>2. CASE IsBody(s)
  BY <1>1, <1>2 DEF KeyOf, Keys, PlaceOf, Places, TypeOK
<1>3. CASE ~IsBody(s)
  <2>1. s[2] \in 1..Branches /\ pos[s] \in 1..Length
    BY <1>1, <1>3, EngineAssumption DEF IsBody, CallsOf, EngineAssumption
  <2> QED BY <1>1, <1>3, <2>1 DEF KeyOf, Keys, PlaceOf, Places
<1> QED BY <1>2, <1>3

\* What holds of a run that starts.
Started ==
  /\ outcome = "none" /\ open \in BOOLEAN /\ round \in 1..Rounds /\ leads \in 1..(Leads * Rounds)
  /\ pc \in [Strands -> Locations] /\ pos \in [Strands -> 1..(Leads + Length)]
  /\ attempt \in [Strands -> Nat \ {0}] /\ stored \in SUBSET Strands
  /\ available \in 0..Slots /\ waiters \in Seq(Strands) /\ late \in SUBSET Keys
  /\ BodiesTakeTurns

\* A fresh process has the types of a started one.
LEMMA FreshType == Fresh => Started
<1> SUFFICES ASSUME Fresh PROVE Started
  OBVIOUS
<1> USE EngineAssumption DEF EngineAssumption
<1>1. Leads * Rounds \in Nat \ {0} /\ 1 \in 1..Rounds
  BY RoundsFit
<1>2. pc \in [Strands -> Locations] /\ pos \in [Strands -> 1..(Leads + Length)]
  BY DEF Fresh, Locations, Holding, Ended
<1>3. BodiesTakeTurns
  <2>1. \A r \in 1..Rounds : <<r, 0>> \in Strands
    BY DEF Strands
  <2>2. ASSUME NEW s \in Strands PROVE pos[s] <= CallsOf(s)
    <3>1. pos[s] = 1 /\ CallsOf(s) \in Nat \ {0}
      BY StrandParts DEF Fresh
    <3> QED BY <3>1
  <2>3. leads <= (round - 1) * Leads + pos[<<round, 0>>]
    BY <1>1, <2>1 DEF Fresh
  <2>4. \A s \in Strands : ~IsBody(s) => pc[s] = "unclaimed"
    BY DEF Fresh, IsBody
  <2>5. \A r \in 1..Rounds : r # 1 => pc[<<r, 0>>] = "unclaimed" /\ pos[<<r, 0>>] = 1
    BY <2>1 DEF Fresh
  <2>6. round = 1
    BY DEF Fresh
  <2>7. \A r \in 1..Rounds : r > round => r # 1
    BY <2>6
  <2> QED BY <2>2, <2>3, <2>4, <2>5, <2>6, <2>7 DEF BodiesTakeTurns
<1>4. waiters \in Seq(Strands)
  BY EmptySeq DEF Fresh
<1> QED BY <1>1, <1>2, <1>3, <1>4 DEF Fresh, Started

(***************************************************************************)
(* Permits                                                                 *)
(***************************************************************************)

Holders == {s \in Strands : pc[s] \in Holding}

\* Nobody queues at a run that is over, and who queues waits, once.
Queue ==
  /\ Aborted => waiters = <<>>
  /\ \A i \in DOMAIN waiters : pc[waiters[i]] = "waiting"
  /\ \A i, j \in DOMAIN waiters : waiters[i] = waiters[j] => i = j

EngineInv == TypeOK /\ BodiesTakeTurns /\ Queue /\ SlotsConserved

\* The strands can be counted,
LEMMA StrandsAreFinite == IsFiniteSet(Strands)
<1>1. IsFiniteSet(1..Rounds) /\ IsFiniteSet(0..Branches)
  BY FS_Interval, EngineAssumption DEF EngineAssumption
<1> QED BY <1>1, FS_Product DEF Strands

\* ... and so can any of them.
LEMMA HoldersAreFinite ==
  ASSUME NEW S \in SUBSET Strands
  PROVE  IsFiniteSet(S) /\ Cardinality(S) \in Nat
BY StrandsAreFinite, FS_Subset, FS_CardinalityType

\* What a strand at work does keeps the turns: a body at work is the current one,
\* and a finished one stays.
LEMMA WorkKeepsTurns ==
  ASSUME TypeOK, BodiesTakeTurns, pc' \in [Strands -> Locations],
         \A s \in Strands : pc'[s] # pc[s] => pc[s] \notin Ended \cup {"unclaimed"},
         UNCHANGED <<round, leads, pos>>
  PROVE  BodiesTakeTurns'
<1>1. \A r \in 1..Rounds : <<r, 0>> \in Strands
  BY EngineAssumption DEF EngineAssumption, Strands
<1>2. \A r \in 1..Rounds : r # round => pc'[<<r, 0>>] = pc[<<r, 0>>]
  BY <1>1 DEF BodiesTakeTurns
<1>3. \A r \in 1..Rounds : pc[<<r, 0>>] = "done" => pc'[<<r, 0>>] = "done"
  BY <1>1 DEF Ended
<1>4. \A s \in Strands : ~IsBody(s) /\ pc'[s] # "unclaimed" => pc'[<<s[1], 0>>] = "done"
  <2>1. ASSUME NEW s \in Strands, ~IsBody(s), pc'[s] # "unclaimed" PROVE pc[s] # "unclaimed"
    BY <2>1
  <2> QED BY <1>3, <2>1, StrandParts DEF BodiesTakeTurns
<1>5. \A r \in 1..Rounds : r # round => pc'[<<r, 0>>] \in Ended \cup {"unclaimed"}
  BY <1>2 DEF BodiesTakeTurns
<1>6. \A r \in 1..Rounds : r > round => r # round
  BY DEF TypeOK
<1> QED BY <1>2, <1>4, <1>5, <1>6 DEF BodiesTakeTurns, CallsOf, IsBody

\* A strand that neither gets nor gives a permit, and does not queue.
LEMMA MoveKeeps ==
  ASSUME EngineInv, NEW s \in Strands, NEW to \in Locations,
         pc[s] \notin Ended \cup {"unclaimed"},
         pc[s] \in Holding <=> to \in Holding,
         pc[s] = "waiting" => waiters = <<>>,
         pc' = [pc EXCEPT ![s] = to],
         UNCHANGED <<round, outcome, leads, pos, limiter>>
  PROVE  /\ pc' \in [Strands -> Locations] /\ BodiesTakeTurns' /\ Queue' /\ SlotsConserved'
         /\ available' \in 0..Slots /\ waiters' \in Seq(Strands)
<1>1. pc' \in [Strands -> Locations] /\ \A r \in Strands \ {s} : pc'[r] = pc[r]
  BY DEF EngineInv, TypeOK
<1>2. BodiesTakeTurns'
  BY <1>1, WorkKeepsTurns DEF EngineInv
<1>3. Queue'
  <2>1. \A i \in DOMAIN waiters : waiters[i] # s
    BY DEF EngineInv, Queue
  <2>2. \A i \in DOMAIN waiters : waiters[i] \in Strands
    BY ElementOfSeq, LenProperties DEF EngineInv, TypeOK
  <2> QED BY <1>1, <2>1, <2>2 DEF EngineInv, Queue, Aborted, limiter
<1>4. {r \in Strands : pc'[r] \in Holding} = {r \in Strands : pc[r] \in Holding}
  BY <1>1 DEF EngineInv, TypeOK
<1>5. SlotsConserved'
  BY <1>4 DEF EngineInv, SlotsConserved, limiter
<1> QED BY <1>1, <1>2, <1>3, <1>5 DEF EngineInv, TypeOK, limiter

\* A holder that gives its permit up: to the first waiter, or back.
LEMMA LeaveKeeps ==
  ASSUME EngineInv, NEW s \in Strands, pc[s] \in Holding,
         NEW to \in Locations \ (Holding \cup {"unclaimed", "waiting"}), Leave(s, to)
  PROVE  /\ pc' \in [Strands -> Locations] /\ BodiesTakeTurns' /\ Queue' /\ SlotsConserved'
         /\ available' \in 0..Slots /\ waiters' \in Seq(Strands)
<1>0. /\ TypeOK /\ Slots \in Nat /\ UNCHANGED <<outcome, round, leads, pos>>
      /\ s \in Holders /\ available + Cardinality(Holders) = Slots
      /\ waiters # <<>> => available = 0
  BY EngineAssumption DEF EngineInv, EngineAssumption, Leave, run, Holders, SlotsConserved
<1>1. IsFiniteSet(Holders) /\ Cardinality(Holders) \in Nat
  BY HoldersAreFinite DEF Holders
<1>2. /\ IsFiniteSet(Holders \ {s}) /\ Cardinality(Holders \ {s}) = Cardinality(Holders) - 1
      /\ Cardinality(Holders \ {s}) \in Nat
  BY <1>0, <1>1, FS_RemoveElement, FS_CardinalityType
<1>3. CASE waiters = <<>>
  <2>1. /\ pc' = [pc EXCEPT ![s] = to] /\ available' = available + 1 /\ waiters' = waiters
    BY <1>3 DEF Leave
  <2>2. pc' \in [Strands -> Locations] /\ \A r \in Strands \ {s} : pc'[r] = pc[r]
    BY <1>0, <2>1 DEF TypeOK
  <2>3. BodiesTakeTurns'
    BY <1>0, <2>2, WorkKeepsTurns DEF EngineInv, Holding, Ended
  <2>4. Holders' = Holders \ {s}
    BY <1>0, <2>1, <2>2 DEF Holders, TypeOK
  <2>5. SlotsConserved' /\ available' \in 0..Slots
    <3>1. available' + Cardinality(Holders') = Slots /\ waiters' = <<>>
      <4>1. available \in Nat /\ available' = available + 1 /\ Cardinality(Holders') = Cardinality(Holders) - 1
        BY <1>0, <1>2, <2>1, <2>4 DEF TypeOK
      <4> QED BY <1>0, <1>1, <1>3, <2>1, <4>1
    <3>2. available \in Nat /\ available' = available + 1 /\ Cardinality(Holders') \in Nat
      BY <1>0, <1>2, <2>1, <2>4 DEF TypeOK
    <3>3. available' \in 0..Slots
      BY <1>0, <3>1, <3>2
    <3> QED BY <3>1, <3>3 DEF SlotsConserved, Holders
  <2>6. Queue'
    BY <1>0, <1>3, <2>1, EmptySeq DEF Queue, EngineInv, Aborted
  <2> QED BY <1>0, <2>1, <2>2, <2>3, <2>5, <2>6 DEF TypeOK
<1>4. CASE waiters # <<>>
  <2> DEFINE h == Head(waiters)
  <2>1. /\ waiters' = Tail(waiters) /\ available' = available
        /\ pc' = [pc EXCEPT ![s] = to, ![h] = "resolving"]
    BY <1>4 DEF Leave
  <2>2. /\ waiters \in Seq(Strands) /\ DOMAIN waiters = 1..Len(waiters) /\ Len(waiters) \in Nat \ {0}
        /\ h = waiters[1] /\ h \in Strands
        /\ waiters' \in Seq(Strands) /\ DOMAIN waiters' = 1..(Len(waiters) - 1)
        /\ \A i \in DOMAIN waiters' : waiters'[i] = waiters[i + 1] /\ i + 1 \in DOMAIN waiters
    <3>1. waiters \in Seq(Strands)
      BY <1>0 DEF TypeOK
    <3>2. /\ h \in Strands /\ waiters' \in Seq(Strands) /\ Len(waiters') = Len(waiters) - 1
          /\ \A i \in 1..Len(waiters') : waiters'[i] = waiters[i + 1]
      BY <1>4, <2>1, <3>1, HeadTailProperties
    <3>3. Len(waiters) \in Nat \ {0} /\ DOMAIN waiters = 1..Len(waiters)
      BY <1>4, <3>1, EmptySeq, LenProperties
    <3>4. DOMAIN waiters' = 1..Len(waiters')
      BY <3>2, LenProperties
    <3>5. h = waiters[1]
      BY <1>4, <3>1
    <3> QED BY <3>1, <3>2, <3>3, <3>4, <3>5
  <2>3. pc[h] = "waiting" /\ h # s /\ h \notin Holders
    BY <1>0, <2>2 DEF EngineInv, Queue, Holders, Holding
  <2> HIDE DEF h
  <2>4. /\ pc' \in [Strands -> Locations] /\ pc'[s] = to /\ pc'[h] = "resolving"
        /\ \A r \in Strands \ {s, h} : pc'[r] = pc[r]
    BY <1>0, <2>1, <2>2, <2>3 DEF TypeOK, Locations, Holding
  <2>5. BodiesTakeTurns'
    BY <1>0, <2>2, <2>3, <2>4, WorkKeepsTurns DEF EngineInv, Holding, Ended
  <2>6. Holders' = (Holders \ {s}) \cup {h}
    BY <1>0, <2>2, <2>3, <2>4 DEF Holders, Holding
  <2>7. Cardinality(Holders') = Cardinality(Holders)
    <3>1. h \notin Holders \ {s}
      BY <2>3
    <3>2. Cardinality((Holders \ {s}) \cup {h}) = Cardinality(Holders \ {s}) + 1
      BY <1>2, <3>1, FS_AddElement
    <3> QED BY <1>1, <1>2, <2>6, <3>2
  <2>8. SlotsConserved'
    BY <1>0, <1>4, <2>1, <2>7 DEF SlotsConserved, Holders
  <2>9. Queue'
    <3>1. \A i \in DOMAIN waiters' : pc'[waiters'[i]] = "waiting"
      <4>1. ASSUME NEW i \in DOMAIN waiters' PROVE pc'[waiters'[i]] = "waiting"
        <5>1. i + 1 \in DOMAIN waiters /\ waiters'[i] = waiters[i + 1] /\ i + 1 # 1 /\ 1 \in DOMAIN waiters
          BY <2>2
        <5>2. waiters[i + 1] # h /\ waiters[i + 1] # s /\ pc[waiters[i + 1]] = "waiting"
          BY <1>0, <2>2, <5>1 DEF EngineInv, Queue, Holders, Holding
        <5>3. waiters[i + 1] \in Strands
          BY <2>2, <5>1, ElementOfSeq
        <5> QED BY <2>4, <5>1, <5>2, <5>3
      <4> QED BY <4>1
    <3>2. \A i, j \in DOMAIN waiters' : waiters'[i] = waiters'[j] => i = j
      BY <2>2 DEF EngineInv, Queue
    <3>3. ~Aborted'
      BY <1>0, <1>4 DEF EngineInv, Queue, Aborted
    <3> QED BY <3>1, <3>2, <3>3 DEF Queue
  <2> QED BY <1>0, <2>1, <2>2, <2>4, <2>5, <2>8, <2>9 DEF TypeOK
<1> QED BY <1>3, <1>4

\* The facts of EngineInv that an action can disturb through pc and the semaphore.
Kept ==
  /\ pc' \in [Strands -> Locations] /\ BodiesTakeTurns' /\ Queue' /\ SlotsConserved'
  /\ available' \in 0..Slots /\ waiters' \in Seq(Strands)

\* A call that returns: its strand moves on, the current body's count with it.
LEMMA ReturnKeeps ==
  ASSUME EngineInv, NEW s \in Strands, pc[s] \in {"called", "tidying"}, Return(s),
         UNCHANGED <<run, limiter>>
  PROVE  Kept /\ pos' \in [Strands -> 1..(Leads + Length)] /\ leads' \in 1..(Leads * Rounds)
<1>0. TypeOK /\ BodiesTakeTurns /\ UNCHANGED <<outcome, round, available, waiters>>
  BY DEF EngineInv, run, limiter
<1>1. CASE pos[s] < CallsOf(s)
  <2>1. /\ pc' = [pc EXCEPT ![s] = "called"] /\ pos' = [pos EXCEPT ![s] = @ + 1]
        /\ leads' = IF IsBody(s) THEN leads + 1 ELSE leads
    BY <1>1 DEF Return
  <2>2. /\ pc' \in [Strands -> Locations] /\ \A r \in Strands \ {s} : pc'[r] = pc[r] /\ pos'[r] = pos[r]
        /\ pc'[s] = "called" /\ pos'[s] = pos[s] + 1
    BY <1>0, <2>1 DEF TypeOK, Locations
  <2>3. pos[s] \in 1..(Leads + Length) /\ pos[s] + 1 <= CallsOf(s) /\ pos[s] + 1 \in 1..(Leads + Length)
    <3>1. pos[s] \in 1..(Leads + Length)
      BY <1>0 DEF TypeOK
    <3>2. CallsOf(s) \in Nat /\ CallsOf(s) <= Leads + Length
      BY StrandParts
    <3>3. Leads + Length \in Nat
      BY EngineAssumption DEF EngineAssumption
    <3> QED BY <1>1, <3>1, <3>2, <3>3
  <2>4. pos' \in [Strands -> 1..(Leads + Length)]
    BY <1>0, <2>1, <2>3 DEF TypeOK
  <2>5. \A r \in Strands : pc'[r] \in Holding <=> pc[r] \in Holding
    BY <2>2 DEF Holding
  <2>6. SlotsConserved'
    <3>1. {r \in Strands : pc'[r] \in Holding} = {r \in Strands : pc[r] \in Holding}
      BY <2>5
    <3> QED BY <1>0, <3>1 DEF EngineInv, SlotsConserved
  <2>7. Queue'
    <3>1. \A i \in DOMAIN waiters : waiters[i] \in Strands /\ waiters[i] # s
      BY <1>0, ElementOfSeq, LenProperties DEF EngineInv, Queue, TypeOK
    <3> QED BY <1>0, <2>2, <3>1 DEF EngineInv, Queue, Aborted
  <2>8. IsBody(s) => s = <<round, 0>> /\ pos[s] + 1 <= Leads
    BY <1>0, <2>3, StrandParts DEF BodiesTakeTurns, IsBody, CallsOf, Ended
  <2>9. /\ leads' \in 1..(Leads * Rounds)
        /\ leads' <= (round - 1) * Leads + pos'[<<round, 0>>]
    <3>1. /\ round \in 1..Rounds /\ leads \in 1..(Leads * Rounds) /\ <<round, 0>> \in Strands
          /\ leads <= (round - 1) * Leads + pos[<<round, 0>>]
      BY <1>0, StrandParts DEF TypeOK, BodiesTakeTurns
    <3>2. CASE IsBody(s)
      <4>1. leads' = leads + 1 /\ leads <= (round - 1) * Leads + pos[s] /\ pos[s] + 1 <= Leads
        BY <2>1, <2>8, <3>1, <3>2
      <4>2. (round - 1) * Leads \in Nat /\ (round - 1) * Leads + Leads <= Leads * Rounds /\ Leads * Rounds \in Nat
        BY <3>1, RoundsFit
      <4>3. Leads \in Nat
        BY EngineAssumption DEF EngineAssumption
      <4>4. leads + 1 <= (round - 1) * Leads + (pos[s] + 1)
        BY <2>3, <3>1, <4>1, <4>2
      <4>5. leads + 1 <= Leads * Rounds
        BY <2>3, <3>1, <4>1, <4>2, <4>3, <4>4
      <4> QED BY <2>2, <2>8, <3>1, <3>2, <4>1, <4>2, <4>4, <4>5
    <3>3. CASE ~IsBody(s)
      <4>1. <<round, 0>> # s
        BY <3>3 DEF IsBody
      <4> QED BY <2>1, <2>2, <3>1, <3>3, <4>1
    <3> QED BY <3>2, <3>3
  <2>10. BodiesTakeTurns'
    <3>1. \A r \in Strands : pos'[r] <= CallsOf(r)
      BY <1>0, <2>2, <2>3 DEF BodiesTakeTurns
    <3>2. \A r \in 1..Rounds : r # round => <<r, 0>> # s
      BY <2>8 DEF IsBody
    <3>3. \A r \in Strands : ~IsBody(r) /\ pc'[r] # "unclaimed" => pc'[<<r[1], 0>>] = "done"
      <4>1. \A r \in Strands : pc[<<r[1], 0>>] = "done" => <<r[1], 0>> # s
        BY StrandParts
      <4> QED BY <1>0, <2>2, <4>1, StrandParts DEF BodiesTakeTurns
    <3> QED BY <1>0, <2>2, <2>9, <3>1, <3>2, <3>3, StrandParts DEF BodiesTakeTurns, CallsOf, IsBody, Ended
  <2> QED BY <1>0, <2>2, <2>4, <2>6, <2>7, <2>9, <2>10 DEF Kept, TypeOK
<1>2. CASE ~(pos[s] < CallsOf(s))
  <2>1. pc' = [pc EXCEPT ![s] = "done"] /\ UNCHANGED <<pos, leads>>
    BY <1>2 DEF Return
  <2>2. "done" \in Locations /\ "done" \notin Holding /\ pc[s] \notin Holding
    BY DEF Locations, Holding, Ended
  <2>3. Kept
    BY <1>0, <2>1, <2>2, MoveKeeps DEF Kept, limiter, run, Ended
  <2> QED BY <1>0, <2>1, <2>3 DEF TypeOK
<1> QED BY <1>1, <1>2

\* One that asks for a permit: it gets a free one, or queues behind the others.
LEMMA AcquireKeeps ==
  ASSUME EngineInv, NEW s \in Strands, Acquire(s)
  PROVE  Kept
<1>0. /\ TypeOK /\ BodiesTakeTurns /\ Queue /\ pc[s] = "acquire" /\ UNCHANGED <<outcome, round, leads, pos>>
      /\ s \notin Holders /\ available \in Nat /\ Slots \in Nat
      /\ available + Cardinality(Holders) = Slots /\ (waiters # <<>> => available = 0) /\ ~Aborted
  <2>1. pc[s] = "acquire" /\ UNCHANGED <<outcome, round, leads, pos>> /\ ~Aborted
    BY DEF Acquire, Step, Go, run
  <2>2. available + Cardinality(Holders) = Slots /\ (waiters # <<>> => available = 0)
    BY DEF EngineInv, SlotsConserved, Holders
  <2>3. available \in Nat /\ Slots \in Nat
    BY EngineAssumption DEF EngineInv, TypeOK, EngineAssumption
  <2> QED BY <2>1, <2>2, <2>3 DEF EngineInv, Holders, Holding
<1>1. IsFiniteSet(Holders) /\ Cardinality(Holders) \in Nat
  BY HoldersAreFinite DEF Holders
<1>2. CASE available > 0
  <2>1. pc' = [pc EXCEPT ![s] = "resolving"] /\ available' = available - 1 /\ waiters' = waiters
    BY <1>2 DEF Acquire, Step, Go
  <2>2. /\ pc' \in [Strands -> Locations] /\ pc'[s] = "resolving"
        /\ \A r \in Strands \ {s} : pc'[r] = pc[r]
    BY <1>0, <2>1 DEF TypeOK, Locations, Holding
  <2>3. BodiesTakeTurns'
    BY <1>0, <2>2, WorkKeepsTurns DEF Ended
  <2>4. Holders' = Holders \cup {s}
    BY <2>2 DEF Holders, Holding
  <2>5. Cardinality(Holders') = Cardinality(Holders) + 1
    BY <1>0, <1>1, <2>4, FS_AddElement
  <2>6. waiters = <<>>
    BY <1>0, <1>2
  <2>7. available' + Cardinality(Holders') = Slots /\ available' \in 0..Slots
    BY <1>0, <1>1, <1>2, <2>1, <2>5
  <2> QED BY <1>0, <2>1, <2>2, <2>3, <2>6, <2>7, EmptySeq DEF Kept, Queue, SlotsConserved, Holders, TypeOK
<1>3. CASE ~(available > 0)
  <2>1. pc' = [pc EXCEPT ![s] = "waiting"] /\ available' = available /\ waiters' = Append(waiters, s)
    BY <1>3 DEF Acquire, Step, Go
  <2>2. /\ pc' \in [Strands -> Locations] /\ pc'[s] = "waiting"
        /\ \A r \in Strands \ {s} : pc'[r] = pc[r]
    BY <1>0, <2>1 DEF TypeOK, Locations
  <2>3. BodiesTakeTurns'
    BY <1>0, <2>2, WorkKeepsTurns DEF Ended
  <2>4. Holders' = Holders
    BY <1>0, <2>2 DEF Holders, Holding
  <2>5. /\ waiters \in Seq(Strands) /\ waiters' \in Seq(Strands) /\ Len(waiters) \in Nat
        /\ DOMAIN waiters = 1..Len(waiters) /\ DOMAIN waiters' = 1..(Len(waiters) + 1)
        /\ waiters'[Len(waiters) + 1] = s /\ \A i \in 1..Len(waiters) : waiters'[i] = waiters[i]
        /\ \A i \in 1..Len(waiters) : waiters[i] \in Strands
    <3>1. waiters \in Seq(Strands)
      BY <1>0 DEF TypeOK
    <3>2. Len(waiters) \in Nat /\ DOMAIN waiters = 1..Len(waiters)
      BY <3>1, LenProperties
    <3>3. /\ waiters' \in Seq(Strands) /\ Len(waiters') = Len(waiters) + 1
          /\ waiters'[Len(waiters) + 1] = s /\ \A i \in 1..Len(waiters) : waiters'[i] = waiters[i]
      BY <2>1, <3>1, AppendProperties
    <3>4. DOMAIN waiters' = 1..Len(waiters')
      BY <3>3, LenProperties
    <3>5. \A i \in 1..Len(waiters) : waiters[i] \in Strands
      BY <3>1, <3>2, ElementOfSeq
    <3> QED BY <3>1, <3>2, <3>3, <3>4, <3>5
  <2>6. \A i \in 1..Len(waiters) : waiters[i] # s /\ pc[waiters[i]] = "waiting"
    BY <1>0, <2>5 DEF Queue
  <2>7. Queue'
    <3>1. \A i \in DOMAIN waiters' : i = Len(waiters) + 1 \/ i \in 1..Len(waiters)
      BY <2>5
    <3>2. \A i \in DOMAIN waiters' : pc'[waiters'[i]] = "waiting"
      BY <2>2, <2>5, <2>6, <3>1
    <3>3. \A i, j \in DOMAIN waiters' : waiters'[i] = waiters'[j] => i = j
      BY <1>0, <2>5, <2>6, <3>1 DEF Queue
    <3> QED BY <1>0, <3>2, <3>3 DEF Queue, Aborted
  <2>8. available' = 0 /\ available' + Cardinality(Holders') = Slots /\ available' \in 0..Slots
    BY <1>0, <1>3, <2>1, <2>4
  <2> QED BY <2>2, <2>3, <2>5, <2>7, <2>8 DEF Kept, SlotsConserved, Holders
<1> QED BY <1>2, <1>3

\* What Move and Leave keep, for a strand that is at work.
LEMMA StepKeeps ==
  ASSUME EngineInv, NEW s \in Strands, NEW to \in Locations,
         pc[s] \notin Ended \cup {"unclaimed"}, pc[s] \in Holding <=> to \in Holding,
         pc[s] = "waiting" => waiters = <<>>,
         Step(s, pc[s], to), UNCHANGED limiter
  PROVE  Kept
BY MoveKeeps DEF Kept, Step, Go, run

\* A permit given away is free again or the first waiter's.
LEMMA GiveAwayKeeps ==
  ASSUME EngineInv, NEW s \in Strands, pc[s] \in Holding,
         NEW to \in Locations \ (Holding \cup {"unclaimed", "waiting"}), Leave(s, to)
  PROVE  Kept
BY LeaveKeeps DEF Kept

\* A branch that starts: the body of its round is done.
LEMMA ClaimKeeps ==
  ASSUME EngineInv, NEW s \in Strands, Claim(s)
  PROVE  Kept
<1>0. /\ TypeOK /\ BodiesTakeTurns /\ Queue /\ UNCHANGED <<outcome, round, leads, pos, available, waiters>>
      /\ ~IsBody(s) /\ pc[<<s[1], 0>>] = "done" /\ pc[s] = "unclaimed" /\ pc' = [pc EXCEPT ![s] = "called"]
  BY DEF EngineInv, Claim, Step, Go, run, limiter
<1>1. /\ pc' \in [Strands -> Locations] /\ pc'[s] = "called"
      /\ \A r \in Strands \ {s} : pc'[r] = pc[r]
  BY <1>0 DEF TypeOK, Locations
<1>2. {r \in Strands : pc'[r] \in Holding} = {r \in Strands : pc[r] \in Holding}
  BY <1>0, <1>1 DEF Holding
<1>3. \A r \in 1..Rounds : <<r, 0>> \in Strands /\ <<r, 0>> # s
  BY <1>0, StrandParts DEF IsBody
<1>4. BodiesTakeTurns'
  <2>1. \A r \in Strands : ~IsBody(r) /\ pc'[r] # "unclaimed" => pc'[<<r[1], 0>>] = "done"
    BY <1>0, <1>1, <1>3, StrandParts DEF BodiesTakeTurns
  <2>2. <<round, 0>> \in Strands
    BY <1>0, StrandParts DEF TypeOK
  <2> QED BY <1>0, <1>1, <1>3, <2>1, <2>2 DEF BodiesTakeTurns, IsBody, CallsOf
<1>5. Queue'
  <2>1. \A i \in DOMAIN waiters : waiters[i] \in Strands /\ waiters[i] # s
    BY <1>0, ElementOfSeq, LenProperties DEF Queue, TypeOK
  <2> QED BY <1>0, <1>1, <2>1 DEF Queue, Aborted
<1> QED BY <1>0, <1>1, <1>2, <1>4, <1>5 DEF Kept, EngineInv, SlotsConserved, TypeOK

\* One step per stage of a call.
LEMMA StrandKeeps ==
  ASSUME EngineInv, NEW s \in Strands, StrandStep(s)
  PROVE  EngineInv'
<1> USE DEF durable, run, limiter
<1>0. /\ TypeOK /\ BodiesTakeTurns /\ Queue /\ KeyOf(s) \in Keys /\ PlaceOf(s) \in Places
      /\ pc[s] \in Locations /\ attempt[s] \in Nat \ {0}
  BY KeyIsKey DEF EngineInv, TypeOK
<1> DEFINE Rest == /\ journal' \in [Keys -> Places \cup {NoPlace}] /\ inflight' \in SUBSET Keys
                   /\ UNCHANGED run /\ attempt' \in [Strands -> Nat \ {0}]
                   /\ stored' \in SUBSET Strands /\ late' \in SUBSET Keys
<1> DEFINE Counted == pos' \in [Strands -> 1..(Leads + Length)] /\ leads' \in 1..(Leads * Rounds)
<1>1. SUFFICES Kept /\ Rest /\ Counted
  BY <1>0 DEF Kept, EngineInv, TypeOK
<1>2. UNCHANGED <<pos, leads>> => Counted
  BY <1>0 DEF TypeOK
<1>3. Failing(s) \in {"giving-up", "acquire"} /\ "giving-up" \in Locations /\ "acquire" \in Locations
  BY DEF Failing, Locations
<1>4. CASE Claim(s)
  BY <1>0, <1>2, <1>4, ClaimKeeps DEF Claim, Step, TypeOK
<1>5. CASE Replay(s)
  BY <1>0, <1>5, ReturnKeeps DEF Replay, TypeOK
<1>6. CASE LookUp(s)
  <2>1. Kept
    BY <1>6, StepKeeps DEF LookUp, Step, Go, Ended, Holding, Locations
  <2> QED BY <1>0, <1>2, <1>6, <2>1 DEF LookUp, Step, TypeOK
<1>7. CASE Acquire(s)
  BY <1>0, <1>2, <1>7, AcquireKeeps DEF Acquire, Step, TypeOK
<1>8. CASE Resolve(s)
  <2>1. Kept
    BY <1>8, StepKeeps DEF Resolve, Step, Go, Ended, Holding, Locations
  <2> QED BY <1>0, <1>2, <1>8, <2>1 DEF Resolve, Step, TypeOK
<1>9. CASE Consume(s)
  <2>1. Kept
    BY <1>9, StepKeeps DEF Consume, Step, Go, Ended, Holding, Locations
  <2> QED BY <1>0, <1>2, <1>9, <2>1 DEF Consume, Step, ClearInFlight, TypeOK
<1>10. CASE Resume(s)
  <2>1. Kept
    BY <1>10, StepKeeps DEF Resume, Step, Go, Ended, Holding, Locations
  <2> QED BY <1>0, <1>2, <1>10, <2>1 DEF Resume, Step, TypeOK
<1>11. CASE Run(s)
  <2>1. Kept
    BY <1>11, StepKeeps DEF Run, Step, Go, Ended, Holding, Locations
  <2> QED BY <1>0, <1>2, <1>11, <2>1 DEF Run, Step, TypeOK
<1>12. CASE Mark(s)
  <2>1. Kept
    BY <1>12, StepKeeps DEF Mark, Step, Go, Ended, Holding, Locations
  <2>2. MarkInFlight(KeyOf(s)) \/ UNCHANGED durable
    BY <1>12 DEF Mark
  <2> QED BY <1>0, <1>2, <1>12, <2>1, <2>2 DEF Mark, Step, MarkInFlight, TypeOK
<1>13. CASE Answer(s)
  <2>1. Kept
    BY <1>13, GiveAwayKeeps DEF Answer, Executing, Holding, Locations
  <2> QED BY <1>0, <1>2, <1>13, <2>1 DEF Answer, Leave, TypeOK
<1>14. CASE Throw(s)
  <2>1. Kept
    BY <1>3, <1>14, GiveAwayKeeps DEF Throw, Executing, Holding, Locations
  <2> QED BY <1>0, <1>2, <1>14, <2>1 DEF Throw, Leave, NextAttempt, TypeOK
<1>15. CASE Save(s)
  <2>1. Kept
    <3>1. PICK to \in {"giving-up", "tidying"} : Step(s, "saving", to)
      BY <1>15 DEF Save
    <3> QED BY <1>15, <3>1, StepKeeps DEF Save, Step, Go, Ended, Holding, Locations
  <2> QED BY <1>0, <1>2, <1>15, <2>1 DEF Save, Step, Set, TypeOK
<1>16. CASE SaveFails(s)
  <2>1. Kept
    <3>1. PICK to \in {"giving-up", "acquire"} : Step(s, "saving", to)
      BY <1>16 DEF SaveFails, Failing
    <3> QED BY <1>16, <3>1, StepKeeps DEF SaveFails, Step, Go, Ended, Holding, Locations
  <2> QED BY <1>0, <1>2, <1>16, <2>1 DEF SaveFails, Step, NextAttempt, TypeOK
<1>17. CASE Tidy(s)
  <2>1. Kept /\ Counted
    <3>1. CASE Aborted
      <4>1. Step(s, "tidying", "giving-up")
        BY <1>17, <3>1 DEF Tidy, Step, Go
      <4> QED BY <1>2, <1>17, <4>1, StepKeeps DEF Tidy, Step, Go, Ended, Holding, Locations
    <3>2. CASE ~Aborted
      BY <1>17, <3>2, ReturnKeeps DEF Tidy
    <3> QED BY <3>1, <3>2
  <2> QED BY <1>0, <1>17, <2>1 DEF Tidy, ClearInFlight, TypeOK
<1>18. CASE Abandon(s)
  <2>1. Kept
    <3>1. CASE Step(s, "called", "cancelled") /\ UNCHANGED limiter
      BY <3>1, StepKeeps DEF Step, Go, Ended, Holding, Locations
    <3>2. CASE pc[s] \in {"acquire", "waiting", "tidying"} /\ Step(s, pc[s], "giving-up") /\ UNCHANGED limiter
      <4>1. waiters = <<>>
        BY <1>0, <1>18 DEF Queue, Abandon
      <4> QED BY <3>2, <4>1, StepKeeps DEF Ended, Holding, Locations
    <3>3. CASE pc[s] \in Holding /\ Leave(s, "giving-up")
      BY <3>3, GiveAwayKeeps DEF Holding, Locations
    <3> QED BY <1>18, <3>1, <3>2, <3>3 DEF Abandon
  <2>2. UNCHANGED <<run, leads, pos>> /\ (late' = late \/ late' = late \cup {KeyOf(s)})
    BY <1>18 DEF Abandon, Leave, Step
  <2> QED BY <1>0, <1>2, <1>18, <2>1, <2>2 DEF Abandon, TypeOK
<1>19. CASE GiveUp(s)
  <2>1. Kept
    <3>1. PICK to \in {"cancelled", "failed"} : Step(s, "giving-up", to)
      BY <1>19 DEF GiveUp
    <3> QED BY <1>19, <3>1, StepKeeps DEF GiveUp, Step, Go, Ended, Holding, Locations
  <2>2. ClearInFlight(KeyOf(s)) \/ UNCHANGED durable
    BY <1>19 DEF GiveUp
  <2> QED BY <1>0, <1>2, <1>19, <2>1, <2>2 DEF GiveUp, Step, ClearInFlight, TypeOK
<1> QED BY <1>4, <1>5, <1>6, <1>7, <1>8, <1>9, <1>10, <1>11, <1>12, <1>13, <1>14, <1>15, <1>16,
           <1>17, <1>18, <1>19 DEF StrandStep

\* Steps that leave the strands and the semaphore as they are.
LEMMA IdleKeeps ==
  ASSUME EngineInv, UNCHANGED <<round, outcome, leads, pc, pos, limiter>>
  PROVE  Kept /\ leads' \in 1..(Leads * Rounds) /\ pos' \in [Strands -> 1..(Leads + Length)]
<1>1. BodiesTakeTurns'
  BY DEF EngineInv, BodiesTakeTurns, IsBody, CallsOf
<1>2. Queue' /\ SlotsConserved'
  BY DEF EngineInv, Queue, Aborted, SlotsConserved, limiter
<1> QED BY <1>1, <1>2 DEF EngineInv, Kept, TypeOK, limiter

\* The next round's body starts where the failed one's stopped.
LEMMA NextRoundKeeps ==
  ASSUME EngineInv, NextRound
  PROVE  EngineInv'
<1> DEFINE body == <<round + 1, 0>>
<1>0. /\ TypeOK /\ BodiesTakeTurns /\ Queue /\ RoundFailed
      /\ UNCHANGED <<durable, outcome, open, life, pos, attempt, stored, available, waiters, late>>
      /\ round' = round + 1 /\ leads' = leads + 1 /\ pc' = [pc EXCEPT ![body] = "called"]
  BY DEF EngineInv, NextRound, limiter
<1>1. /\ round \in 1..Rounds /\ round + 1 \in 1..Rounds /\ body \in Strands /\ <<round, 0>> \in Strands
      /\ \A r \in 1..Rounds : <<r, 0>> \in Strands
      /\ \A r \in 1..Rounds : <<r, 0>> = body => r = round + 1
  BY EngineAssumption DEF EngineInv, TypeOK, EngineAssumption, Strands, NextRound
<1> HIDE DEF body
<1>2. /\ pc[body] = "unclaimed" /\ pos[body] = 1 /\ ~(body = <<round, 0>>)
  BY <1>0, <1>1 DEF BodiesTakeTurns, body
<1>3. /\ pc' \in [Strands -> Locations] /\ pc'[body] = "called"
      /\ \A r \in Strands \ {body} : pc'[r] = pc[r]
  BY <1>0, <1>1 DEF TypeOK, Locations
<1>4. pc[<<round, 0>>] \in Ended
  <2>1. PICK b \in 0..Branches : pc[<<round, b>>] = "failed"
    BY <1>0 DEF RoundFailed
  <2>2. CASE b = 0
    BY <2>1, <2>2 DEF Ended
  <2>3. CASE b # 0
    <3>1. <<round, b>> \in Strands /\ ~IsBody(<<round, b>>)
      BY <1>1, <2>3 DEF Strands, IsBody
    <3>2. pc[<<round, 0>>] = "done"
      BY <1>0, <2>1, <3>1 DEF BodiesTakeTurns
    <3> QED BY <3>2 DEF Ended
  <2> QED BY <2>2, <2>3
<1>5. /\ leads' <= (round' - 1) * Leads + pos'[<<round', 0>>] /\ leads' \in 1..(Leads * Rounds)
  <2>1. /\ (round - 1) * Leads \in Nat /\ (round - 1) * Leads + Leads = round * Leads
        /\ (round + 1 - 1) * Leads \in Nat /\ (round + 1 - 1) * Leads + Leads <= Leads * Rounds
        /\ Leads * Rounds \in Nat
    BY <1>1, RoundsFit
  <2>2. leads \in Nat \ {0} /\ leads <= (round - 1) * Leads + pos[<<round, 0>>]
    BY <1>0 DEF TypeOK, BodiesTakeTurns
  <2>3. pos[<<round, 0>>] \in Nat /\ pos[<<round, 0>>] <= Leads
    <3>1. CallsOf(<<round, 0>>) = Leads
      BY DEF CallsOf, IsBody
    <3>2. pos[<<round, 0>>] <= CallsOf(<<round, 0>>) /\ pos[<<round, 0>>] \in 1..(Leads + Length)
      BY <1>0, <1>1 DEF TypeOK, BodiesTakeTurns
    <3> QED BY <3>1, <3>2
  <2>4. Leads \in Nat \ {0} /\ round + 1 - 1 = round
    BY <1>1, EngineAssumption DEF EngineAssumption
  <2>5. leads <= round * Leads /\ round * Leads \in Nat
    <3>1. \A a, b, c \in Nat : a <= b + c /\ c <= Leads => a <= b + Leads
      BY <2>4
    <3>2. leads <= (round - 1) * Leads + Leads
      BY <2>1, <2>2, <2>3, <3>1
    <3> QED BY <2>1, <2>4, <3>2
  <2>6. leads + 1 <= round * Leads + 1 /\ leads + 1 <= Leads * Rounds
    BY <2>1, <2>2, <2>4, <2>5
  <2>7. pos'[<<round', 0>>] = 1 /\ round' - 1 = round
    BY <1>0, <1>1, <1>2 DEF body
  <2> QED BY <1>0, <2>1, <2>2, <2>6, <2>7
<1>6. BodiesTakeTurns'
  <2>1. \A s \in Strands : pos'[s] <= CallsOf(s)
    BY <1>0 DEF BodiesTakeTurns
  <2>2. \A r \in 1..Rounds : r # round' => pc'[<<r, 0>>] \in Ended \cup {"unclaimed"}
    BY <1>0, <1>1, <1>3, <1>4 DEF BodiesTakeTurns
  <2>3. \A r \in 1..Rounds : r > round' => r > round /\ r # round + 1
    BY <1>0, <1>1
  <2>4. \A r \in 1..Rounds : r > round' => pc'[<<r, 0>>] = "unclaimed" /\ pos'[<<r, 0>>] = 1
    BY <1>0, <1>1, <1>3, <2>3 DEF BodiesTakeTurns
  <2>5. \A s \in Strands : ~IsBody(s) /\ pc'[s] # "unclaimed" => pc'[<<s[1], 0>>] = "done"
    <3>1. ASSUME NEW s \in Strands, ~IsBody(s), pc'[s] # "unclaimed" PROVE pc'[<<s[1], 0>>] = "done"
      <4>1. s # body
        BY <3>1 DEF IsBody, body
      <4>2. pc[<<s[1], 0>>] = "done" /\ <<s[1], 0>> \in Strands
        BY <1>0, <1>3, <3>1, <4>1, StrandParts DEF BodiesTakeTurns
      <4>3. <<s[1], 0>> # body
        BY <1>2, <4>2
      <4> QED BY <1>3, <4>2, <4>3
    <3> QED BY <3>1
  <2> QED BY <1>5, <2>1, <2>2, <2>4, <2>5 DEF BodiesTakeTurns, CallsOf, IsBody
<1>7. Queue'
  <2>1. \A i \in DOMAIN waiters : waiters[i] \in Strands /\ waiters[i] # body
    BY <1>0, <1>2, ElementOfSeq, LenProperties DEF Queue, TypeOK
  <2> QED BY <1>0, <1>3, <2>1 DEF Queue, Aborted
<1>8. {r \in Strands : pc'[r] \in Holding} = {r \in Strands : pc[r] \in Holding}
  BY <1>2, <1>3 DEF Holding
<1>9. SlotsConserved'
  BY <1>0, <1>8 DEF EngineInv, SlotsConserved
<1> QED BY <1>0, <1>1, <1>3, <1>5, <1>6, <1>7, <1>9 DEF EngineInv, TypeOK, durable

\* The end of a run leaves nobody in the queue.
LEMMA EndKeeps ==
  ASSUME EngineInv, NEW result \in Outcomes, End(result)
  PROVE  EngineInv'
<1>1. /\ UNCHANGED <<durable, open, life, round, leads, pc, pos, attempt, stored, available, late>>
      /\ outcome' = result /\ waiters' = <<>>
  BY DEF End
<1>2. BodiesTakeTurns'
  BY <1>1 DEF EngineInv, BodiesTakeTurns, IsBody, CallsOf
<1>3. Queue' /\ SlotsConserved' /\ waiters' \in Seq(Strands)
  BY <1>1, EmptySeq DEF EngineInv, Queue, SlotsConserved
<1> QED BY <1>1, <1>2, <1>3 DEF EngineInv, TypeOK, durable

\* Nor does a crash, which leaves nobody at all.
LEMMA CrashKeeps ==
  ASSUME EngineInv, Crash
  PROVE  EngineInv'
<1>1. /\ UNCHANGED <<durable, life, round, leads, pos, attempt, stored>>
      /\ outcome' = "crashed" /\ open' = FALSE /\ late' = {} /\ waiters' = <<>> /\ available' = Slots
      /\ pc' = [s \in Strands |-> "unclaimed"]
  BY DEF Crash
<1>2. Slots \in Nat
  BY EngineAssumption DEF EngineAssumption
<1>3. {s \in Strands : pc'[s] \in Holding} = {}
  BY <1>1 DEF Holding
<1>4. SlotsConserved'
  BY <1>1, <1>2, <1>3, FS_EmptySet DEF SlotsConserved
<1>5. \A r \in 1..Rounds : <<r, 0>> \in Strands
  BY EngineAssumption DEF EngineAssumption, Strands
<1>6. BodiesTakeTurns'
  BY <1>1, <1>5 DEF EngineInv, BodiesTakeTurns, CallsOf, IsBody
<1>7. Queue' /\ waiters' \in Seq(Strands)
  BY <1>1, EmptySeq DEF Queue
<1>8. pc' \in [Strands -> Locations] /\ available' \in 0..Slots /\ outcome' \in Outcomes
  BY <1>1, <1>2 DEF Locations, Outcomes
<1> QED BY <1>1, <1>4, <1>6, <1>7, <1>8 DEF EngineInv, TypeOK, durable

\* A fresh run has all its permits.
FreshSemaphore == Queue /\ SlotsConserved

\* All permits of a fresh semaphore are free.
LEMMA FreshSlots == Fresh => FreshSemaphore
<1> SUFFICES ASSUME Fresh PROVE FreshSemaphore
  OBVIOUS
<1>1. {s \in Strands : pc[s] \in Holding} = {}
  BY DEF Fresh, Holding
<1>2. Slots \in Nat
  BY EngineAssumption DEF EngineAssumption
<1>3. Cardinality({s \in Strands : pc[s] \in Holding}) = 0
  BY <1>1, FS_EmptySet
<1> QED BY <1>2, <1>3 DEF Fresh, Queue, SlotsConserved, FreshSemaphore

\* The same of the state a rerun leads to.
LEMMA FreshNext == Fresh' => Started' /\ FreshSemaphore'
BY FreshType, FreshSlots, PTL

\* The steps of the run and of the process around the strands.
LEMMA NextKeeps ==
  ASSUME EngineInv, [Next]_vars
  PROVE  EngineInv'
<1> USE DEF durable, run, limiter
<1>1. CASE \E s \in Strands : StrandStep(s)
  BY <1>1, StrandKeeps
<1>2. CASE NextRound
  BY <1>2, NextRoundKeeps
<1>3. CASE Complete \/ Fail \/ Cancel
  BY <1>3, EndKeeps DEF Complete, Fail, Cancel, Outcomes
<1>4. CASE Close
  BY <1>4, IdleKeeps DEF Close, EngineInv, TypeOK, Kept
<1>5. CASE \E k \in Keys : MarkLate(k)
  <2>1. PICK k \in Keys : MarkLate(k)
    BY <1>5
  <2>2. inflight' \in SUBSET Keys /\ journal' = journal
    BY <2>1 DEF MarkLate, MarkInFlight, EngineInv, TypeOK
  <2> QED BY <2>1, <2>2, IdleKeeps DEF MarkLate, EngineInv, TypeOK, Kept
<1>6. CASE Crash
  BY <1>6, CrashKeeps
<1>7. CASE Rerun
  <2>1. Fresh'
    BY <1>7 DEF Rerun, Fresh
  <2>2. Started' /\ FreshSemaphore'
    BY <2>1, FreshNext
  <2> QED BY <1>7, <2>2, EngineAssumption
          DEF Rerun, EngineInv, TypeOK, Outcomes, EngineAssumption, Started, FreshSemaphore
<1>8. CASE UNCHANGED vars
  BY <1>8, IdleKeeps DEF vars, EngineInv, TypeOK, Kept
<1> QED BY <1>1, <1>2, <1>3, <1>4, <1>5, <1>6, <1>7, <1>8 DEF Next, Program

\* The invariant of the module.
LEMMA EngineInvariant == Spec => []EngineInv
<1>1. Init => EngineInv
  BY FreshType, FreshSlots, EngineAssumption
  DEF Init, EngineInv, TypeOK, EngineAssumption, Outcomes, Started, FreshSemaphore
<1>2. EngineInv /\ [Next]_vars => EngineInv'
  BY NextKeeps
<1> QED BY <1>1, <1>2, PTL DEF Spec

\* The engine's state has its types, for all constants.
THEOREM EngineTypeCorrect == Spec => []TypeOK
<1>1. EngineInv => TypeOK
  BY DEF EngineInv
<1> QED BY <1>1, EngineInvariant, PTL

\* No permit of a run's semaphore is lost or made up, and nobody queues while one
\* is free (Semaphore in engine.ts): the permits handed to a first waiter, given
\* back, dropped at an abort or lost in a crash add up to Slots.
THEOREM PermitsAreConserved == Spec => []SlotsConserved
<1>1. EngineInv => SlotsConserved
  BY DEF EngineInv
<1> QED BY <1>1, EngineInvariant, PTL

(***************************************************************************)
(* The journal                                                             *)
(***************************************************************************)

\* The strands that found no answer in the journal and have not recorded one.
Asking == {"acquire", "waiting", "saving"} \cup Holding

\* The calls they make have no answer in the journal.
Unrecorded == \A s \in Strands : pc[s] \in Asking => journal[KeyOf(s)] = NoPlace

\* No two strands make the same call at a time.
LEMMA KeysDiffer ==
  ASSUME EngineInv, NEW r \in Strands, NEW s \in Strands, r # s,
         pc[r] \in Asking, pc[s] \in Asking
  PROVE  KeyOf(r) # KeyOf(s)
<1>1. r = <<r[1], r[2]>> /\ s = <<s[1], s[2]>> /\ r[1] \in 1..Rounds /\ s[1] \in 1..Rounds
  BY StrandParts
<1>2. IsBody(r) /\ IsBody(s) => r[1] = round /\ s[1] = round
  BY <1>1 DEF EngineInv, BodiesTakeTurns, IsBody, Asking, Ended, Holding
<1>3. ~(IsBody(r) /\ IsBody(s))
  BY <1>1, <1>2 DEF IsBody
<1>4. CASE ~IsBody(r) /\ ~IsBody(s)
  BY <1>1, <1>4 DEF KeyOf
<1>5. CASE IsBody(r) /\ ~IsBody(s)
  BY <1>5 DEF KeyOf, IsBody
<1>6. CASE ~IsBody(r) /\ IsBody(s)
  BY <1>6 DEF KeyOf, IsBody
<1> QED BY <1>3, <1>4, <1>5, <1>6

\* A strand that steps moves itself, and at most passes its permit on.
LEMMA OthersStay ==
  ASSUME EngineInv, NEW s \in Strands, StrandStep(s), NEW r \in Strands, r # s
  PROVE  /\ pc'[r] = pc[r] \/ (pc[r] = "waiting" /\ pc'[r] = "resolving")
         /\ pc[r] \in Asking => KeyOf(r)' = KeyOf(r)
<1>1. pc \in [Strands -> Locations]
  BY DEF EngineInv, TypeOK
<1>2. (\E to : pc' = [pc EXCEPT ![s] = to]) \/ (\E to : Leave(s, to))
  BY DEF StrandStep, Step, Go, Return, Claim, Replay, LookUp, Acquire, Resolve, Consume, Resume,
         Run, Mark, Answer, Throw, Save, SaveFails, Tidy, Abandon, GiveUp
<1>3. UNCHANGED <<leads, pos>> \/ (Return(s) /\ pc[s] \in {"called", "tidying"})
  BY DEF StrandStep, Step, Go, Leave, Claim, Replay, LookUp, Acquire, Resolve, Consume, Resume,
         Run, Mark, Answer, Throw, Save, SaveFails, Tidy, Abandon, GiveUp
<1>4. pc'[r] = pc[r] \/ (pc[r] = "waiting" /\ pc'[r] = "resolving")
  <2>1. CASE \E to : pc' = [pc EXCEPT ![s] = to]
    BY <1>1, <2>1
  <2>2. ASSUME NEW to, Leave(s, to), waiters # <<>> PROVE pc'[r] = pc[r] \/ (pc[r] = "waiting" /\ pc'[r] = "resolving")
    <3>1. pc' = [pc EXCEPT ![s] = to, ![Head(waiters)] = "resolving"]
      BY <2>2 DEF Leave
    <3>2. Head(waiters) = waiters[1] /\ 1 \in DOMAIN waiters
      BY <2>2, EmptySeq, LenProperties DEF EngineInv, TypeOK
    <3>3. pc[Head(waiters)] = "waiting"
      BY <3>2 DEF EngineInv, Queue
    <3> QED BY <1>1, <3>1, <3>3
  <2>3. ASSUME NEW to, Leave(s, to), waiters = <<>> PROVE pc'[r] = pc[r]
    BY <1>1, <2>3 DEF Leave
  <2> QED BY <1>2, <2>1, <2>2, <2>3
<1>5. ASSUME pc[r] \in Asking PROVE KeyOf(r)' = KeyOf(r)
  <2>1. CASE UNCHANGED <<leads, pos>>
    BY <2>1 DEF KeyOf, IsBody
  <2>2. CASE Return(s) /\ pc[s] \in {"called", "tidying"}
    <3>1. IsBody(r) => ~IsBody(s)
      <4>1. r = <<r[1], r[2]>> /\ s = <<s[1], s[2]>> /\ r[1] \in 1..Rounds /\ s[1] \in 1..Rounds
        BY StrandParts
      <4> QED BY <1>5, <2>2, <4>1 DEF EngineInv, BodiesTakeTurns, IsBody, Asking, Ended, Holding
    <3>2. pos'[r] = pos[r] /\ (~IsBody(s) => leads' = leads)
      BY <2>2 DEF Return, EngineInv, TypeOK
    <3> QED BY <3>1, <3>2 DEF KeyOf, IsBody
  <2> QED BY <1>3, <2>1, <2>2
<1> QED BY <1>4, <1>5

\* A strand whose calls go unanswered stays on the same call, and only Save records.
LEMMA CallStays ==
  ASSUME EngineInv, NEW s \in Strands, StrandStep(s)
  PROVE  /\ journal' = journal \/ Save(s)
         /\ pc'[s] \in Asking => /\ pc[s] \in Asking \/ LookUp(s)
                                 /\ UNCHANGED <<leads, pos>> /\ KeyOf(s)' = KeyOf(s)
         /\ Save(s) => pc[s] = "saving" /\ pc'[s] \notin Asking
<1>1. pc \in [Strands -> Locations]
  BY DEF EngineInv, TypeOK
<1>2. journal' = journal \/ Save(s)
  BY DEF StrandStep, Claim, Replay, LookUp, Acquire, Resolve, Consume, Resume, Run, Mark, Answer,
         Throw, SaveFails, Tidy, Abandon, GiveUp, durable, MarkInFlight, ClearInFlight
<1>3. ASSUME Return(s) PROVE pc'[s] \notin Asking
  BY <1>1, <1>3 DEF Return, Asking, Holding
<1>4. UNCHANGED <<leads, pos>> \/ Return(s)
  BY DEF StrandStep, Step, Go, Leave, Claim, Replay, LookUp, Acquire, Resolve, Consume, Resume,
         Run, Mark, Answer, Throw, Save, SaveFails, Tidy, Abandon, GiveUp
<1>5. ASSUME pc'[s] \in Asking, pc[s] \notin Asking PROVE LookUp(s)
  <2>1. \A to : pc' = [pc EXCEPT ![s] = to] => pc'[s] = to
    BY <1>1
  <2>2. ~Claim(s) /\ ~Replay(s) /\ ~Tidy(s)
    BY <1>3, <1>5, <2>1 DEF Claim, Replay, Tidy, Step, Go, Asking, Holding
  <2>3. ~Abandon(s)
    BY <1>5, <2>1 DEF Abandon, Step, Go, Asking, Holding
  <2>4. ~GiveUp(s)
    BY <1>5, <2>1 DEF GiveUp, Step, Go, Asking, Holding
  <2> QED BY <1>5, <2>2, <2>3, <2>4
          DEF StrandStep, Acquire, Resolve, Consume, Resume, Run, Mark, Answer, Throw, Save,
              SaveFails, Step, Go, Asking, Holding, Executing
<1>6. ASSUME Save(s) PROVE pc[s] = "saving" /\ pc'[s] \notin Asking
  BY <1>1, <1>6 DEF Save, Step, Go, Asking, Holding
<1>7. UNCHANGED <<leads, pos>> => KeyOf(s)' = KeyOf(s)
  BY DEF KeyOf, IsBody
<1> QED BY <1>2, <1>3, <1>4, <1>5, <1>6, <1>7

\* A call that asks or executes is not in the journal, by the steps of strands,
LEMMA StrandUnrecorded ==
  ASSUME EngineInv, Unrecorded, NEW s \in Strands, StrandStep(s)
  PROVE  Unrecorded'
<1>1. KeyOf(s) \in Keys /\ journal \in [Keys -> Places \cup {NoPlace}]
  BY KeyIsKey DEF EngineInv, TypeOK
<1>2. ASSUME NEW r \in Strands, r # s, pc'[r] \in Asking PROVE journal'[KeyOf(r)'] = NoPlace
  <2>1. pc[r] \in Asking /\ KeyOf(r)' = KeyOf(r)
    BY <1>2, OthersStay DEF Asking, Holding
  <2>2. journal[KeyOf(r)] = NoPlace
    BY <2>1 DEF Unrecorded
  <2>3. CASE Save(s)
    <3>1. KeyOf(r) # KeyOf(s)
      BY <1>2, <2>1, <2>3, KeysDiffer, CallStays DEF Asking
    <3> QED BY <1>1, <2>1, <2>2, <2>3, <3>1 DEF Save, Set
  <2>4. CASE journal' = journal
    BY <2>1, <2>2, <2>4
  <2> QED BY <2>3, <2>4, CallStays
<1>3. ASSUME pc'[s] \in Asking PROVE journal'[KeyOf(s)'] = NoPlace
  <2>1. journal' = journal /\ KeyOf(s)' = KeyOf(s) /\ (pc[s] \in Asking \/ LookUp(s))
    BY <1>3, CallStays
  <2> QED BY <2>1 DEF Unrecorded, LookUp, Recorded
<1> QED BY <1>2, <1>3 DEF Unrecorded

\* The steps that are not a strand's: nobody starts asking, and who does keeps its call.
LEMMA OtherSteps ==
  ASSUME EngineInv,
         \/ NextRound \/ Complete \/ Fail \/ Cancel \/ Close \/ Crash \/ Rerun
         \/ (\E k \in Keys : MarkLate(k)) \/ UNCHANGED vars
  PROVE  /\ journal' = journal
         /\ \A r \in Strands : pc'[r] \in Asking => pc'[r] = pc[r] /\ KeyOf(r)' = KeyOf(r)
         /\ Crash \/ Rerun \/ \A r \in Strands : pc[r] \in Asking => pc'[r] = pc[r]
<1> USE DEF durable, run, limiter
<1>1. CASE NextRound
  <2>1. /\ journal' = journal /\ pos' = pos /\ pc' = [pc EXCEPT ![<<round + 1, 0>>] = "called"]
        /\ pc \in [Strands -> Locations] /\ BodiesTakeTurns /\ RoundFailed
    BY <1>1 DEF NextRound, EngineInv, TypeOK
  <2>2. \A r \in Strands : pc'[r] \in Asking => pc'[r] = pc[r]
    BY <2>1 DEF Asking, Holding
  <2>3. \A r \in Strands : pc[r] \in Asking => ~IsBody(r)
    <3>1. round \in 1..Rounds /\ \A b \in 0..Branches : <<round, b>> \in Strands
      BY DEF EngineInv, TypeOK, Strands
    <3>2. PICK b \in 0..Branches : pc[<<round, b>>] = "failed"
      BY <2>1 DEF RoundFailed
    <3>3. ~IsBody(<<round, b>>) => pc[<<round, 0>>] = "done"
      BY <2>1, <3>1, <3>2 DEF BodiesTakeTurns
    <3>4. pc[<<round, 0>>] \in Ended
      BY <3>2, <3>3 DEF Ended, IsBody
    <3> QED BY <2>1, <3>4, StrandParts DEF BodiesTakeTurns, IsBody, Ended, Asking, Holding
  <2>4. \A r \in Strands : ~IsBody(r) => KeyOf(r)' = KeyOf(r)
    BY <2>1 DEF KeyOf, IsBody
  <2>5. round + 1 \in 1..Rounds
    BY <1>1, EngineAssumption DEF NextRound, EngineInv, TypeOK, EngineAssumption
  <2>6. pc[<<round + 1, 0>>] = "unclaimed"
    BY <2>1, <2>5 DEF BodiesTakeTurns, EngineInv, TypeOK
  <2>7. \A r \in Strands : pc[r] \in Asking => pc'[r] = pc[r]
    BY <2>1, <2>6 DEF Asking, Holding
  <2> QED BY <2>1, <2>2, <2>3, <2>4, <2>7
<1>2. CASE Crash
  BY <1>2 DEF Crash, Asking, Holding
<1>3. CASE Rerun
  BY <1>3 DEF Rerun, Asking, Holding
<1>4. CASE UNCHANGED <<journal, leads, pc, pos>>
  BY <1>4 DEF KeyOf, IsBody
<1> QED BY <1>1, <1>2, <1>3, <1>4 DEF Complete, Fail, Cancel, End, Close, MarkLate, MarkInFlight, vars

\* ... by all steps,
LEMMA NextUnrecorded ==
  ASSUME EngineInv, Unrecorded, [Next]_vars
  PROVE  Unrecorded'
<1>1. CASE \E s \in Strands : StrandStep(s)
  BY <1>1, StrandUnrecorded
<1>2. CASE ~(\E s \in Strands : StrandStep(s))
  BY <1>2, OtherSteps DEF Next, Program, Unrecorded
<1> QED BY <1>1, <1>2

\* ... and so in every behaviour.
LEMMA UnrecordedInvariant == Spec => []Unrecorded
<1>1. Init => Unrecorded
  BY DEF Init, Fresh, Unrecorded, Asking, Holding
<1>2. EngineInv /\ Unrecorded /\ [Next]_vars => Unrecorded'
  BY NextUnrecorded
<1> QED BY <1>1, <1>2, EngineInvariant, PTL DEF Spec

\* A key of the shared builder says which call of the body it is when there is one
\* call, or one round: then the count of the calls so far is the place.
OneWay == Leads = 1 \/ Rounds = 1
AnswerOf(k) == IF k[2] # 0 THEN <<k[2], k[3]>> ELSE <<0, IF Leads = 1 THEN 1 ELSE k[3]>>
JournalOwn ==
  /\ \A k \in Keys : journal[k] # NoPlace => journal[k] = AnswerOf(k)
  /\ Rounds = 1 => leads = pos[<<1, 0>>]

\* When the body counts its calls in one way, a key tells the place of its call.
LEMMA OwnPlace ==
  ASSUME OneWay, EngineInv, JournalOwn, NEW s \in Strands
  PROVE  PlaceOf(s) = AnswerOf(KeyOf(s))
<1>1. s = <<s[1], s[2]>> /\ s[1] \in 1..Rounds /\ pos[s] \in Nat \ {0} /\ pos[s] <= CallsOf(s)
  <2>1. pos[s] \in 1..(Leads + Length) /\ pos[s] <= CallsOf(s)
    BY DEF EngineInv, TypeOK, BodiesTakeTurns
  <2>2. Leads + Length \in Nat
    BY EngineAssumption DEF EngineAssumption
  <2>3. pos[s] \in Nat \ {0}
    BY <2>1, <2>2
  <2> QED BY <2>1, <2>3, StrandParts
<1>2. CASE ~IsBody(s)
  BY <1>2 DEF IsBody, KeyOf, PlaceOf, AnswerOf
<1>3. CASE IsBody(s) /\ Leads = 1
  <2>1. pos[s] = 1
    BY <1>1, <1>3 DEF CallsOf
  <2> QED BY <1>3, <2>1 DEF IsBody, KeyOf, PlaceOf, AnswerOf
<1>4. CASE IsBody(s) /\ Leads # 1
  <2>1. Rounds = 1 /\ s = <<1, 0>>
    BY <1>1, <1>4 DEF OneWay, IsBody
  <2>2. leads = pos[s]
    BY <2>1 DEF JournalOwn
  <2> QED BY <1>4, <2>1, <2>2 DEF IsBody, KeyOf, PlaceOf, AnswerOf
<1> QED BY <1>2, <1>3, <1>4

\* What is recorded under a key is the answer of its place.
LEMMA NextOwn ==
  ASSUME OneWay, EngineInv, JournalOwn, [Next]_vars
  PROVE  JournalOwn'
<1>0. journal \in [Keys -> Places \cup {NoPlace}] /\ pos \in [Strands -> 1..(Leads + Length)]
  BY DEF EngineInv, TypeOK
<1>1. ASSUME NEW k \in Keys, journal'[k] # NoPlace PROVE journal'[k] = AnswerOf(k)
  <2>1. CASE \E s \in Strands : Save(s)
    <3>1. PICK s \in Strands : Save(s)
      BY <2>1
    <3>2. PlaceOf(s) = AnswerOf(KeyOf(s))
      BY OwnPlace
    <3> QED BY <1>0, <1>1, <3>1, <3>2 DEF Save, Set, JournalOwn
  <2>2. CASE journal' = journal
    BY <1>1, <2>2 DEF JournalOwn
  <2> QED BY <2>1, <2>2, CallStays, OtherSteps DEF Next, Program
<1>2. ASSUME Rounds = 1 PROVE leads' = pos'[<<1, 0>>]
  <2>1. /\ leads = pos[<<1, 0>>] /\ <<1, 0>> \in Strands /\ round = 1
        /\ \A s \in Strands : IsBody(s) => s = <<1, 0>>
    BY <1>2, StrandParts, EngineAssumption
    DEF JournalOwn, EngineInv, TypeOK, Strands, IsBody, EngineAssumption
  <2>2. CASE \E s \in Strands : Return(s)
    <3>1. PICK s \in Strands : Return(s)
      BY <2>2
    <3> QED BY <1>0, <2>1, <3>1 DEF Return, IsBody
  <2>3. CASE UNCHANGED <<leads, pos>>
    BY <2>1, <2>3
  <2>4. CASE Rerun
    BY <2>1, <2>4 DEF Rerun
  <2>5. ~NextRound
    BY <1>2, <2>1 DEF NextRound
  <2> QED BY <2>2, <2>3, <2>4, <2>5
          DEF Next, Program, StrandStep, Step, Leave, Claim, Replay, LookUp, Acquire, Resolve,
              Consume, Resume, Run, Mark, Answer, Throw, Save, SaveFails, Tidy, Abandon, GiveUp,
              Complete, Fail, Cancel, End, Close, MarkLate, Crash, vars
<1> QED BY <1>1, <1>2 DEF JournalOwn, AnswerOf

\* An answer found in the journal is that of the call that looks it up, whatever the
\* number of branches, calls, retries and restarts (key generation of
\* createWorkflowBuilder), as long as the body makes one call or is tried once: the
\* retried body of more calls goes on counting where the failed attempt stopped,
\* and a rerun counts differently when less fails in it.
THEOREM AnswersAreOwn ==
  ASSUME OneWay
  PROVE  Spec => []OwnAnswers
<1>1. Init => JournalOwn
  <2>1. Rounds = 1 => <<1, 0>> \in Strands
    BY EngineAssumption DEF EngineAssumption, Strands
  <2> QED BY <2>1 DEF Init, Fresh, JournalOwn
<1>2. EngineInv /\ JournalOwn /\ [Next]_vars => JournalOwn'
  BY NextOwn
<1>3. EngineInv /\ JournalOwn => OwnAnswers
  BY OwnPlace, KeyIsKey DEF OwnAnswers, EngineInv, JournalOwn
<1> QED BY <1>1, <1>2, <1>3, EngineInvariant, PTL DEF Spec

(***************************************************************************)
(* The abstract calls                                                      *)
(***************************************************************************)

Working == Executing \cup {"saving"}

\* What a key's abstract state says of the strands, each way.
CallFacts ==
  /\ \A s \in Strands : pc[s] \in Executing => CallState[KeyOf(s)] = "executing"
  /\ \A s \in Strands : pc[s] = "saving" => CallState[KeyOf(s)] = "answered"
  /\ \A k \in Keys : (\A s \in Strands : pc[s] \in Working => KeyOf(s) # k) =>
                       CallState[k] = IF journal[k] # NoPlace THEN "recorded" ELSE "idle"
  /\ CallState = [k \in Keys |-> CallState[k]]

\* What the abstract state of a call says of the strands that are at it,
LEMMA CallsAreStrands == EngineInv => CallFacts
<1> SUFFICES ASSUME EngineInv PROVE CallFacts
  OBVIOUS
<1>1. ASSUME NEW s \in Strands PROVE KeyOf(s) \in Keys
  BY KeyIsKey DEF EngineInv
<1>2. ASSUME NEW s \in Strands, pc[s] \in Executing PROVE CallState[KeyOf(s)] = "executing"
  BY <1>1, <1>2 DEF CallState, KeysAt
<1>3. ASSUME NEW s \in Strands, pc[s] = "saving" PROVE CallState[KeyOf(s)] = "answered"
  <2>1. ASSUME NEW r \in Strands, pc[r] \in Executing PROVE KeyOf(r) # KeyOf(s)
    BY <1>3, <2>1, KeysDiffer DEF Asking, Executing, Holding
  <2> QED BY <1>1, <1>3, <2>1 DEF CallState, KeysAt
<1>4. ASSUME NEW k \in Keys, \A s \in Strands : pc[s] \in Working => KeyOf(s) # k
      PROVE  CallState[k] = IF journal[k] # NoPlace THEN "recorded" ELSE "idle"
  <2>1. ~(\E s \in Strands : pc[s] \in Executing /\ KeyOf(s) = k)
    BY <1>4 DEF Working
  <2>2. ~(\E s \in Strands : pc[s] = "saving" /\ KeyOf(s) = k)
    BY <1>4 DEF Working
  <2> QED BY <2>1, <2>2 DEF CallState, KeysAt
<1>5. CallState = [k \in Keys |-> CallState[k]]
  BY DEF CallState
<1> QED BY <1>2, <1>3, <1>4, <1>5 DEF CallFacts

\* ... before and after a step.
LEMMA CallsAreStrandsNext == EngineInv' => CallFacts'
BY CallsAreStrands, PTL

\* Calls no strand of M is at keep their abstract state.
LEMMA CallsStay ==
  ASSUME CallFacts, CallFacts', NEW k \in Keys, journal'[k] = journal[k],
         \A r \in Strands : pc[r] \in Working /\ KeyOf(r) = k =>
                              /\ KeyOf(r)' = k
                              /\ pc'[r] = pc[r] \/ (pc[r] \in Executing /\ pc'[r] \in Executing),
         \A r \in Strands : pc'[r] \in Working /\ KeyOf(r)' = k => pc[r] \in Working /\ KeyOf(r) = k
  PROVE  CallState'[k] = CallState[k]
<1>1. CASE \E r \in Strands : pc[r] \in Working /\ KeyOf(r) = k
  <2>1. PICK r \in Strands : pc[r] \in Working /\ KeyOf(r) = k
    BY <1>1
  <2>2. KeyOf(r)' = k /\ (pc'[r] = pc[r] \/ (pc[r] \in Executing /\ pc'[r] \in Executing))
    BY <2>1
  <2> QED BY <2>1, <2>2 DEF CallFacts, Working
<1>2. CASE ~(\E r \in Strands : pc[r] \in Working /\ KeyOf(r) = k)
  BY <1>2 DEF CallFacts
<1> QED BY <1>1, <1>2

\* The abstract module counts as this one does.
LEMMA SameCardinality == \A S : Abstract!Cardinality(S) = Cardinality(S)
BY DEF Cardinality, Abstract!Cardinality

\* While a strand has a permit and is not executing, fewer calls execute than Slots.
LEMMA SlotLeft ==
  ASSUME EngineInv, CallFacts, NEW s \in Strands, pc[s] \in Holding \ Executing
  PROVE  Cardinality(Abstract!Busy) < Slots
<1> DEFINE E == {r \in Strands : pc[r] \in Executing}
<1> DEFINE f == [r \in E |-> KeyOf(r)]
<1> HIDE DEF f
<1>1. Abstract!Busy = {k \in Keys : CallState[k] = "executing"}
  BY DEF Abstract!Busy
<1>2. \A r \in E : KeyOf(r) \in Abstract!Busy
  BY <1>1, KeyIsKey DEF CallFacts, EngineInv
<1>3. \A k \in Abstract!Busy : \E r \in E : KeyOf(r) = k
  <2>1. ASSUME NEW k \in Keys, CallState[k] = "executing" PROVE \E r \in E : KeyOf(r) = k
    <3>1. PICK r \in Strands : pc[r] \in Working /\ KeyOf(r) = k
      BY <2>1 DEF CallFacts
    <3>2. pc[r] # "saving"
      BY <2>1, <3>1 DEF CallFacts
    <3> QED BY <3>1, <3>2 DEF Working
  <2> QED BY <1>1, <2>1
<1>4. f \in Surjection(E, Abstract!Busy)
  BY <1>2, <1>3 DEF Surjection, f
<1>5. /\ IsFiniteSet(E) /\ Cardinality(E) \in Nat /\ IsFiniteSet(Holders) /\ Cardinality(Holders) \in Nat
  BY HoldersAreFinite DEF Holders
<1>6. IsFiniteSet(Abstract!Busy) /\ Cardinality(Abstract!Busy) <= Cardinality(E)
  <2> HIDE DEF E
  <2> QED BY <1>4, <1>5, FS_Surjection
<1>7. E \in SUBSET Holders /\ E # Holders
  BY DEF Holders, Executing, Holding
<1>8. Cardinality(E) < Cardinality(Holders)
  <2> HIDE DEF E
  <2>1. Cardinality(E) <= Cardinality(Holders) /\ Cardinality(E) # Cardinality(Holders)
    BY <1>5, <1>7, FS_Subset
  <2> QED BY <1>5, <2>1
<1>9. available \in Nat /\ Slots \in Nat /\ available + Cardinality(Holders) = Slots
  BY EngineAssumption DEF EngineInv, TypeOK, SlotsConserved, Holders, EngineAssumption
<1>10. Cardinality(Abstract!Busy) \in Nat
  BY <1>6, FS_CardinalityType
<1> QED BY <1>5, <1>6, <1>8, <1>9, <1>10

\* What a strand's step does to the state of its call.
LEMMA StrandKinds ==
  ASSUME EngineInv, NEW s \in Strands, StrandStep(s)
  PROVE  /\ \/ pc[s] \notin Working /\ pc'[s] \notin Working /\ journal' = journal
            \/ pc[s] \in Executing /\ pc'[s] \in Executing /\ journal' = journal
            \/ pc[s] \in Holding \ Executing /\ pc'[s] \in Executing /\ journal' = journal
            \/ pc[s] \in Executing /\ pc'[s] = "saving" /\ journal' = journal
            \/ pc[s] = "saving" /\ pc'[s] \notin Working /\ Save(s)
            \/ pc[s] \in Working /\ pc'[s] \notin Working /\ journal' = journal
         /\ pc[s] \in Working \/ pc'[s] \in Working => KeyOf(s)' = KeyOf(s)
<1>1. pc \in [Strands -> Locations] /\ \A to : pc' = [pc EXCEPT ![s] = to] => pc'[s] = to
  BY DEF EngineInv, TypeOK
<1>2. UNCHANGED <<leads, pos>> => KeyOf(s)' = KeyOf(s)
  BY DEF KeyOf, IsBody
<1>3. ASSUME NEW to, pc[s] \in Holding, Leave(s, to) PROVE pc'[s] = to /\ UNCHANGED <<leads, pos>>
  <2>1. CASE waiters = <<>>
    BY <1>1, <1>3, <2>1 DEF Leave
  <2>2. CASE waiters # <<>>
    <3>1. Head(waiters) = waiters[1] /\ 1 \in DOMAIN waiters
      BY <2>2, EmptySeq, LenProperties DEF EngineInv, TypeOK
    <3>2. Head(waiters) # s
      BY <1>3, <3>1 DEF EngineInv, Queue, Holding
    <3> QED BY <1>1, <1>3, <2>2, <3>2 DEF Leave
  <2> QED BY <2>1, <2>2
<1>4. CASE Claim(s) \/ LookUp(s) \/ Acquire(s) \/ Resolve(s) \/ Consume(s) \/ GiveUp(s)
  BY <1>1, <1>2, <1>4
  DEF Claim, LookUp, Acquire, Resolve, Consume, GiveUp, Step, Go, Working, Executing, durable,
      ClearInFlight
<1>5. CASE Replay(s) \/ Tidy(s)
  BY <1>1, <1>5 DEF Replay, Tidy, Return, Working, Executing, durable, ClearInFlight
<1>6. CASE Resume(s) \/ Run(s)
  BY <1>1, <1>2, <1>6 DEF Resume, Run, Step, Go, Executing, Holding, durable
<1>7. CASE Mark(s)
  BY <1>1, <1>2, <1>7 DEF Mark, Step, Go, Executing, durable, MarkInFlight
<1>8. CASE Answer(s)
  <2>1. pc[s] \in Holding /\ Leave(s, "saving") /\ journal' = journal /\ pc[s] \in Executing
    BY <1>8 DEF Answer, Executing, Holding, durable
  <2> QED BY <1>2, <1>3, <2>1
<1>9. CASE Throw(s)
  <2>1. pc[s] \in Holding /\ Leave(s, Failing(s)) /\ journal' = journal
    BY <1>9 DEF Throw, Executing, Holding, durable
  <2>2. Failing(s) \notin Working
    BY DEF Failing, Working, Executing
  <2> QED BY <1>2, <1>3, <2>1, <2>2
<1>10. CASE Save(s)
  BY <1>1, <1>2, <1>10 DEF Save, Step, Go, Working, Executing
<1>11. CASE SaveFails(s)
  BY <1>1, <1>2, <1>11 DEF SaveFails, Step, Go, Working, Executing, Failing, durable
<1>12. CASE Abandon(s)
  <2>1. journal' = journal /\ "giving-up" \notin Working /\ "cancelled" \notin Working
    BY <1>12 DEF Abandon, durable, Working, Executing
  <2>2. CASE pc[s] \in Holding /\ Leave(s, "giving-up")
    BY <1>2, <1>3, <2>1, <2>2
  <2>3. CASE ~(pc[s] \in Holding /\ Leave(s, "giving-up"))
    BY <1>1, <1>2, <1>12, <2>1, <2>3 DEF Abandon, Step, Go, Working, Executing
  <2> QED BY <2>2, <2>3
<1> QED BY <1>4, <1>5, <1>6, <1>7, <1>8, <1>9, <1>10, <1>11, <1>12 DEF StrandStep

\* A strand's step is a step of the abstract calls, or none.
LEMMA StrandImplements ==
  ASSUME EngineInv, Unrecorded, EngineInv', NEW s \in Strands, StrandStep(s)
  PROVE  Abstract!Next \/ CallState' = CallState
<1> DEFINE c == KeyOf(s)
<1>0. CallFacts /\ CallFacts'
  BY CallsAreStrands, CallsAreStrandsNext
<1>1. c \in Keys /\ PlaceOf(s) # NoPlace /\ journal \in [Keys -> Places \cup {NoPlace}]
  <2>1. pos[s] # 0
    BY EngineAssumption DEF EngineInv, TypeOK, EngineAssumption
  <2> QED BY <2>1, KeyIsKey DEF EngineInv, TypeOK, PlaceOf, NoPlace
<1>2. /\ \A k \in Keys : CallState[k] \in Abstract!States
      /\ CallState = [k \in Keys |-> CallState[k]] /\ CallState' = [k \in Keys |-> CallState'[k]]
  BY <1>0 DEF CallFacts, CallState, Abstract!States
<1>3. \A r \in Strands \ {s} : pc[r] \in Working \/ pc'[r] \in Working =>
                                 pc'[r] = pc[r] /\ KeyOf(r)' = KeyOf(r)
  BY OthersStay DEF Working, Executing, Asking, Holding
<1>4. ASSUME pc[s] \in Asking
      PROVE  \A r \in Strands \ {s} : pc[r] \in Working \/ pc'[r] \in Working => KeyOf(r) # c /\ KeyOf(r)' # c
  BY <1>3, <1>4, KeysDiffer DEF Asking, Working, Executing, Holding
<1>5. ASSUME KeyOf(s)' = c, \A k \in Keys \ {c} : journal'[k] = journal[k]
      PROVE  \A k \in Keys \ {c} : CallState'[k] = CallState[k]
  BY <1>0, <1>3, <1>5, CallsStay
<1> HIDE DEF c
<1>6. CASE pc[s] \notin Working /\ pc'[s] \notin Working /\ journal' = journal
  <2>1. \A k \in Keys : CallState'[k] = CallState[k]
    BY <1>0, <1>3, <1>6, CallsStay
  <2> QED BY <1>2, <2>1
<1>7. CASE pc[s] \in Executing /\ pc'[s] \in Executing /\ journal' = journal
  <2>1. KeyOf(s)' = KeyOf(s)
    BY <1>7, StrandKinds DEF Working
  <2>2. \A r \in Strands : pc[r] \in Working \/ pc'[r] \in Working =>
                             /\ KeyOf(r)' = KeyOf(r) /\ pc[r] \in Working
                             /\ pc'[r] = pc[r] \/ (pc[r] \in Executing /\ pc'[r] \in Executing)
    BY <1>3, <1>7, <2>1 DEF Working
  <2>3. \A k \in Keys : CallState'[k] = CallState[k]
    BY <1>0, <1>7, <2>2, CallsStay
  <2> QED BY <1>2, <2>3
<1>8. CASE pc[s] \in Holding \ Executing /\ pc'[s] \in Executing /\ journal' = journal
  <2>1. KeyOf(s)' = c /\ pc[s] \in Asking /\ pc[s] \notin Working
    BY <1>8, StrandKinds DEF Working, c, Asking, Holding
  <2>2. CallState[c] = "idle"
    BY <1>0, <1>1, <1>4, <2>1 DEF CallFacts, Unrecorded, c
  <2>3. CallState'[c] = "executing"
    BY <1>0, <1>8, <2>1 DEF CallFacts
  <2>4. CallState' = [CallState EXCEPT ![c] = "executing"]
    BY <1>1, <1>2, <1>5, <1>8, <2>1, <2>3
  <2>5. Cardinality(Abstract!Busy) < Slots
    BY <1>0, <1>8, SlotLeft
  <2>6. Abstract!Execute(c)
    BY <2>2, <2>4, <2>5, SameCardinality DEF Abstract!Execute, Abstract!Move
  <2> QED BY <1>1, <2>6 DEF Abstract!Next
<1>9. CASE pc[s] \in Executing /\ pc'[s] = "saving" /\ journal' = journal
  <2>1. KeyOf(s)' = c
    BY <1>9, StrandKinds DEF Working, c
  <2>2. CallState[c] = "executing" /\ CallState'[c] = "answered"
    BY <1>0, <1>9, <2>1 DEF CallFacts, c
  <2>3. CallState' = [CallState EXCEPT ![c] = "answered"]
    BY <1>1, <1>2, <1>5, <1>9, <2>1, <2>2
  <2> QED BY <1>1, <2>2, <2>3 DEF Abstract!Next, Abstract!Answer, Abstract!Move
<1>10. CASE pc[s] = "saving" /\ pc'[s] \notin Working /\ Save(s)
  <2>1. KeyOf(s)' = c /\ pc[s] \in Asking
    BY <1>10, StrandKinds DEF Working, c, Asking
  <2>2. journal'[c] # NoPlace /\ \A k \in Keys \ {c} : journal'[k] = journal[k]
    BY <1>1, <1>10 DEF Save, Set, c
  <2>3. CallState[c] = "answered"
    BY <1>0, <1>10 DEF CallFacts, c
  <2>4. CallState'[c] = "recorded"
    BY <1>0, <1>1, <1>4, <1>10, <2>1, <2>2 DEF CallFacts
  <2>5. CallState' = [CallState EXCEPT ![c] = "recorded"]
    BY <1>1, <1>2, <1>5, <2>1, <2>2, <2>4
  <2> QED BY <1>1, <2>3, <2>5 DEF Abstract!Next, Abstract!Record, Abstract!Move
<1>11. CASE pc[s] \in Working /\ pc'[s] \notin Working /\ journal' = journal
  <2>1. KeyOf(s)' = c /\ pc[s] \in Asking
    BY <1>11, StrandKinds DEF Working, c, Asking, Executing, Holding
  <2>2. CallState[c] \in {"executing", "answered"}
    BY <1>0, <1>11 DEF CallFacts, c, Working
  <2>3. CallState'[c] = "idle"
    BY <1>0, <1>1, <1>4, <1>11, <2>1 DEF CallFacts, Unrecorded, c
  <2>4. CallState' = [k \in Keys |-> IF k \in {c} THEN "idle" ELSE CallState[k]]
    BY <1>1, <1>2, <1>5, <1>11, <2>1, <2>3
  <2>5. Abstract!Interrupt
    BY <1>1, <2>2, <2>4 DEF Abstract!Interrupt
  <2> QED BY <2>5 DEF Abstract!Next
<1> QED BY <1>6, <1>7, <1>8, <1>9, <1>10, <1>11, StrandKinds

\* So are the other steps: a crash or a rerun forgets what was not recorded.
LEMMA OthersImplement ==
  ASSUME EngineInv, Unrecorded, EngineInv',
         \/ NextRound \/ Complete \/ Fail \/ Cancel \/ Close \/ Crash \/ Rerun
         \/ (\E k \in Keys : MarkLate(k)) \/ UNCHANGED vars
  PROVE  Abstract!Next \/ CallState' = CallState
<1>0. CallFacts /\ CallFacts'
  BY CallsAreStrands, CallsAreStrandsNext
<1>1. /\ journal' = journal
      /\ \A r \in Strands : pc'[r] \in Working => pc'[r] = pc[r] /\ KeyOf(r)' = KeyOf(r)
      /\ Crash \/ Rerun \/ \A r \in Strands : pc[r] \in Working => pc'[r] = pc[r]
  BY OtherSteps DEF Asking, Working, Executing, Holding
<1>2. CallState = [k \in Keys |-> CallState[k]] /\ CallState' = [k \in Keys |-> CallState'[k]]
  BY <1>0 DEF CallFacts
<1>3. CASE ~(Crash \/ Rerun)
  <2>1. \A r \in Strands : pc[r] \in Working => pc'[r] = pc[r]
    BY <1>1, <1>3
  <2>2. \A k \in Keys : CallState'[k] = CallState[k]
    BY <1>0, <1>1, <2>1, CallsStay
  <2> QED BY <1>2, <2>2
<1>4. CASE Crash \/ Rerun
  <2> DEFINE S == {k \in Keys : CallState[k] \in {"executing", "answered"}}
  <2>1. \A r \in Strands : pc'[r] \notin Working
    BY <1>4 DEF Crash, Rerun, Working, Executing
  <2>2. \A k \in Keys : CallState'[k] = IF journal[k] # NoPlace THEN "recorded" ELSE "idle"
    BY <1>0, <1>1, <2>1 DEF CallFacts
  <2>3. ASSUME NEW k \in Keys PROVE CallState'[k] = IF k \in S THEN "idle" ELSE CallState[k]
    <3>1. CASE \E r \in Strands : pc[r] \in Working /\ KeyOf(r) = k
      <4>1. PICK r \in Strands : pc[r] \in Working /\ KeyOf(r) = k
        BY <3>1
      <4>2. journal[k] = NoPlace
        BY <4>1 DEF Unrecorded, Asking, Working, Executing, Holding
      <4>3. k \in S
        BY <1>0, <4>1 DEF CallFacts, Working
      <4> QED BY <2>2, <4>2, <4>3
    <3>2. CASE ~(\E r \in Strands : pc[r] \in Working /\ KeyOf(r) = k)
      <4>1. CallState[k] = IF journal[k] # NoPlace THEN "recorded" ELSE "idle"
        BY <1>0, <3>2 DEF CallFacts
      <4> QED BY <2>2, <4>1
    <3> QED BY <3>1, <3>2
  <2>4. CallState' = [k \in Keys |-> IF k \in S THEN "idle" ELSE CallState[k]]
    BY <1>2, <2>3
  <2>5. Abstract!Interrupt
    <3>1. S \in SUBSET {k \in Keys : CallState[k] \in {"executing", "answered"}}
      OBVIOUS
    <3> HIDE DEF S
    <3> QED BY <2>4, <3>1 DEF Abstract!Interrupt
  <2> QED BY <2>5 DEF Abstract!Next
<1> QED BY <1>3, <1>4

\* The engine implements the abstract journal of calls, for all constants: whatever
\* interrupts a run and however often it is executed again, a call is made once at a
\* time, on one of Slots, and a recorded one never again (agentCall in engine.ts).
THEOREM EngineImplementsCalls == Spec => Implements
<1>1. Init => Abstract!Init
  <2>1. ASSUME Init PROVE \A k \in Keys : CallState[k] = "idle"
    BY <2>1 DEF Init, Fresh, CallState, KeysAt, Executing
  <2>2. CallState = [k \in Keys |-> CallState[k]]
    BY DEF CallState
  <2> QED BY <2>1, <2>2 DEF Abstract!Init
<1>2. EngineInv /\ Unrecorded /\ EngineInv' /\ [Next]_vars => [Abstract!Next]_CallState
  BY StrandImplements, OthersImplement DEF Next, Program
<1> QED BY <1>1, <1>2, EngineInvariant, UnrecordedInvariant, PTL DEF Spec, Implements, Abstract!Spec

================================================================================
