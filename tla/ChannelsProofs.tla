--------------------------- MODULE ChannelsProofs ---------------------------
(***************************************************************************)
(* What holds of questions and replies in one conversation, for any        *)
(* questions, replies and deliveries, whatever fails and restarts.         *)
(***************************************************************************)
EXTENDS Channels, FiniteSetTheorems, SequenceTheorems, TLAPS

(***************************************************************************)
(* The inductive invariant                                                 *)
(***************************************************************************)

Statuses == {"none", "open", "resolved", "dismissed"}
Stages == {"none", "due", "sent", "done", "failed"}
Works == {"new", "apply", "report", "chat", "close", "ended"}
Attempts == [at : Stages, tries : 0 .. MaxAttempts, again : BOOLEAN]
Writings == [quotes : 0 .. MaxMessages, names : {None} \cup Questions, sent : BOOLEAN]
Handlings == [at : Works, question : {None} \cup Questions]

\* Faults and restarts so far.
Spent == MaxFaults - left

\* A question that was not asked, was not replayed or is to be sent is owed a message.
Owed(q) == record[q] = "none" \/ q \in boot \/ delivery[q].at = "due"

\* A question that is shown has a last message, and one that was sent is shown.
HasLast(q) ==
  /\ Shown(q) # {} => \E m \in Shown(q) : \A n \in Shown(q) : n <= m
  /\ delivery[q].at = "sent" => Shown(q) # {}

\* Only a question that is in the store is replayed or sent, and only once for each fault.
Budget(q) ==
  /\ q \in boot => record[q] # "none"
  /\ delivery[q].at \in {"due", "sent"} => q \notin boot /\ record[q] # "none"
  /\ delivery[q].at = "due" => delivery[q].tries < MaxAttempts
  /\ Cardinality(Shown(q)) + (IF Owed(q) THEN 1 ELSE 0) <= 1 + Spent

\* A reply acted once for each fault, and once more while the daemon knows of it.
ActsOnce(r) == effects[r] <= Spent + (IF r \in processing \cup processed THEN 1 ELSE 0)

\* The types, without the bound of the conversation
Typed ==
  /\ record \in [Questions -> Statuses]
  /\ asker \in [Asked -> {"no", "asking", "answered", "gave up"}]
  /\ chat \in Seq(Questions)
  /\ correlation \in [Messages -> {"none", "active", "inactive"}]
  /\ \A m \in Messages : correlation[m] # "none" => m <= Len(chat)
  /\ delivery \in [Questions -> Attempts]
  /\ completed \subseteq Questions /\ boot \subseteq Questions
  /\ written \in [Replies -> Writings]
  /\ handling \in [Deliveries -> Handlings]
  /\ processing \subseteq Replies /\ seen \subseteq processed /\ processed \subseteq Replies
  /\ effects \in [Replies -> Nat]
  /\ left \in 0 .. MaxFaults

ChatInv == \A q \in Questions : HasLast(q) /\ Budget(q)
ReplyInv == \A r \in Replies : ActsOnce(r)
(***************************************************************************)
(* The conversation                                                        *)
(***************************************************************************)

\* The constants' bounds are numbers.
LEMMA Bounds ==
  /\ IsFiniteSet(Questions) /\ Cardinality(Questions) \in Nat
  /\ MaxMessages \in Nat /\ MaxAttempts \in Nat /\ 0 < MaxAttempts /\ MaxFaults \in Nat
<1>1. IsFiniteSet(Questions)
  BY ChannelsAssumption, FS_AddElement DEF ChannelsAssumption, Questions
<1>2. Cardinality(Questions) \in Nat
  BY <1>1, FS_CardinalityType
<1>3. \A a, b \in Nat : a * (1 + b) \in Nat
  OBVIOUS
<1> QED BY <1>1, <1>2, <1>3, ChannelsAssumption DEF ChannelsAssumption, MaxMessages

\* The messages that show a question are a finite set of places.
LEMMA ShownIsFinite ==
  ASSUME chat \in Seq(Questions), NEW q
  PROVE  /\ Shown(q) \subseteq 1 .. Len(chat) /\ Len(chat) \in Nat
         /\ IsFiniteSet(Shown(q)) /\ Cardinality(Shown(q)) \in Nat
<1>1. Len(chat) \in Nat
  BY LenProperties
<1>2. IsFiniteSet(1 .. Len(chat)) /\ Shown(q) \in SUBSET (1 .. Len(chat))
  BY <1>1, FS_Interval DEF Shown
<1>3. IsFiniteSet(Shown(q))
  BY <1>2, FS_Subset
<1> QED BY <1>1, <1>2, <1>3, FS_CardinalityType

\* A message that is shown is one more of its question, and of no other.
LEMMA ShownAppends ==
  ASSUME chat \in Seq(Questions), NEW q \in Questions, chat' = Append(chat, q)
  PROVE  /\ chat' \in Seq(Questions) /\ Len(chat') = Len(chat) + 1
         /\ Shown(q)' = Shown(q) \cup {Len(chat) + 1}
         /\ Cardinality(Shown(q)') = Cardinality(Shown(q)) + 1
         /\ \A p \in Questions : p # q => Shown(p)' = Shown(p)
<1>1. /\ Len(chat) \in Nat /\ chat' \in Seq(Questions) /\ Len(chat') = Len(chat) + 1
      /\ \A i \in 1 .. Len(chat) : chat'[i] = chat[i]
      /\ chat'[Len(chat) + 1] = q
  BY LenProperties, AppendProperties
<1>2. 1 .. Len(chat') = (1 .. Len(chat)) \cup {Len(chat) + 1}
  BY <1>1
<1>3. Shown(q)' = Shown(q) \cup {Len(chat) + 1}
  BY <1>1, <1>2 DEF Shown
<1>4. \A p \in Questions : p # q => Shown(p)' = Shown(p)
  BY <1>1, <1>2 DEF Shown
<1>5. Cardinality(Shown(q) \cup {Len(chat) + 1}) = Cardinality(Shown(q)) + 1
  <2>1. IsFiniteSet(Shown(q)) /\ Len(chat) + 1 \notin Shown(q)
    BY <1>1, ShownIsFinite
  <2> QED BY <2>1, FS_AddElement
<1> QED BY <1>1, <1>3, <1>4, <1>5

\* A conversation with at most n messages of each question is bounded: a message is told
\* from the others by its question and by how many show it up to there.
LEMMA ConversationIsBounded ==
  ASSUME chat \in Seq(Questions), NEW n \in Nat,
         \A q \in Questions : Cardinality(Shown(q)) <= n
  PROVE  Len(chat) <= Cardinality(Questions) * n
<1> DEFINE upto(m) == {k \in Shown(chat[m]) : k <= m}
           f == [m \in 1 .. Len(chat) |-> <<chat[m], Cardinality(upto(m))>>]
           T == Questions \X (1 .. n)
<1>1. /\ Len(chat) \in Nat
      /\ \A m \in 1 .. Len(chat) : chat[m] \in Questions
  BY LenProperties, ElementOfSeq
<1>2. ASSUME NEW m \in 1 .. Len(chat)
      PROVE  /\ IsFiniteSet(upto(m)) /\ Cardinality(upto(m)) \in 1 .. n
  <2>1. /\ IsFiniteSet(Shown(chat[m])) /\ Cardinality(Shown(chat[m])) <= n
        /\ upto(m) \in SUBSET Shown(chat[m])
    BY <1>1, ShownIsFinite
  <2>2. IsFiniteSet(upto(m)) /\ Cardinality(upto(m)) <= Cardinality(Shown(chat[m]))
    <3> HIDE DEF upto
    <3> QED BY <2>1, FS_Subset
  <2>3. upto(m) # {}
    BY <1>1 DEF Shown
  <2>4. Cardinality(upto(m)) # 0 /\ Cardinality(upto(m)) \in Nat
    <3> HIDE DEF upto
    <3> QED BY <2>2, <2>3, FS_EmptySet, FS_CardinalityType
  <2>5. Cardinality(Shown(chat[m])) \in Nat
    BY <2>1, FS_CardinalityType
  <2> HIDE DEF upto
  <2> QED BY <2>1, <2>2, <2>4, <2>5
<1>3. ASSUME NEW m \in 1 .. Len(chat), NEW k \in 1 .. Len(chat), m < k, chat[m] = chat[k]
      PROVE  Cardinality(upto(m)) # Cardinality(upto(k))
  <2>1. upto(m) \in SUBSET upto(k) /\ k \in upto(k) /\ k \notin upto(m)
    BY <1>1, <1>3 DEF Shown
  <2>2. IsFiniteSet(upto(k)) /\ (Cardinality(upto(k)) = Cardinality(upto(m)) => upto(k) = upto(m))
    <3> HIDE DEF upto
    <3> QED BY <1>2, <2>1, FS_Subset
  <2> HIDE DEF upto
  <2> QED BY <2>1, <2>2
<1>4. f \in [1 .. Len(chat) -> T]
  <2> HIDE DEF upto
  <2> QED BY <1>1, <1>2
<1>5. \A m, k \in 1 .. Len(chat) : f[m] = f[k] => m = k
  <2> SUFFICES ASSUME NEW m \in 1 .. Len(chat), NEW k \in 1 .. Len(chat), f[m] = f[k], m # k
               PROVE  FALSE
    OBVIOUS
  <2>1. chat[m] = chat[k] /\ Cardinality(upto(m)) = Cardinality(upto(k))
    <3>1. <<chat[m], Cardinality(upto(m))>> = <<chat[k], Cardinality(upto(k))>>
      <4> HIDE DEF upto
      <4> QED OBVIOUS
    <3> HIDE DEF upto
    <3> QED BY <3>1
  <2>2. m < k \/ k < m
    BY <1>1
  <2> QED BY <1>3, <2>1, <2>2
<1>6. f \in Injection(1 .. Len(chat), T)
  <2> HIDE DEF f, T
  <2> QED BY <1>4, <1>5 DEF Injection, IsInjective
<1>7. IsFiniteSet(T) /\ Cardinality(T) = Cardinality(Questions) * n
  <2>1. IsFiniteSet(1 .. n) /\ Cardinality(1 .. n) = n
    BY FS_Interval
  <2> QED BY <2>1, Bounds, FS_Product
<1>8. Cardinality(1 .. Len(chat)) <= Cardinality(T)
  <2> HIDE DEF f, T
  <2> QED BY <1>6, <1>7, FS_Injection
<1>9. Cardinality(1 .. Len(chat)) = Len(chat)
  <2>1. Len(chat) \in Int /\ 1 \in Int
    BY <1>1
  <2>2. Cardinality(1 .. Len(chat)) = IF 1 > Len(chat) THEN 0 ELSE Len(chat) - 1 + 1
    BY <2>1, FS_Interval
  <2> QED BY <1>1, <2>2
<1> HIDE DEF T
<1> QED BY <1>7, <1>8, <1>9

\* The bound of the model is one of the code: no more is sent than is asked and goes wrong.
LEMMA ChatIsBounded ==
  ASSUME Typed, ChatInv
  PROVE  Len(chat) \in Nat /\ Len(chat) <= MaxMessages
<1>1. chat \in Seq(Questions) /\ left \in 0 .. MaxFaults
  BY DEF Typed
<1>2. \A q \in Questions : Cardinality(Shown(q)) <= 1 + MaxFaults
  <2> TAKE q \in Questions
  <2>1. Cardinality(Shown(q)) + (IF Owed(q) THEN 1 ELSE 0) <= 1 + Spent
    BY DEF ChatInv, Budget
  <2>2. Cardinality(Shown(q)) \in Nat
    BY <1>1, ShownIsFinite
  <2> QED BY <1>1, <2>1, <2>2, Bounds DEF Spent
<1>3. 1 + MaxFaults \in Nat
  BY Bounds
<1>4. Len(chat) <= Cardinality(Questions) * (1 + MaxFaults)
  BY <1>1, <1>2, <1>3, ConversationIsBounded
<1> QED BY <1>1, <1>4, LenProperties DEF MaxMessages

(***************************************************************************)
(* The types                                                               *)
(***************************************************************************)

\* What a delivery goes through is of its type,
LEMMA AttemptIsChanged ==
  ASSUME NEW d \in Attempts, NEW at \in Stages
  PROVE  /\ [d EXCEPT !.at = at] \in Attempts
         /\ \A t \in 0 .. MaxAttempts : [d EXCEPT !.at = at, !.tries = t] \in Attempts
         /\ \A again \in BOOLEAN : [d EXCEPT !.at = at, !.again = again] \in Attempts
  BY DEF Attempts

\* What becomes of a delivery is one.
LEMMA AttemptIsTyped ==
  ASSUME NEW d \in Attempts
  PROVE  /\ [d EXCEPT !.at = "done"] \in Attempts
         /\ d.tries < MaxAttempts =>
              /\ [d EXCEPT !.at = "sent", !.tries = @ + 1] \in Attempts
              /\ [d EXCEPT !.at = Backoff(d.tries + 1), !.tries = @ + 1] \in Attempts
         /\ [d EXCEPT !.at = Backoff(d.tries)] \in Attempts
<1>1. d.tries \in 0 .. MaxAttempts /\ (d.tries < MaxAttempts => d.tries + 1 \in 0 .. MaxAttempts)
  BY Bounds DEF Attempts
<1>2. \A t : Backoff(t) \in Stages
  BY DEF Backoff, Stages
<1>3. "done" \in Stages /\ "sent" \in Stages
  BY DEF Stages
<1> QED BY <1>1, <1>2, <1>3, AttemptIsChanged

\* ... from the notification on.
LEMMA NotifiedIsTyped ==
  ASSUME NEW q, NEW again \in BOOLEAN
  PROVE  Idle \in Attempts /\ Notified(q, again) \in Attempts
<1>1. Idle \in Attempts
  BY Bounds DEF Attempts, Stages, Idle
<1>2. "done" \in Stages /\ "due" \in Stages
  BY DEF Stages
<1>3. [Idle EXCEPT !.at = "done"] \in Attempts
  BY <1>1, <1>2, AttemptIsChanged
<1>4. [Idle EXCEPT !.at = "due", !.again = again] \in Attempts
  BY <1>1, <1>2, AttemptIsChanged
<1> QED BY <1>1, <1>3, <1>4 DEF Notified

\* A question that is created is open and may be sent.
LEMMA CreatedIsTyped ==
  ASSUME Typed, NEW q \in Questions, Created(q)
  PROVE  record' \in [Questions -> Statuses] /\ delivery' \in [Questions -> Attempts]
<1>1. record \in [Questions -> Statuses] /\ delivery \in [Questions -> Attempts]
  BY DEF Typed
<1>2. Notified(q, FALSE) \in Attempts
  BY NotifiedIsTyped
<1> QED BY <1>1, <1>2 DEF Created, SaveIntervention, Statuses

\* A reply is routed to a question, or to none.
LEMMA RouteIsTyped ==
  ASSUME Typed, NEW w \in Contents
  PROVE  w \in [quotes : 0 .. Len(chat), names : {None} \cup Questions, sent : BOOLEAN]
         /\ w.sent /\ Route(w) \in {None} \cup Questions
<1>1. /\ chat \in Seq(Questions) /\ Len(chat) \in Nat
      /\ \A m \in 1 .. Len(chat) : chat[m] \in Questions
  BY LenProperties, ElementOfSeq DEF Typed
<1>2. w \in [quotes : 0 .. Len(chat), names : {None} \cup Questions, sent : BOOLEAN] /\ w.sent
  <2>1. CASE \E m \in 0 .. Len(chat) : w = [quotes |-> m, names |-> None, sent |-> TRUE]
    BY <2>1
  <2>2. CASE \E m \in 1 .. Len(chat) : w = [quotes |-> 0, names |-> chat[m], sent |-> TRUE]
    <3>1. PICK m \in 1 .. Len(chat) : w = [quotes |-> 0, names |-> chat[m], sent |-> TRUE]
      BY <2>2
    <3>2. chat[m] \in Questions /\ 0 \in 0 .. Len(chat)
      BY <1>1
    <3> QED BY <3>1, <3>2
  <2> QED BY <2>1, <2>2 DEF Contents
<1>3. Active(w.quotes) => chat[w.quotes] \in Questions
  BY <1>1, <1>2 DEF Active
<1>4. Pending \subseteq Questions /\ (Cardinality(Pending) = 1 => Pending # {})
  BY FS_EmptySet DEF Pending
<1>5. Cardinality(Pending) = 1 => (CHOOSE q \in Pending : TRUE) \in Questions
  <2> SUFFICES ASSUME Pending # {} PROVE (CHOOSE q \in Pending : TRUE) \in Pending
    BY <1>4
  <2> QED OBVIOUS
<1> QED BY <1>2, <1>3, <1>4, <1>5 DEF Route

\* A step of a delivery keeps the types.
LEMMA DeliveryIsTyped ==
  ASSUME Typed, ChatInv, NEW q \in Questions, Delivery(q)
  PROVE  Typed'
<1> USE DEF store, notices, inbound
<1>1. /\ chat \in Seq(Questions) /\ delivery[q] \in Attempts /\ left \in 0 .. MaxFaults
      /\ delivery \in [Questions -> Attempts]
      /\ correlation \in [Messages -> {"none", "active", "inactive"}]
      /\ Len(chat) \in Nat /\ Len(chat) <= MaxMessages
      /\ \A m \in Messages : correlation[m] # "none" => m <= Len(chat)
      /\ delivery[q].at = "due" => delivery[q].tries < MaxAttempts
  BY ChatIsBounded DEF Typed, ChatInv, Budget
<1>2. Fault => left' \in 0 .. MaxFaults
  BY <1>1, Bounds DEF Fault
<1>3. CASE Send(q)
  <2>1. delivery' \in [Questions -> Attempts]
    <3>1. delivery' = [delivery EXCEPT ![q] = [delivery[q] EXCEPT !.at = "sent", !.tries = @ + 1]]
      BY <1>1, <1>3 DEF Send
    <3> QED BY <1>1, <1>3, <3>1, AttemptIsTyped DEF Send
  <2>2. chat' \in Seq(Questions) /\ Len(chat') = Len(chat) + 1
    BY <1>1, <1>3, ShownAppends DEF Send
  <2>3. \A m \in Messages : correlation'[m] # "none" => m <= Len(chat')
    BY <1>1, <1>3, <2>2 DEF Send, Messages
  <2> QED BY <1>3, <2>1, <2>2, <2>3 DEF Send, Typed, Messages
<1>4. CASE SendFails(q)
  <2>1. delivery' \in [Questions -> Attempts]
    <3> DEFINE d == [delivery[q] EXCEPT !.at = Backoff(delivery[q].tries + 1), !.tries = @ + 1]
    <3>1. delivery' = [delivery EXCEPT ![q] = d]
      BY <1>1, <1>4 DEF SendFails
    <3>2. d \in Attempts
      BY <1>1, <1>4, AttemptIsTyped DEF SendFails
    <3> HIDE DEF d
    <3> QED BY <1>1, <3>1, <3>2
  <2> QED BY <1>2, <1>4, <2>1 DEF SendFails, Typed, Messages
<1>5. CASE SendIsLost(q)
  <2>1. delivery' \in [Questions -> Attempts]
    <3> DEFINE d == [delivery[q] EXCEPT !.at = Backoff(delivery[q].tries)]
    <3>1. delivery' = [delivery EXCEPT ![q] = d]
      BY <1>1, <1>5 DEF SendIsLost
    <3>2. d \in Attempts
      BY <1>1, AttemptIsTyped
    <3> HIDE DEF d
    <3> QED BY <1>1, <3>1, <3>2
  <2> QED BY <1>2, <1>5, <2>1 DEF SendIsLost, Typed, Messages
<1>6. CASE SendReturns(q)
  <2>1. delivery' \in [Questions -> Attempts]
    <3>1. delivery' = [delivery EXCEPT ![q] = [delivery[q] EXCEPT !.at = "done"]]
      BY <1>1, <1>6 DEF SendReturns
    <3> QED BY <1>1, <3>1, AttemptIsTyped
  <2>2. Last(q) \in 1 .. Len(chat)
    <3>1. \E m \in Shown(q) : \A n \in Shown(q) : n <= m
      BY <1>6 DEF ChatInv, HasLast, SendReturns
    <3>2. Last(q) \in Shown(q)
      BY <3>1 DEF Last
    <3> QED BY <3>2 DEF Shown
  <2>3. correlation' = [correlation EXCEPT ![Last(q)] = "active"]
    BY <1>6 DEF SendReturns, SaveCorrelation
  <2>4. /\ correlation' \in [Messages -> {"none", "active", "inactive"}]
        /\ \A m \in Messages : correlation'[m] # "none" => m <= Len(chat)
    <3> DEFINE m == Last(q)
    <3>1. m \in 1 .. Len(chat) /\ correlation' = [correlation EXCEPT ![m] = "active"]
      BY <2>2, <2>3
    <3> HIDE DEF m
    <3>2. correlation' \in [Messages -> {"none", "active", "inactive"}]
      BY <1>1, <3>1
    <3>3. \A k \in Messages : correlation'[k] # "none" => k = m \/ correlation[k] # "none"
      BY <1>1, <3>1
    <3> QED BY <1>1, <3>1, <3>2, <3>3
  <2>5. completed' \subseteq Questions
    BY <1>6 DEF SendReturns, Typed
  <2> QED BY <1>6, <2>1, <2>4, <2>5 DEF SendReturns, Typed, Messages
<1>7. CASE Replay(q)
  <2>1. delivery' \in [Questions -> Attempts]
    BY <1>1, <1>7, NotifiedIsTyped DEF Replay
  <2> QED BY <1>7, <2>1 DEF Replay, Typed, Messages
<1> QED BY <1>3, <1>4, <1>5, <1>6, <1>7 DEF Delivery

\* A step of a question keeps them,
LEMMA QuestionIsTyped ==
  ASSUME Typed, NEW q \in Questions, AskHuman(q) \/ Asking(q) \/ AnswerElsewhere(q)
  PROVE  Typed'
<1> USE DEF store, notices, inbound
<1>1. /\ record \in [Questions -> Statuses]
      /\ asker \in [Asked -> {"no", "asking", "answered", "gave up"}]
  BY DEF Typed
<1>2. CASE AskHuman(q)
  <2>1. record' \in [Questions -> Statuses] /\ delivery' \in [Questions -> Attempts]
    BY <1>2, CreatedIsTyped DEF AskHuman
  <2>2. asker' \in [Asked -> {"no", "asking", "answered", "gave up"}]
    BY <1>1, <1>2 DEF AskHuman
  <2> QED BY <1>2, <2>1, <2>2 DEF AskHuman, Typed, Messages
<1>3. CASE Asking(q)
  <2>1. asker' \in [Asked -> {"no", "asking", "answered", "gave up"}]
    BY <1>1, <1>3 DEF Asking, Poll, Expire
  <2> QED BY <1>3, <2>1 DEF Asking, Poll, Expire, Typed, Messages
<1>4. CASE AnswerElsewhere(q)
  <2>1. record' \in [Questions -> Statuses]
    BY <1>1, <1>4 DEF AnswerElsewhere, SaveIntervention, Statuses
  <2> QED BY <1>4, <2>1 DEF AnswerElsewhere, Typed, Messages
<1> QED BY <1>2, <1>3, <1>4

\* ... and a step of a reply,
LEMMA HandlingIsTyped ==
  ASSUME Typed, NEW r, NEW c, <<r, c>> \in Deliveries, Handling(r, c)
  PROVE  Typed'
<1> USE DEF store, notices, inbound
<1>1. handling \in [Deliveries -> Handlings] /\ left \in 0 .. MaxFaults /\ r \in Replies
  BY ChannelsAssumption DEF Typed, ChannelsAssumption
<1>2. ASSUME NEW at \in Works, Goes(r, c, at)
      PROVE  handling' \in [Deliveries -> Handlings]
  <2>1. [handling[<<r, c>>] EXCEPT !.at = at] \in Handlings
    BY <1>1 DEF Handlings
  <2>2. handling' = [handling EXCEPT ![<<r, c>>] = [handling[<<r, c>>] EXCEPT !.at = at]]
    BY <1>2 DEF Goes
  <2> QED BY <1>1, <2>1, <2>2
<1>3. "close" \in Works /\ "report" \in Works /\ "ended" \in Works
  BY DEF Works
<1>4. CASE Apply(r, c) \/ Reported(r, c) \/ Chat(r, c)
  <2>1. handling' \in [Deliveries -> Handlings]
    BY <1>2, <1>3, <1>4 DEF Apply, Reported, Chat
  <2> QED BY <1>4, <2>1 DEF Apply, Reported, Chat, Typed, Messages
<1>5. CASE ApplyFails(r, c)
  <2>1. handling' \in [Deliveries -> Handlings]
    BY <1>2, <1>3, <1>5 DEF ApplyFails
  <2>2. Control \in Questions
    BY DEF Questions
  <2>3. record' \in [Questions -> Statuses] /\ delivery' \in [Questions -> Attempts]
    BY <1>5, <2>2, CreatedIsTyped DEF ApplyFails
  <2>4. left' \in 0 .. MaxFaults
    BY <1>1, <1>5, Bounds DEF ApplyFails, Fault
  <2> QED BY <1>5, <2>1, <2>3, <2>4 DEF ApplyFails, Typed, Messages
<1>6. CASE Close(r, c)
  <2>1. handling' \in [Deliveries -> Handlings]
    BY <1>2, <1>3, <1>6 DEF Close
  <2>2. /\ correlation' \in [Messages -> {"none", "active", "inactive"}]
        /\ \A m \in Messages : correlation'[m] # "none" => m <= Len(chat)
    <3>1. ASSUME NEW q
          PROVE  /\ Deactivated(q) \in [Messages -> {"none", "active", "inactive"}]
                 /\ \A m \in Messages : Deactivated(q)[m] # "none" => correlation[m] # "none"
      BY DEF Deactivated, Typed
    <3>2. correlation' = correlation \/ correlation' = Deactivated(handling[<<r, c>>].question)
      BY <1>6 DEF Close
    <3> QED BY <3>1, <3>2 DEF Typed
  <2>3. /\ processing' \subseteq Replies /\ seen' \subseteq processed' /\ processed' \subseteq Replies
    BY <1>1, <1>6 DEF Close, SaveReceipt, Released, Typed
  <2> QED BY <1>6, <2>1, <2>2, <2>3 DEF Close, Typed, Messages
<1> QED BY <1>4, <1>5, <1>6 DEF Handling

\* ... and the delivery of one,
LEMMA ReceiveIsTyped ==
  ASSUME Typed, ChatInv, NEW r, NEW c, <<r, c>> \in Deliveries, Receive(r, c)
  PROVE  Typed'
<1> USE DEF store, notices, inbound
<1>1. /\ handling \in [Deliveries -> Handlings] /\ effects \in [Replies -> Nat] /\ r \in Replies
      /\ record \in [Questions -> Statuses] /\ written \in [Replies -> Writings]
      /\ Len(chat) \in Nat /\ Len(chat) <= MaxMessages
  BY ChannelsAssumption, ChatIsBounded DEF Typed, ChannelsAssumption
<1>2. PICK w \in Contents :
        /\ written' = [written EXCEPT ![r] = w]
        /\ IF Known(r)
           THEN /\ handling' = [handling EXCEPT ![<<r, c>>].at = "ended"]
                /\ UNCHANGED <<record, processing, effects>>
           ELSE /\ processing' = processing \cup {r}
                /\ LET q == Route(w)
                       throws == q # None /\ record[q] = "dismissed"
                       at == IF q = None THEN "chat" ELSE IF throws THEN "close" ELSE "apply"
                   IN /\ handling' = [handling EXCEPT ![<<r, c>>] = [at |-> at, question |-> q]]
                      /\ effects' = IF throws THEN effects ELSE [effects EXCEPT ![r] = @ + 1]
                      /\ IF q = None THEN UNCHANGED record ELSE Resolve(q)
  BY <1>1 DEF Receive
<1>3. w \in Writings /\ Route(w) \in {None} \cup Questions
  <2>1. 0 .. Len(chat) \subseteq 0 .. MaxMessages
    BY <1>1, Bounds
  <2>2. /\ w \in [quotes : 0 .. Len(chat), names : {None} \cup Questions, sent : BOOLEAN]
        /\ Route(w) \in {None} \cup Questions
    BY RouteIsTyped
  <2> QED BY <2>1, <2>2 DEF Writings
<1>4. written' \in [Replies -> Writings]
  BY <1>1, <1>2, <1>3
<1>5. CASE Known(r)
  <2>1. handling' = [handling EXCEPT ![<<r, c>>] = [handling[<<r, c>>] EXCEPT !.at = "ended"]]
    BY <1>2, <1>5
  <2>2. [handling[<<r, c>>] EXCEPT !.at = "ended"] \in Handlings
    BY <1>1 DEF Handlings, Works
  <2>3. handling' \in [Deliveries -> Handlings]
    BY <1>1, <2>1, <2>2
  <2> QED BY <1>2, <1>4, <1>5, <2>3 DEF Receive, Typed, Messages
<1>6. CASE ~ Known(r)
  <2> DEFINE q == Route(w)
  <2>1. PICK at \in {"chat", "close", "apply"} :
          handling' = [handling EXCEPT ![<<r, c>>] = [at |-> at, question |-> q]]
    BY <1>2, <1>6
  <2>2. handling' \in [Deliveries -> Handlings]
    <3>1. [at |-> at, question |-> q] \in Handlings
      BY <1>3 DEF Handlings, Works
    <3> HIDE DEF q
    <3> QED BY <1>1, <2>1, <3>1
  <2>3. effects' \in [Replies -> Nat]
    <3>1. effects' = effects \/ effects' = [effects EXCEPT ![r] = @ + 1]
      BY <1>2, <1>6
    <3>2. effects[r] + 1 \in Nat
      BY <1>1
    <3> QED BY <1>1, <3>1, <3>2
  <2>4. record' \in [Questions -> Statuses]
    BY <1>1, <1>2, <1>3, <1>6 DEF Resolve, SaveIntervention, Statuses
  <2>5. processing' \subseteq Replies
    BY <1>1, <1>2, <1>6 DEF Typed
  <2> QED BY <1>4, <2>2, <2>3, <2>4, <2>5 DEF Receive, Typed, Messages
<1> QED BY <1>5, <1>6

\* ... and a restart.
LEMMA RestartIsTyped ==
  ASSUME Typed, Restart
  PROVE  Typed'
<1> USE DEF store, notices, inbound
<1>1. left' \in 0 .. MaxFaults
  <2>1. left \in 0 .. MaxFaults /\ left > 0 /\ left' = left - 1
    BY DEF Typed, Restart, Fault
  <2> QED BY <2>1, Bounds
<1>2. delivery' \in [Questions -> Attempts]
  BY NotifiedIsTyped DEF Restart
<1>3. asker' \in [Asked -> {"no", "asking", "answered", "gave up"}]
  BY DEF Restart, Typed
<1>4. handling' \in [Deliveries -> Handlings]
  <2>1. Unread \in Handlings
    BY DEF Unread, Handlings, Works
  <2> QED BY <2>1 DEF Restart, Typed
<1>5. boot' \subseteq Questions
  BY DEF Restart, OpenQuestions
<1> QED BY <1>1, <1>2, <1>3, <1>4, <1>5 DEF Restart, Typed, Messages

(***************************************************************************)
(* How often a question is sent and a reply acts                           *)
(***************************************************************************)

\* What a question is owed is a number, and so is what was spent.
LEMMA Numbers ==
  ASSUME Typed, NEW q
  PROVE  /\ Spent \in Nat /\ left \in Nat /\ (Fault => Spent' = Spent + 1)
         /\ (left' = left => Spent' = Spent)
         /\ Cardinality(Shown(q)) \in Nat
<1>1. left \in 0 .. MaxFaults /\ chat \in Seq(Questions)
  BY DEF Typed
<1> QED BY <1>1, Bounds, ShownIsFinite DEF Spent, Fault

\* A question nothing is done to keeps its budget,
LEMMA BudgetIsKept ==
  ASSUME Typed, NEW q, HasLast(q), Budget(q),
         chat' = chat, record'[q] = "none" <=> record[q] = "none", q \in boot' => q \in boot,
         delivery'[q] = delivery[q] \/ delivery'[q].at \notin {"due", "sent"},
         left' = left \/ Fault
  PROVE  HasLast(q)' /\ Budget(q)'
<1>1. Shown(q)' = Shown(q)
  BY DEF Shown
<1>2. HasLast(q)'
  BY <1>1 DEF HasLast
<1>3. Owed(q)' => Owed(q)
  BY DEF Owed
<1>4. Spent' \in Nat /\ Spent <= Spent' /\ Spent \in Nat /\ Cardinality(Shown(q)) \in Nat
  BY Numbers
<1>5. Cardinality(Shown(q)') + (IF Owed(q)' THEN 1 ELSE 0) <= 1 + Spent'
  BY <1>1, <1>3, <1>4 DEF Budget
<1> QED BY <1>2, <1>5 DEF Budget

\* ... and one that is created is sent for the first time.
LEMMA CreatedKeeps ==
  ASSUME Typed, ChatInv, NEW p \in Questions, Created(p), chat' = chat, boot' = boot,
         left' = left \/ Fault
  PROVE  ChatInv'
<1> SUFFICES ASSUME NEW q \in Questions PROVE HasLast(q)' /\ Budget(q)'
  BY DEF ChatInv
<1>1. /\ HasLast(q) /\ Budget(q) /\ record \in [Questions -> Statuses]
      /\ delivery \in [Questions -> Attempts] /\ 0 < MaxAttempts
  BY Bounds DEF ChatInv, Typed
<1>2. CASE record[p] # "none" \/ q # p
  <2>1. record'[q] = record[q] /\ delivery'[q] = delivery[q]
    BY <1>1, <1>2 DEF Created, SaveIntervention
  <2> QED BY <1>1, <2>1, BudgetIsKept
<1>3. CASE record[p] = "none" /\ q = p
  <2>1. record'[q] = "open" /\ delivery'[q] = Notified(q, FALSE)
    BY <1>1, <1>3 DEF Created, SaveIntervention
  <2>2. delivery'[q].at \in {"due", "done"} /\ delivery'[q].tries = 0
    BY <2>1 DEF Notified, Idle
  <2>3. Shown(q)' = Shown(q) /\ q \notin boot' /\ Owed(q)
    BY <1>1, <1>3 DEF Shown, Budget, Owed
  <2>4. HasLast(q)'
    BY <1>1, <2>2, <2>3 DEF HasLast
  <2>5. Spent' \in Nat /\ Spent <= Spent' /\ Spent \in Nat /\ Cardinality(Shown(q)) \in Nat
    BY Numbers
  <2>6. Cardinality(Shown(q)') + (IF Owed(q)' THEN 1 ELSE 0) <= 1 + Spent'
    BY <1>1, <2>3, <2>5 DEF Budget
  <2>7. delivery'[q].tries < MaxAttempts /\ record'[q] # "none"
    BY <1>1, <2>1, <2>2
  <2> QED BY <2>3, <2>4, <2>6, <2>7 DEF Budget
<1> QED BY <1>2, <1>3

\* A delivery sends what is owed, and again only for a fault.
LEMMA DeliveryKeeps ==
  ASSUME Typed, ChatInv, NEW p \in Questions, Delivery(p)
  PROVE  ChatInv'
<1> USE DEF store, notices, inbound
<1> SUFFICES ASSUME NEW q \in Questions PROVE HasLast(q)' /\ Budget(q)'
  BY DEF ChatInv
<1>1. /\ HasLast(q) /\ Budget(q) /\ delivery \in [Questions -> Attempts]
      /\ chat \in Seq(Questions) /\ delivery[q].tries \in Nat /\ Len(chat) \in Nat
      /\ Shown(q) \subseteq 1 .. Len(chat)
  <2>1. /\ HasLast(q) /\ Budget(q) /\ delivery \in [Questions -> Attempts]
        /\ chat \in Seq(Questions)
    BY DEF ChatInv, Typed
  <2>2. delivery[q].tries \in 0 .. MaxAttempts
    BY <2>1 DEF Attempts
  <2> QED BY <2>1, <2>2, ShownIsFinite, Bounds
<1>2. /\ Spent \in Nat /\ (Fault => Spent' = Spent + 1) /\ (left' = left => Spent' = Spent)
      /\ Cardinality(Shown(q)) \in Nat
  BY Numbers
<1>3. CASE q # p
  <2>1. delivery'[q] = delivery[q] /\ record' = record /\ (q \in boot' => q \in boot)
        /\ (left' = left \/ Fault)
    BY <1>1, <1>3 DEF Delivery, Send, SendFails, SendIsLost, SendReturns, Replay
  <2>2. CASE chat' = chat
    BY <1>1, <2>1, <2>2, BudgetIsKept
  <2>3. CASE Send(p)
    <3>1. Shown(q)' = Shown(q)
      BY <1>1, <1>3, <2>3, ShownAppends DEF Send
    <3>2. left' = left /\ boot' = boot
      BY <2>3 DEF Send
    <3> QED BY <1>1, <1>2, <2>1, <3>1, <3>2 DEF HasLast, Budget, Owed
  <2> QED BY <2>2, <2>3 DEF Delivery, SendFails, SendIsLost, SendReturns, Replay
<1>4. CASE q = p /\ Send(q)
  <2>1. /\ Shown(q)' = Shown(q) \cup {Len(chat) + 1}
        /\ Cardinality(Shown(q)') = Cardinality(Shown(q)) + 1
    BY <1>1, <1>4, ShownAppends DEF Send
  <2>2. /\ delivery[q].at = "due" /\ delivery'[q].at = "sent"
        /\ boot' = boot /\ record' = record /\ Spent' = Spent
    BY <1>1, <1>2, <1>4 DEF Send
  <2>3. HasLast(q)'
    <3>1. \A n \in Shown(q)' : n <= Len(chat) + 1
      BY <1>1, <2>1
    <3> QED BY <2>1, <3>1 DEF HasLast
  <2>4. Owed(q) /\ ~ Owed(q)'
    BY <1>1, <2>2 DEF Owed, Budget
  <2>5. Cardinality(Shown(q)') + (IF Owed(q)' THEN 1 ELSE 0) <= 1 + Spent'
    BY <1>1, <1>2, <2>1, <2>2, <2>4 DEF Budget
  <2> QED BY <1>1, <2>2, <2>3, <2>5 DEF Budget
<1>5. CASE q = p /\ (SendFails(q) \/ SendIsLost(q))
  <2>1. /\ chat' = chat /\ record' = record /\ boot' = boot /\ Spent' = Spent + 1
        /\ delivery'[q].at \in {"due", "failed"} /\ record[q] # "none" /\ q \notin boot
        /\ delivery'[q].at = "due" => delivery'[q].tries < MaxAttempts
    <3>1. CASE SendFails(q)
      <4>1. delivery'[q].at = Backoff(delivery[q].tries + 1) /\ delivery'[q].tries = delivery[q].tries + 1
        BY <1>1, <3>1 DEF SendFails, Attempts
      <4> QED BY <1>1, <1>2, <3>1, <4>1 DEF SendFails, Budget, Backoff
    <3>2. CASE SendIsLost(q)
      <4>1. delivery'[q].at = Backoff(delivery[q].tries) /\ delivery'[q].tries = delivery[q].tries
        BY <1>1, <3>2 DEF SendIsLost, Attempts
      <4>2. record[q] # "none" /\ q \notin boot
        BY <1>1, <3>2 DEF SendIsLost, Budget
      <4> QED BY <1>1, <1>2, <3>2, <4>1, <4>2 DEF SendIsLost, Budget, Backoff
    <3> QED BY <1>5, <3>1, <3>2
  <2>2. Shown(q)' = Shown(q)
    BY <2>1 DEF Shown
  <2>3. HasLast(q)'
    BY <1>1, <2>1, <2>2 DEF HasLast
  <2>4. Cardinality(Shown(q)') + (IF Owed(q)' THEN 1 ELSE 0) <= 1 + Spent'
    BY <1>1, <1>2, <2>1, <2>2 DEF Budget
  <2> QED BY <2>1, <2>3, <2>4 DEF Budget
<1>6. CASE q = p /\ SendReturns(q)
  <2>1. chat' = chat /\ record' = record /\ boot' = boot /\ left' = left /\ delivery'[q].at = "done"
    BY <1>1, <1>6 DEF SendReturns, Attempts
  <2> QED BY <1>1, <2>1, BudgetIsKept
<1>7. CASE q = p /\ Replay(q)
  <2>1. /\ chat' = chat /\ record' = record /\ q \in boot /\ q \notin boot' /\ Spent' = Spent
        /\ delivery'[q] = Notified(q, TRUE)
    BY <1>1, <1>2, <1>7 DEF Replay
  <2>2. delivery'[q].at = "due" /\ delivery'[q].tries = 0
    BY <2>1 DEF Notified, Idle
  <2>3. Shown(q)' = Shown(q) /\ record[q] # "none" /\ Owed(q)
    BY <1>1, <2>1 DEF Shown, Budget, Owed
  <2>4. HasLast(q)'
    BY <1>1, <2>2, <2>3 DEF HasLast
  <2>5. Cardinality(Shown(q)') + (IF Owed(q)' THEN 1 ELSE 0) <= 1 + Spent'
    BY <1>1, <1>2, <2>1, <2>3 DEF Budget
  <2>6. delivery'[q].tries < MaxAttempts /\ record'[q] # "none"
    BY <2>1, <2>2, <2>3, Bounds
  <2> QED BY <2>1, <2>4, <2>5, <2>6 DEF Budget
<1> QED BY <1>3, <1>4, <1>5, <1>6, <1>7 DEF Delivery

\* What is answered was asked, and a restart owes a message of what is open.
LEMMA ChatIsKept ==
  ASSUME Typed, ChatInv, [Next]_vars
  PROVE  ChatInv'
<1> USE DEF store, notices, inbound
<1>1. record \in [Questions -> Statuses] /\ Control \in Questions
  BY DEF Typed, Questions
<1>2. ASSUME chat' = chat, boot' = boot, delivery' = delivery, left' = left \/ Fault,
             \A q \in Questions : record'[q] = "none" <=> record[q] = "none"
      PROVE  ChatInv'
  <2> SUFFICES ASSUME NEW q \in Questions PROVE HasLast(q)' /\ Budget(q)'
    BY DEF ChatInv
  <2> QED BY <1>2, BudgetIsKept DEF ChatInv
<1>3. ASSUME NEW q \in Questions, AskHuman(q) \/ Asking(q) \/ Delivery(q) \/ AnswerElsewhere(q)
      PROVE  ChatInv'
  <2>1. CASE AskHuman(q)
    BY <2>1, CreatedKeeps DEF AskHuman
  <2>2. CASE Asking(q)
    BY <1>2, <2>2 DEF Asking, Poll, Expire
  <2>3. CASE Delivery(q)
    BY <2>3, DeliveryKeeps
  <2>4. CASE AnswerElsewhere(q)
    <3>1. \A p \in Questions : record'[p] = "none" <=> record[p] = "none"
      BY <1>1, <2>4 DEF AnswerElsewhere, SaveIntervention
    <3> QED BY <1>2, <2>4, <3>1 DEF AnswerElsewhere
  <2> QED BY <1>3, <2>1, <2>2, <2>3, <2>4
<1>4. ASSUME NEW r, NEW c, Receive(r, c)
      PROVE  ChatInv'
  <2>1. record' = record \/ \E q : Resolve(q)
    BY <1>4 DEF Receive
  <2>2. \A p \in Questions : record'[p] = "none" <=> record[p] = "none"
    BY <1>1, <2>1 DEF Resolve, SaveIntervention
  <2> QED BY <1>2, <1>4, <2>2 DEF Receive
<1>5. ASSUME NEW r, NEW c, Handling(r, c)
      PROVE  ChatInv'
  <2>1. CASE ApplyFails(r, c)
    BY <1>1, <2>1, CreatedKeeps DEF ApplyFails
  <2>2. CASE ~ ApplyFails(r, c)
    BY <1>2, <1>5, <2>2 DEF Handling, Apply, Reported, Chat, Close
  <2> QED BY <2>1, <2>2
<1>6. CASE Restart
  <2> SUFFICES ASSUME NEW q \in Questions PROVE HasLast(q)' /\ Budget(q)'
    BY DEF ChatInv
  <2>1. /\ HasLast(q) /\ Budget(q) /\ chat' = chat /\ record' = record /\ Fault
        /\ delivery'[q].at = "none" /\ boot' = OpenQuestions
    BY <1>6 DEF ChatInv, Restart, Idle
  <2>2. Shown(q)' = Shown(q)
    BY <2>1 DEF Shown
  <2>3. HasLast(q)'
    BY <2>1, <2>2 DEF HasLast
  <2>4. Spent' = Spent + 1 /\ Spent \in Nat /\ Cardinality(Shown(q)) \in Nat
    BY <2>1, Numbers
  <2>5. Owed(q)' => Owed(q) \/ record[q] = "open"
    BY <2>1 DEF Owed, OpenQuestions
  <2>6. Cardinality(Shown(q)') + (IF Owed(q)' THEN 1 ELSE 0) <= 1 + Spent'
    BY <2>1, <2>2, <2>4 DEF Budget
  <2> QED BY <2>1, <2>3, <2>6 DEF Budget, OpenQuestions
<1>7. CASE UNCHANGED vars
  BY <1>2, <1>7 DEF vars
<1> QED BY <1>3, <1>4, <1>5, <1>6, <1>7 DEF Next

\* The steps keep the types,
LEMMA TypesAreKept ==
  ASSUME Typed, ChatInv, [Next]_vars
  PROVE  Typed'
<1>1. ASSUME NEW q \in Questions, AskHuman(q) \/ Asking(q) \/ Delivery(q) \/ AnswerElsewhere(q)
      PROVE  Typed'
  BY <1>1, QuestionIsTyped, DeliveryIsTyped
<1>2. ASSUME NEW h \in Deliveries, Receive(h[1], h[2]) \/ Handling(h[1], h[2])
      PROVE  Typed'
  <2>1. <<h[1], h[2]>> \in Deliveries
    BY ChannelsAssumption DEF ChannelsAssumption
  <2> QED BY <1>2, <2>1, ReceiveIsTyped, HandlingIsTyped
<1>3. CASE UNCHANGED vars
  BY <1>3 DEF vars, Typed, Messages
<1> QED BY <1>1, <1>2, <1>3, RestartIsTyped DEF Next

\* ... and the count of what a reply did: it acts where nothing of it is remembered, which
\* only a restart forgets.
LEMMA RepliesAreKept ==
  ASSUME Typed, ReplyInv, [Next]_vars
  PROVE  ReplyInv'
<1> USE DEF store, notices, inbound
<1> SUFFICES ASSUME NEW s \in Replies PROVE ActsOnce(s)'
  BY DEF ReplyInv
<1>1. /\ ActsOnce(s) /\ effects[s] \in Nat /\ effects \in [Replies -> Nat]
      /\ seen \subseteq processed
  BY DEF ReplyInv, Typed
<1>2. /\ Spent \in Nat /\ (Fault => Spent' = Spent + 1) /\ (left' = left => Spent' = Spent)
  BY Numbers
<1>3. ASSUME effects' = effects, left' = left \/ Fault,
             s \in processing \cup processed => s \in (processing \cup processed)'
      PROVE  ActsOnce(s)'
  BY <1>1, <1>2, <1>3 DEF ActsOnce
<1>4. ASSUME NEW q, AskHuman(q) \/ Asking(q) \/ Delivery(q) \/ AnswerElsewhere(q)
      PROVE  ActsOnce(s)'
  BY <1>3, <1>4 DEF AskHuman, Asking, Poll, Expire, Delivery, Send, SendFails, SendIsLost,
     SendReturns, Replay, AnswerElsewhere
<1>5. ASSUME NEW r, NEW c, Receive(r, c)
      PROVE  ActsOnce(s)'
  <2>1. CASE Known(r)
    <3>1. effects' = effects /\ processing' = processing /\ processed' = processed /\ left' = left
      BY <1>5, <2>1 DEF Receive
    <3> QED BY <1>3, <3>1
  <2>2. CASE ~ Known(r)
    <3>1. /\ processing' = processing \cup {r} /\ processed' = processed /\ left' = left
          /\ effects' = effects \/ effects' = [effects EXCEPT ![r] = @ + 1]
      BY <1>5, <2>2 DEF Receive
    <3>2. r \notin processing /\ r \notin processed
      BY <2>2 DEF Known
    <3> QED BY <1>1, <1>2, <3>1, <3>2 DEF ActsOnce
  <2> QED BY <2>1, <2>2
<1>6. ASSUME NEW r, NEW c, Handling(r, c)
      PROVE  ActsOnce(s)'
  <2>1. CASE Close(r, c)
    BY <1>3, <2>1 DEF Close, SaveReceipt, Released
  <2>2. CASE ~ Close(r, c)
    BY <1>3, <1>6, <2>2 DEF Handling, Apply, ApplyFails, Reported, Chat
  <2> QED BY <2>1, <2>2
<1>7. CASE Restart
  <2>1. effects' = effects /\ processing' = {} /\ processed' = processed /\ Fault
    BY <1>7 DEF Restart
  <2> QED BY <1>1, <1>2, <2>1 DEF ActsOnce
<1>8. CASE UNCHANGED vars
  BY <1>3, <1>8 DEF vars
<1> QED BY <1>4, <1>5, <1>6, <1>7, <1>8 DEF Next

(***************************************************************************)
(* The theorems                                                            *)
(***************************************************************************)

ChannelsInv == Typed /\ ChatInv /\ ReplyInv

\* Nothing is sent, received or asked at the start.
LEMMA StartsQuiet ==
  ASSUME Init
  PROVE  ChannelsInv
<1>1. Typed
  <2>1. Idle \in Attempts
    BY NotifiedIsTyped
  <2>2. Unread \in Handlings
    BY DEF Unread, Handlings, Works
  <2>3. Unwritten \in Writings
    BY Bounds DEF Unwritten, Writings
  <2>4. chat \in Seq(Questions) /\ left \in 0 .. MaxFaults
    BY Bounds DEF Init
  <2> QED BY <2>1, <2>2, <2>3, <2>4 DEF Init, Typed, Statuses
<1>2. ASSUME NEW q \in Questions
      PROVE  HasLast(q) /\ Budget(q)
  <2>1. Shown(q) = {}
    BY DEF Init, Shown
  <2>2. Cardinality(Shown(q)) = 0 /\ Spent = 0
    BY <2>1, FS_EmptySet, Bounds DEF Spent, Init
  <2>3. delivery[q].at = "none" /\ boot = {}
    BY DEF Init, Idle
  <2> QED BY <2>1, <2>2, <2>3 DEF HasLast, Budget
<1>3. ReplyInv
  BY Bounds DEF Init, ReplyInv, ActsOnce, Spent
<1> QED BY <1>1, <1>2, <1>3 DEF ChannelsInv, ChatInv

\* The three parts of the invariant hold together.
LEMMA ChannelsInductive == Spec => []ChannelsInv
<1>1. Init => ChannelsInv
  BY StartsQuiet
<1>2. ChannelsInv /\ [Next]_vars => ChannelsInv'
  BY TypesAreKept, ChatIsKept, RepliesAreKept DEF ChannelsInv
<1> QED BY <1>1, <1>2, PTL DEF Spec

\* The types, and with them the bound of the conversation: the daemon sends a question once
\* when it is created, and once more for each request that fails, answer that is lost and
\* restart (interventions.ts create, gateway.ts attemptDelivery, daemon.ts start).
THEOREM ChannelsTypeCorrect == Spec => []TypeOK
<1>1. ChannelsInv => TypeOK
  <2> SUFFICES ASSUME ChannelsInv PROVE TypeOK
    OBVIOUS
  <2>1. Len(chat) <= MaxMessages
    BY ChatIsBounded DEF ChannelsInv
  <2> QED BY <2>1 DEF ChannelsInv, Typed, TypeOK, Statuses, Attempts, Stages, Writings, Handlings, Works
<1> QED BY <1>1, ChannelsInductive, PTL

\* A reply the provider delivers again does nothing again, however often and at whatever
\* moment it does, unless the daemon died before it had recorded the first delivery
\* (gateway.ts handleInbound).
THEOREM RepliesAreHandledOnce == Spec => []RepliesActOnce
<1>1. ChannelsInv => RepliesActOnce
  <2> SUFFICES ASSUME ChannelsInv, NEW r \in Replies
               PROVE  effects[r] <= 1 + (MaxFaults - left)
    BY DEF RepliesActOnce
  <2>1. ActsOnce(r) /\ effects[r] \in Nat /\ left \in 0 .. MaxFaults
    BY DEF ChannelsInv, ReplyInv, Typed
  <2> QED BY <2>1, Bounds DEF ActsOnce, Spent
<1> QED BY <1>1, ChannelsInductive, PTL

=============================================================================
