-------------------------- MODULE AgentSessionProofs --------------------------
(***************************************************************************)
(* What an agent call and the controls of its sessions guarantee for any   *)
(* number of sessions, requests, faults and reasons to start one again.    *)
(***************************************************************************)
EXTENDS AgentSession, SequenceTheorems, WellFoundedInduction, TLAPS

(***************************************************************************)
(* Sessions                                                                *)
(***************************************************************************)

Turns == [kind: Prompts, settled: BOOLEAN]
Events == [state: SessionStates, of: {None} \cup Prompts]
SessionType == [state: SessionStates, last: {None} \cup Events, queue: Seq(Prompts),
                turn: {None} \cup Turns]

\* The adapter's sessions: prompts wait behind a turn only, and the call's own
\* prompt never waits.
Sessions ==
  {s \in SessionType : /\ s.queue # <<>> => s.turn # None
                       /\ \A k \in 1 .. Len(s.queue) : s.queue[k] # "call"}

\* A session without a turn, or with the turn of another prompt than the call's.
Elsewhere(s) == s.turn # None => s.turn.kind # "call"

\* A turn that begins is of the kind of its prompt, and unsettled.
LEMMA NewTurns ==
  ASSUME NEW kind \in Prompts
  PROVE  NewTurn(kind) \in Turns /\ NewTurn(kind) # None /\ NewTurn(kind).kind = kind
<1>1. None \notin Turns
  BY NoneAssumption DEF Turns, NoneAssumption
<1>2. NewTurn(kind) \in Turns /\ NewTurn(kind).kind = kind
  BY DEF NewTurn, Turns
<1> QED BY <1>1, <1>2

\* The session that was never started has no turn.
LEMMA EmptySession == NoSession \in Sessions /\ NoSession.turn = None
<1>1. <<>> \in Seq(Prompts) /\ Len(<<>>) = 0
  BY EmptySeq
<1> QED BY <1>1 DEF NoSession, Sessions, SessionType, SessionStates

\* A change of a session's last event leaves the rest alone.
LEMMA EventChanges ==
  ASSUME NEW s \in Sessions, NEW event \in {None} \cup Events
  PROVE  LET t == [s EXCEPT !.last = event] IN
           t \in Sessions /\ t.state = s.state /\ t.turn = s.turn /\ t.queue = s.queue
BY DEF Sessions, SessionType

\* A prompt begins a turn, or queues behind one.
LEMMA EnqueuedIs ==
  ASSUME NEW s \in Sessions, NEW kind \in Prompts, s.turn # None => kind # "call"
  PROVE  /\ Enqueued(s, kind) \in Sessions /\ Enqueued(s, kind).state = "running"
         /\ Enqueued(s, kind).turn = IF s.turn = None THEN NewTurn(kind) ELSE s.turn
<1>1. CASE s.turn = None
  <2>1. Enqueued(s, kind) = [s EXCEPT !.state = "running", !.turn = NewTurn(kind)]
    BY <1>1 DEF Enqueued
  <2> QED BY <1>1, <2>1, NewTurns DEF Sessions, SessionType, SessionStates
<1>2. CASE s.turn # None
  <2> DEFINE q == Append(s.queue, kind)
  <2>1. Enqueued(s, kind) = [s EXCEPT !.state = "running", !.queue = q]
    BY <1>2 DEF Enqueued
  <2>2. /\ q \in Seq(Prompts) /\ Len(q) = Len(s.queue) + 1 /\ Len(s.queue) \in Nat
        /\ q[Len(s.queue) + 1] = kind /\ \A k \in 1 .. Len(s.queue) : q[k] = s.queue[k]
    BY AppendProperties, LenProperties DEF Sessions, SessionType
  <2>3. \A k \in 1 .. Len(q) : q[k] # "call"
    <3> HIDE DEF q
    <3>1. \A k \in 1 .. Len(q) : k = Len(s.queue) + 1 \/ k \in 1 .. Len(s.queue)
      BY <2>2
    <3> QED BY <1>2, <2>2, <3>1 DEF Sessions
  <2> HIDE DEF q
  <2> QED BY <1>2, <2>1, <2>2, <2>3 DEF Sessions, SessionType, SessionStates
<1> QED BY <1>1, <1>2

\* What the adapter's other operations make of a session.
LEMMA AnnouncedIs ==
  ASSUME NEW s \in Sessions
  PROVE  Announced(s) \in Sessions /\ Announced(s).turn = s.turn /\ Announced(s).state = s.state
<1>1. Event("running", None) \in {None} \cup Events
  BY DEF Event, Events, SessionStates
<1> QED BY <1>1, EventChanges DEF Announced

\* Cancelling a session and resuming it leave its turn alone.
LEMMA EndsAndResumes ==
  ASSUME NEW s \in Sessions
  PROVE  /\ CancelledSession(s) \in Sessions /\ CancelledSession(s).turn = s.turn
         /\ ResumedSession(s) \in Sessions /\ ResumedSession(s).turn = s.turn
         /\ ResumedSession(s).state = "running"
<1>1. /\ Event("running", None) \in {None} \cup Events /\ Event("cancelled", None) \in {None} \cup Events
      /\ "running" \in SessionStates /\ "cancelled" \in SessionStates
  BY DEF Event, Events, SessionStates
<1>2. CancelledSession(s) \in Sessions /\ CancelledSession(s).turn = s.turn
  BY <1>1 DEF CancelledSession, Sessions, SessionType
<1>3. /\ ResumedSession(s) \in Sessions /\ ResumedSession(s).turn = s.turn
      /\ ResumedSession(s).state = "running"
  BY <1>1 DEF ResumedSession, Sessions, SessionType
<1> QED BY <1>2, <1>3

\* A started session has the turn of its first prompt.
LEMMA StartedIs ==
  ASSUME NEW kind \in Prompts
  PROVE  /\ StartedSession(kind) \in Sessions /\ StartedSession(kind).turn = NewTurn(kind)
         /\ StartedSession(kind).state = "running"
<1>1. Event("running", None) \in {None} \cup Events
  BY DEF Event, Events, SessionStates
<1> QED BY <1>1, EmptySession, EnqueuedIs, EventChanges DEF StartedSession

\* A restored session waits, without a turn.
LEMMA RestoredIs == RestoredSession \in Sessions
<1> DEFINE s == [NoSession EXCEPT !.state = "waiting", !.last = Event("waiting", None)]
<1>1. Event("waiting", None) \in {None} \cup Events /\ "waiting" \in SessionStates
  BY DEF Event, Events, SessionStates
<1>2. s \in Sessions /\ s.turn = None
  BY <1>1, EmptySession DEF Sessions, SessionType
<1> HIDE DEF s
<1>3. Announced(s) \in Sessions /\ Announced(s).turn = None
  BY <1>2, AnnouncedIs
<1> QED BY <1>3, EnqueuedIs DEF RestoredSession, s, Prompts

\* When a turn is over, the call's prompt has been answered or refused.
LEMMA AdvancedIs ==
  ASSUME NEW s \in Sessions
  PROVE  Advanced(s) \in Sessions /\ Elsewhere(Advanced(s))
<1>0. s \in SessionType /\ s.queue \in Seq(Prompts) /\ <<>> \in Seq(Prompts) /\ Len(<<>>) = 0
  BY EmptySeq DEF Sessions, SessionType
<1>1. CASE s.queue = <<>>
  BY <1>0, <1>1 DEF Advanced, Sessions, SessionType, Elsewhere
<1>2. CASE s.queue # <<>> /\ s.state = "cancelled"
  <2>1. Advanced(s) = [s EXCEPT !.turn = None, !.queue = <<>>]
    BY <1>2 DEF Advanced
  <2>2. Advanced(s) \in SessionType /\ Advanced(s).queue = <<>> /\ Advanced(s).turn = None
    BY <1>0, <2>1 DEF SessionType
  <2> QED BY <1>0, <2>2 DEF Sessions, Elsewhere
<1>3. CASE s.queue # <<>> /\ s.state # "cancelled"
  <2> DEFINE h == Head(s.queue)
             q == Tail(s.queue)
  <2>1. Advanced(s) = [s EXCEPT !.state = "running", !.turn = NewTurn(h), !.queue = q]
    BY <1>3 DEF Advanced
  <2>2. /\ q \in Seq(Prompts) /\ Len(q) = Len(s.queue) - 1 /\ Len(s.queue) \in Nat \ {0}
        /\ h = s.queue[1] /\ h \in Prompts /\ \A k \in 1 .. Len(q) : q[k] = s.queue[k + 1]
    BY <1>0, <1>3, HeadTailProperties, LenProperties, EmptySeq
  <2>3. h # "call" /\ \A k \in 1 .. Len(q) : q[k] # "call"
    <3> HIDE DEF h, q
    <3>1. 1 \in 1 .. Len(s.queue) /\ \A k \in 1 .. Len(q) : k + 1 \in 1 .. Len(s.queue)
      BY <2>2
    <3> QED BY <2>2, <3>1 DEF Sessions
  <2> HIDE DEF h, q
  <2>4. NewTurn(h) \in Turns /\ NewTurn(h) # None /\ NewTurn(h).kind = h /\ "running" \in SessionStates
    BY <2>2, NewTurns DEF SessionStates
  <2>5. /\ Advanced(s) \in SessionType /\ Advanced(s).queue = q
        /\ Advanced(s).turn = NewTurn(h)
    BY <1>0, <2>1, <2>2, <2>4 DEF SessionType
  <2> QED BY <2>3, <2>4, <2>5 DEF Sessions, Elsewhere
<1> QED BY <1>1, <1>2, <1>3

(***************************************************************************)
(* The call and its session                                                *)
(***************************************************************************)

Calls == [pc: {"idle", "starting", "prompting", "waiting", "done"},
          id: {None} \cup Ids, restored: BOOLEAN,
          out: {None, "resolved", "rejected"}, answer: {None} \cup Prompts]

\* The types of everything but the sessions.
RestOK ==
  /\ row \in [Ids -> RowStates]
  /\ source \in [Ids -> {None} \cup [of: Ids, by: Actions]]
  /\ run \in RunStates /\ call \in Calls
  /\ checkpoint \in {None} \cup Ids /\ signal \in BOOLEAN
  /\ suppressed \subseteq Ids /\ reported \subseteq Ids
  /\ inFlight \subseteq [op: {"send", "interrupt", "resuming"}, id: Ids]
  /\ started \in 0 .. MaxSessions
  /\ left \in 0 .. MaxEvents

Waits == call.pc = "waiting" /\ ~call.restored
Decided == call.out = "resolved" /\ ~call.restored

\* While a call waits for the session it started, that session is at the call's
\* prompt, which has not failed; once the call is decided it is elsewhere.
CallInv ==
  /\ call.pc = "prompting" => call.restored
  /\ call.pc # "done" => call.out = None
  /\ Waits => /\ call.id \in 1 .. started
              /\ sess[call.id].turn = NewTurn("call") /\ sess[call.id].state # "cancelled"
  /\ Decided => call.answer = "call" /\ \A i \in Ids : call.id = i => Elsewhere(sess[i])

AgentInv == RestOK /\ sess \in [Ids -> Sessions] /\ CallInv

\* What the invariant is for.
LEMMA InvIsType == AgentInv => TypeOK /\ AnswerIsOwn
<1>1. ASSUME AgentInv PROVE TypeOK
  BY <1>1 DEF AgentInv, RestOK, Calls, Sessions, SessionType, Turns, Events, TypeOK
<1>2. ASSUME AgentInv PROVE AnswerIsOwn
  BY <1>2 DEF AgentInv, CallInv, Decided, Elsewhere, AnswerIsOwn
<1> QED BY <1>1, <1>2

\* What the assumption says of the sessions' numbers.
LEMMA Bounds == MaxSessions \in Nat \ {0} /\ Ids = 1 .. MaxSessions /\ "retry" \in Actions
BY BoundsAssumption DEF BoundsAssumption, Ids

\* The call's state survives what leaves the sessions' turns alone.
LEMMA CallKept ==
  ASSUME CallInv, RestOK, RestOK', call' = call, started <= started',
         \A i \in Ids : Elsewhere(sess[i]) => Elsewhere(sess'[i]),
         Waits => sess'[call.id].turn = sess[call.id].turn /\ sess'[call.id].state # "cancelled"
  PROVE  CallInv'
<1>1. Waits' = Waits /\ Decided' = Decided
  BY DEF Waits, Decided
<1>2. call.id \in 1 .. started => call.id \in 1 .. started'
  BY Bounds DEF RestOK
<1> QED BY <1>1, <1>2 DEF CallInv, Elsewhere

\* ... a call that stops waiting with the event of its own prompt,
LEMMA CallSettles ==
  ASSUME CallInv, call \in Calls, call.pc = "waiting", NEW event, call' = Settled(event),
         event.state = "completed" /\ ~call.restored =>
           event.of = "call" /\ \A i \in Ids : call.id = i => Elsewhere(sess'[i])
  PROVE  CallInv'
<1>1. /\ call'.pc = "done" /\ call'.restored = call.restored /\ call'.id = call.id
      /\ call'.out = IF event.state = "completed" THEN "resolved" ELSE "rejected"
      /\ call'.answer = IF event.state = "completed" THEN event.of ELSE None
  BY DEF Settled, Calls
<1> QED BY <1>1 DEF CallInv, Waits, Decided, Elsewhere

\* ... or that is rejected,
LEMMA CallRejected ==
  ASSUME CallInv, call \in Calls, call' = Rejected
  PROVE  CallInv' /\ call' \in Calls
<1>1. call'.pc = "done" /\ call'.out = "rejected" /\ call' \in Calls
  BY DEF Rejected, Calls
<1> QED BY <1>1 DEF CallInv, Waits, Decided

\* ... and begins anew.
LEMMA CallIdles ==
  ASSUME call' = IdleCall
  PROVE  CallInv' /\ call' \in Calls
<1>1. None # "resolved"
  BY NoneAssumption DEF NoneAssumption
<1> QED BY <1>1 DEF IdleCall, CallInv, Waits, Decided, Calls

(***************************************************************************)
(* Events                                                                  *)
(***************************************************************************)

\* Rows of agent sessions are saved in a state of rows.
LEMMA RowStatesKept ==
  ASSUME NEW old \in RowStates, NEW state \in SessionStates
  PROVE  /\ RowOf(state) \in RowStates /\ UpdateSessionState(old, state) \in RowStates
         /\ SaveRow(old, RowOf(state)) \in RowStates
BY DEF RowOf, UpdateSessionState, SaveRow, SessionStates, RowStates

\* The call that an event ended keeps the shape of a call.
LEMMA SettledIsCall ==
  ASSUME call \in Calls, NEW event \in Events
  PROVE  Settled(event) \in Calls
BY DEF Settled, Calls, Events

\* What both listeners make of an event.
LEMMA EmittedTypes ==
  ASSUME RestOK, NEW i \in Ids, NEW event \in Events, Emitted(i, event)
  PROVE  /\ row' \in [Ids -> RowStates] /\ call' \in Calls
         /\ suppressed' \subseteq Ids /\ reported' \subseteq Ids
         /\ call' = IF Hears(i) /\ event.state \in Ends THEN Settled(event) ELSE call
<1>1. RowAfter(i, event, i \in suppressed) \in RowStates
  <2>1. row[i] \in RowStates /\ event.state \in SessionStates /\ "none" \in RowStates
    BY DEF RestOK, Events, RowStates
  <2> QED BY <2>1, RowStatesKept DEF RowAfter
<1>2. row' \in [Ids -> RowStates]
  BY <1>1 DEF Emitted, RestOK
<1>3. call' = CallAfter(i, event) /\ call' \in Calls
  BY SettledIsCall DEF Emitted, CallAfter, RestOK
<1> QED BY <1>2, <1>3 DEF Emitted, CallAfter, ReportedAfter, RestOK

(***************************************************************************)
(* Turns keep the invariant                                                *)
(***************************************************************************)

\* One session changes, to one with the same turn or to one with another's.
LEMMA SessionChanges ==
  ASSUME sess \in [Ids -> Sessions], NEW i \in Ids, NEW s \in Sessions,
         sess' = [sess EXCEPT ![i] = s]
  PROVE  sess' \in [Ids -> Sessions] /\ sess'[i] = s /\ \A j \in Ids \ {i} : sess'[j] = sess[j]
OBVIOUS

\* A turn says something.
LEMMA SpeaksStep ==
  ASSUME AgentInv, NEW i \in Ids, Speaks(i)
  PROVE  AgentInv'
<1> DEFINE event == Event("running", None)
           s == [sess[i] EXCEPT !.last = event]
<1> USE DEF AgentInv
<1>1. event \in Events /\ event.state = "running" /\ "running" \notin Ends
  BY DEF Event, Events, SessionStates, Ends
<1>2. sess[i] \in Sessions /\ sess' = [sess EXCEPT ![i] = s] /\ Emitted(i, event)
  BY DEF Speaks
<1> HIDE DEF event
<1>3. s \in Sessions /\ s.turn = sess[i].turn /\ s.state = sess[i].state
  BY <1>1, <1>2, EventChanges
<1> HIDE DEF s
<1>4. sess' \in [Ids -> Sessions] /\ sess'[i] = s /\ \A j \in Ids \ {i} : sess'[j] = sess[j]
  BY <1>2, <1>3, SessionChanges
<1>5. RestOK' /\ call' = call /\ started' = started
  BY <1>1, <1>2, EmittedTypes DEF Speaks, RestOK
<1>6. \A j \in Ids : sess'[j].turn = sess[j].turn /\ sess'[j].state = sess[j].state
  BY <1>3, <1>4
<1>7. Waits => call.id \in Ids
  BY Bounds DEF CallInv, RestOK
<1>8. CallInv'
  BY <1>5, <1>6, <1>7, CallKept DEF CallInv, Elsewhere, RestOK
<1> QED BY <1>4, <1>5, <1>8

\* A backend reports a state of its own.
LEMMA ReportsStep ==
  ASSUME AgentInv, NEW i \in Ids, NEW state \in {"running", "waiting"}, Reports(i, state)
  PROVE  AgentInv'
<1> DEFINE event == Event(state, None)
           s == [sess[i] EXCEPT !.state = state, !.last = event]
<1> USE DEF AgentInv
<1>1. event \in Events /\ event.state = state /\ state \notin Ends /\ state \in SessionStates
  BY DEF Event, Events, SessionStates, Ends
<1>2. sess[i] \in Sessions /\ sess' = [sess EXCEPT ![i] = s] /\ Emitted(i, event)
  BY DEF Reports
<1> HIDE DEF event
<1>3. s \in Sessions /\ s.turn = sess[i].turn /\ s.state # "cancelled"
  BY <1>1, <1>2 DEF Sessions, SessionType
<1> HIDE DEF s
<1>4. sess' \in [Ids -> Sessions] /\ sess'[i] = s /\ \A j \in Ids \ {i} : sess'[j] = sess[j]
  BY <1>2, <1>3, SessionChanges
<1>5. RestOK' /\ call' = call /\ started' = started
  BY <1>1, <1>2, EmittedTypes DEF Reports, RestOK
<1>6. \A j \in Ids : /\ sess'[j].turn = sess[j].turn
                     /\ sess[j].state # "cancelled" => sess'[j].state # "cancelled"
  BY <1>3, <1>4
<1>7. Waits => call.id \in Ids
  BY Bounds DEF CallInv, RestOK
<1>8. CallInv'
  BY <1>5, <1>6, <1>7, CallKept DEF CallInv, Elsewhere, RestOK
<1> QED BY <1>4, <1>5, <1>8

\* A call that hears the failure of a turn is rejected.
LEMMA FailsOpenStep ==
  ASSUME AgentInv, NEW i \in Ids, FailsOpen(i)
  PROVE  AgentInv'
<1> DEFINE event == Event("failed", None)
           turn == [sess[i].turn EXCEPT !.settled = TRUE]
           s == [sess[i] EXCEPT !.state = "failed", !.last = event, !.turn = turn]
<1> USE DEF AgentInv
<1>1. event \in Events /\ event.state = "failed" /\ "failed" \in Ends /\ "failed" \in SessionStates
  BY DEF Event, Events, SessionStates, Ends
<1>2. sess[i] \in Sessions /\ sess[i].turn # None /\ sess[i].turn \in Turns /\ Emitted(i, event)
  BY DEF FailsOpen, Sessions, SessionType
<1>3. sess' = [sess EXCEPT ![i] = s]
  BY <1>2 DEF FailsOpen, Sessions, SessionType, Turns
<1>4. turn \in Turns /\ turn.kind = sess[i].turn.kind /\ turn # None
  <2>1. turn \in Turns /\ turn.kind = sess[i].turn.kind
    BY <1>2 DEF Turns
  <2> QED BY <2>1, NoneAssumption DEF NoneAssumption, Turns
<1> HIDE DEF event, turn
<1>5. s \in Sessions /\ s.turn = turn /\ s.state = "failed"
  BY <1>1, <1>2, <1>4 DEF Sessions, SessionType
<1> HIDE DEF s
<1>6. sess' \in [Ids -> Sessions] /\ sess'[i] = s /\ \A j \in Ids \ {i} : sess'[j] = sess[j]
  BY <1>3, <1>5, SessionChanges
<1>7. RestOK' /\ started' = started /\ call' = IF Hears(i) THEN Settled(event) ELSE call
  BY <1>1, <1>2, EmittedTypes DEF FailsOpen, RestOK
<1>8. \A j \in Ids : Elsewhere(sess[j]) => Elsewhere(sess'[j])
  BY <1>2, <1>4, <1>5, <1>6 DEF Elsewhere
<1>9. CASE Hears(i)
  <2>1. event.state # "completed" /\ call.pc = "waiting" /\ call \in Calls
    BY <1>1, <1>9 DEF Hears, RestOK
  <2>2. CallInv'
    BY <1>7, <1>9, <2>1, CallSettles
  <2> QED BY <1>6, <1>7, <2>2
<1>10. CASE ~Hears(i)
  <2>1. Waits => call.id \in Ids \ {i}
    BY <1>10, Bounds DEF CallInv, RestOK, Waits, Hears
  <2>2. CallInv'
    BY <1>6, <1>7, <1>8, <1>10, <2>1, CallKept DEF CallInv, RestOK
  <2> QED BY <1>6, <1>7, <2>2
<1> QED BY <1>9, <1>10

\* Rows stay in the states of rows when a turn ends.
LEMMA RowAfterOK ==
  ASSUME RestOK, NEW i \in Ids, NEW event \in Events, NEW quiet \in BOOLEAN
  PROVE  RowAfter(i, event, quiet) \in RowStates
<1>1. row[i] \in RowStates /\ event.state \in SessionStates /\ "none" \in RowStates
  BY DEF RestOK, Events, RowStates
<1> QED BY <1>1, RowStatesKept DEF RowAfter

\* What the end of a turn says of its session, and what it leaves of it.
LEMMA EndsAre ==
  ASSUME NEW s \in Sessions, s.turn # None, NEW result \in Ends
  PROVE  LET event == EventOfEnd(s, result)
             judged == Judged(s, event)
         IN /\ event # None => event \in Events /\ event.state \in Ends /\ event.of = s.turn.kind
            /\ s.state # "cancelled" /\ ~s.turn.settled => event # None
            /\ judged \in Sessions
<1> DEFINE event == EventOfEnd(s, result)
           said == Event(result, s.turn.kind)
<1>1. s.turn \in Turns /\ s \in SessionType
  BY DEF Sessions, SessionType
<1>2. said \in [state: Ends, of: Prompts] /\ said.state = result /\ said.of = s.turn.kind
  BY <1>1 DEF Event, Turns
<1>3. said # None /\ said \in Events
  BY <1>2, NoneAssumption DEF NoneAssumption, Events, Ends, SessionStates
<1>4. event = IF s.state = "cancelled" \/ s.turn.settled THEN None ELSE said
  BY DEF EventOfEnd
<1> HIDE DEF said, event
<1>5. result \in SessionStates
  BY DEF Ends, SessionStates
<1>6. Judged(s, event) \in Sessions
  <2>1. CASE event = None
    BY <2>1 DEF Judged
  <2>2. CASE event # None
    <3>1. Judged(s, event) = [s EXCEPT !.state = said.state, !.last = said] /\ said.state \in SessionStates
      BY <1>2, <1>4, <1>5, <2>2 DEF Judged
    <3> QED BY <1>1, <1>3, <3>1 DEF Sessions, SessionType
  <2> QED BY <2>1, <2>2
<1>7. event # None => event \in Events /\ event.state \in Ends /\ event.of = s.turn.kind
  BY <1>2, <1>3, <1>4
<1>8. s.state # "cancelled" /\ ~s.turn.settled => event # None
  BY <1>3, <1>4
<1> QED BY <1>6, <1>7, <1>8 DEF event

\* A turn ends, and the next prompt of the queue becomes the turn.
LEMMA EndTurnStep ==
  ASSUME AgentInv, NEW i \in Ids, NEW result \in Ends, EndTurn(i, result)
  PROVE  AgentInv'
<1> DEFINE s == sess[i]
           event == EventOfEnd(s, result)
           judged == Judged(s, event)
           listens == call.pc = "prompting" /\ call.id = i /\ s.turn.kind = "call"
           heard == IF event = None THEN row[i] ELSE RowAfter(i, event, i \in suppressed)
           rowI == IF listens /\ judged.last.state \in Ends
                   THEN UpdateSessionState(row[i], judged.last.state)
                   ELSE IF s.turn.kind = "interrupt" THEN SaveRow(heard, "running")
                   ELSE heard
<1> USE DEF AgentInv
<1>1. /\ s \in Sessions /\ s.turn # None
      /\ sess' = [sess EXCEPT ![i] = Advanced(judged)]
      /\ call' = IF listens THEN Listens(i, judged)
                 ELSE IF event = None THEN call ELSE CallAfter(i, event)
      /\ row' = [row EXCEPT ![i] = rowI]
      /\ suppressed' = IF event # None /\ event.state = "cancelled"
                       THEN suppressed \ {i} ELSE suppressed
      /\ reported' = IF event = None THEN reported ELSE ReportedAfter(i, event)
      /\ inFlight' \subseteq inFlight
      /\ UNCHANGED <<source, run, checkpoint, signal, started, left>>
  BY DEF EndTurn
<1>2. /\ event # None => event \in Events /\ event.state \in Ends /\ event.of = s.turn.kind
      /\ s.state # "cancelled" /\ ~s.turn.settled => event # None
      /\ judged \in Sessions
  <2> HIDE DEF s
  <2> QED BY <1>1, EndsAre
<1> HIDE DEF event, judged
<1>3. Advanced(judged) \in Sessions /\ Elsewhere(Advanced(judged))
  BY <1>2, AdvancedIs
<1>4. /\ sess' \in [Ids -> Sessions] /\ Elsewhere(sess'[i])
      /\ \A j \in Ids \ {i} : sess'[j] = sess[j]
  BY <1>1, <1>3, SessionChanges
<1>5. row' \in [Ids -> RowStates]
  <2>1. heard \in RowStates /\ row[i] \in RowStates
    <3>1. (i \in suppressed) \in BOOLEAN /\ row[i] \in RowStates
      BY DEF RestOK
    <3>2. event # None => RowAfter(i, event, i \in suppressed) \in RowStates
      BY <1>2, <3>1, RowAfterOK
    <3> QED BY <3>1, <3>2
  <2>2. SaveRow(heard, "running") \in RowStates
    <3> HIDE DEF heard
    <3> QED BY <2>1 DEF SaveRow, RowStates
  <2>3. judged.last.state \in Ends => UpdateSessionState(row[i], judged.last.state) \in RowStates
    BY <2>1, RowStatesKept DEF Ends, SessionStates
  <2>4. rowI \in RowStates
    <3> HIDE DEF heard, listens
    <3> QED BY <2>1, <2>2, <2>3
  <2> HIDE DEF rowI
  <2> QED BY <1>1, <2>4 DEF RestOK
<1>6. suppressed' \subseteq Ids /\ reported' \subseteq Ids /\ call \in Calls
  BY <1>1 DEF ReportedAfter, RestOK
<1> SUFFICES call' \in Calls /\ CallInv'
  BY <1>1, <1>4, <1>5, <1>6 DEF RestOK
<1>7. CASE listens
  <2>1. call' = Listens(i, judged) /\ call.restored /\ call.out = None
    BY <1>1, <1>7 DEF CallInv
  <2>2. CASE judged.last # None /\ judged.last.state \in Ends
    <3>1. judged.last \in Events /\ call' = Settled(judged.last)
      BY <1>2, <2>1, <2>2 DEF Sessions, SessionType, Listens
    <3>2. call' \in Calls
      BY <1>6, <3>1, SettledIsCall
    <3>3. call'.pc = "done" /\ call'.restored
      BY <1>6, <2>1, <3>1 DEF Settled, Calls
    <3> QED BY <3>2, <3>3 DEF CallInv, Waits, Decided
  <2>3. CASE ~(judged.last # None /\ judged.last.state \in Ends)
    <3>1. call' = [call EXCEPT !.pc = "waiting"]
      BY <2>1, <2>3 DEF Listens
    <3>2. call' \in Calls /\ call'.restored /\ call'.out = None /\ call'.pc = "waiting"
      BY <1>6, <2>1, <3>1 DEF Calls
    <3> QED BY <3>2 DEF CallInv, Waits, Decided
  <2> QED BY <2>2, <2>3
<1>8. CASE ~listens /\ event # None /\ Hears(i)
  <2>1. call' = Settled(event) /\ call.pc = "waiting" /\ call.id = i
    BY <1>1, <1>2, <1>8 DEF CallAfter, Hears
  <2>2. call' \in Calls
    BY <1>2, <1>6, <1>8, <2>1, SettledIsCall
  <2>3. ~call.restored => s.turn.kind = "call"
    BY <2>1, NewTurns DEF CallInv, Waits, Prompts
  <2>4. CallInv'
    <3> HIDE DEF s
    <3> QED BY <1>2, <1>4, <1>6, <1>8, <2>1, <2>3, CallSettles
  <2> QED BY <2>2, <2>4
<1>9. CASE ~listens /\ (event = None \/ ~Hears(i))
  <2>1. call' = call
    BY <1>1, <1>9 DEF CallAfter
  <2>2. Waits => call.id \in Ids \ {i}
    <3>1. Waits => call.id \in Ids
      BY Bounds DEF CallInv, RestOK
    <3>2. Waits /\ call.id = i => s.state # "cancelled" /\ ~s.turn.settled
      BY DEF CallInv, NewTurn
    <3> QED BY <1>2, <1>9, <3>1, <3>2 DEF Waits, Hears
  <2>3. RestOK'
    BY <1>1, <1>5, <1>6, <2>1 DEF RestOK
  <2>4. CallInv'
    BY <1>1, <1>4, <2>1, <2>2, <2>3, CallKept DEF CallInv, RestOK
  <2> QED BY <1>6, <2>1, <2>4
<1> QED BY <1>7, <1>8, <1>9

(***************************************************************************)
(* The call's own steps keep the invariant                                 *)
(***************************************************************************)

\* The engine asks for the call.
LEMMA StartCallStep ==
  ASSUME AgentInv, StartCall
  PROVE  AgentInv'
<1> USE DEF AgentInv
<1>1. call' \in Calls /\ call'.pc = "starting" /\ call'.out = None
  BY DEF StartCall, IdleCall, Calls, RestOK
<1>2. RestOK' /\ sess' \in [Ids -> Sessions]
  BY <1>1 DEF StartCall, RestOK
<1>3. CallInv'
  BY <1>1, NoneAssumption DEF CallInv, Waits, Decided, NoneAssumption
<1> QED BY <1>2, <1>3

\* The session of the call is started, with the call's prompt as its first turn.
LEMMA SessionStartsStep ==
  ASSUME AgentInv, SessionStarts
  PROVE  AgentInv'
<1> DEFINE i == started + 1
<1> USE DEF AgentInv
<1>1. i \in Ids /\ started' = i /\ i \in 1 .. started' /\ i \in 0 .. MaxSessions
  BY Bounds DEF SessionStarts, RestOK
<1>2. sess' = [sess EXCEPT ![i] = StartedSession("call")] /\ "call" \in Prompts
  BY DEF SessionStarts, Prompts
<1>3. /\ call' \in Calls /\ call'.pc = "waiting" /\ call'.id = i
      /\ call'.restored = FALSE /\ call'.out = None
  <2>1. call' = [call EXCEPT !.pc = "waiting", !.id = i] /\ call \in Calls /\ ~call.restored /\ call.out = None
    BY DEF SessionStarts, RestOK, CallInv
  <2> HIDE DEF i
  <2> QED BY <1>1, <2>1 DEF Calls
<1>4. row' \in [Ids -> RowStates]
  BY DEF SessionStarts, Registered, Saved, RestOK, RowStates
<1>5. RestOK'
  BY <1>1, <1>3, <1>4 DEF SessionStarts, RestOK
<1> HIDE DEF i
<1>6. /\ sess' \in [Ids -> Sessions] /\ sess'[i].turn = NewTurn("call")
      /\ sess'[i].state # "cancelled"
  BY <1>1, <1>2, StartedIs, SessionChanges
<1>7. CallInv'
  BY <1>1, <1>3, <1>6, NoneAssumption DEF CallInv, Waits, Decided, NoneAssumption
<1> QED BY <1>5, <1>6, <1>7

\* The session that the journal names is taken up again.
LEMMA SessionRestoredStep ==
  ASSUME AgentInv, SessionRestored
  PROVE  AgentInv'
<1> USE DEF AgentInv
<1>1. sess' = [sess EXCEPT ![call.id] = RestoredSession] /\ call \in Calls /\ call.restored
  BY DEF SessionRestored, RestOK
<1>2. sess' \in [Ids -> Sessions]
  BY <1>1, RestoredIs
<1>3. call' \in Calls /\ call'.pc = "prompting" /\ call'.restored /\ call'.out = None
  BY <1>1 DEF SessionRestored, CallInv, Calls
<1>4. RestOK'
  BY <1>1, <1>3 DEF SessionRestored, Registered, Saved, RestOK, RowStates, Calls
<1>5. CallInv'
  BY <1>3 DEF CallInv, Waits, Decided
<1> QED BY <1>2, <1>4, <1>5

\* The session cannot be started.
LEMMA StartFailsStep ==
  ASSUME AgentInv, StartFails
  PROVE  AgentInv'
<1> USE DEF AgentInv
<1>1. CallInv' /\ call' \in Calls
  BY CallRejected DEF StartFails, RestOK
<1>2. left' \in 0 .. MaxEvents
  BY BoundsAssumption DEF StartFails, RestOK, BoundsAssumption
<1>3. RestOK' /\ sess' = sess
  BY <1>1, <1>2 DEF StartFails, RestOK
<1> QED BY <1>1, <1>3

\* The checkpoint of the started session cannot be stored.
LEMMA StoreFailsStep ==
  ASSUME AgentInv, StoreFails
  PROVE  AgentInv'
<1> DEFINE i == started + 1
<1> USE DEF AgentInv
<1>1. CallInv' /\ call' \in Calls
  BY CallRejected DEF StoreFails, RestOK
<1>2. left' \in 0 .. MaxEvents
  BY BoundsAssumption DEF StoreFails, RestOK, BoundsAssumption
<1>3. i \in Ids /\ i \in 0 .. MaxSessions /\ "call" \in Prompts
  BY Bounds DEF StoreFails, RestOK, Prompts
<1>4. PICK registration \in BOOLEAN :
        /\ sess' = [sess EXCEPT ![i] = IF registration
                                       THEN CancelledSession(StartedSession("call"))
                                       ELSE StartedSession("call")]
        /\ checkpoint' = IF registration THEN i ELSE checkpoint
        /\ started' = i
  BY DEF StoreFails
<1> HIDE DEF i
<1>5. StartedSession("call") \in Sessions /\ CancelledSession(StartedSession("call")) \in Sessions
  BY <1>3, StartedIs, EndsAndResumes
<1>6. sess' \in [Ids -> Sessions]
  BY <1>3, <1>4, <1>5
<1>7. RestOK'
  BY <1>1, <1>2, <1>3, <1>4 DEF StoreFails, RestOK
<1> QED BY <1>1, <1>6, <1>7

\* The workflow is aborted while the session runs.
LEMMA AbortStep ==
  ASSUME AgentInv, Abort
  PROVE  AgentInv'
<1> DEFINE i == call.id
           event == Event("cancelled", None)
<1> USE DEF AgentInv
<1>1. /\ signal' = TRUE /\ checkpoint' = None
      /\ UNCHANGED <<source, run, inFlight, started, left>>
  BY DEF Abort
<1>2. CASE call.pc # "waiting" \/ ~Live(sess[i])
  <2>1. UNCHANGED <<sess, row, suppressed, reported>> /\ (call' = call \/ call' = Rejected)
    BY <1>2 DEF Abort, TurnVars
  <2>2. CASE call' = call
    <3>1. RestOK'
      BY <1>1, <2>1, <2>2 DEF RestOK
    <3>2. CallInv'
      BY <1>1, <2>1, <2>2 DEF CallInv, Waits, Decided, Elsewhere
    <3> QED BY <2>1, <3>1, <3>2
  <2>3. CASE call' = Rejected
    <3>1. CallInv' /\ call' \in Calls
      BY <2>3, CallRejected DEF RestOK
    <3>2. RestOK'
      BY <1>1, <2>1, <3>1 DEF RestOK
    <3> QED BY <2>1, <3>1, <3>2
  <2> QED BY <2>1, <2>2, <2>3
<1>3. CASE call.pc = "waiting" /\ Live(sess[i])
  <2>1. sess' = [sess EXCEPT ![i] = CancelledSession(sess[i])] /\ Emitted(i, event)
    BY <1>3 DEF Abort
  <2>2. event \in Events /\ event.state = "cancelled" /\ "cancelled" \in Ends
    BY DEF Event, Events, SessionStates, Ends
  <2> HIDE DEF event
  <2>3. CASE i \in Ids
    <3>1. sess' \in [Ids -> Sessions]
      BY <2>1, <2>3, EndsAndResumes
    <3>2. RestOK' /\ call' = Settled(event)
      BY <1>1, <1>3, <2>1, <2>2, <2>3, EmittedTypes DEF RestOK, Hears
    <3>3. CallInv'
      BY <1>3, <2>2, <3>2, CallSettles DEF RestOK
    <3> QED BY <3>1, <3>2, <3>3
  <2>4. CASE i \notin Ids
    <3>1. sess' = sess /\ row' = row
      BY <2>1, <2>4 DEF RestOK, Emitted
    <3>2. call' = Settled(event) /\ call' \in Calls
      BY <1>3, <2>1, <2>2, SettledIsCall DEF RestOK, Emitted, CallAfter, Hears
    <3>3. suppressed' \subseteq Ids /\ reported' = reported
      BY <2>1, <2>2, <2>4 DEF RestOK, Emitted, ReportedAfter
    <3>4. RestOK'
      BY <1>1, <3>1, <3>2, <3>3 DEF RestOK
    <3>5. CallInv'
      BY <1>3, <2>2, <3>2, CallSettles DEF RestOK
    <3> QED BY <3>1, <3>4, <3>5
  <2> QED BY <2>3, <2>4
<1> QED BY <1>2, <1>3

\* The closure returns what it settled on.
LEMMA ReturnStep ==
  ASSUME AgentInv, Return
  PROVE  AgentInv'
<1> USE DEF AgentInv
<1>1. RestOK' /\ UNCHANGED <<sess, call, started>>
  BY DEF Return, RestOK, RunStates
<1>2. CallInv'
  BY <1>1 DEF CallInv, Waits, Decided, Elsewhere
<1> QED BY <1>1, <1>2

\* The engine makes the call again after a crash.
LEMMA AgainStep ==
  ASSUME AgentInv, Again
  PROVE  AgentInv'
<1> USE DEF AgentInv
<1>1. CallInv' /\ call' \in Calls
  BY CallIdles DEF Again
<1>2. left' \in 0 .. MaxEvents
  BY BoundsAssumption DEF Again, RestOK, BoundsAssumption
<1>3. RestOK' /\ sess' = sess
  BY <1>1, <1>2 DEF Again, RestOK, RunStates
<1> QED BY <1>1, <1>3

\* The daemon dies: sessions, queues and the closure go.
LEMMA CrashStep ==
  ASSUME AgentInv, Crash
  PROVE  AgentInv'
<1> USE DEF AgentInv
<1>1. sess' \in [Ids -> Sessions] /\ \A i \in Ids : Elsewhere(sess'[i])
  BY EmptySession DEF Crash, Elsewhere
<1>2. left' \in 0 .. MaxEvents
  BY BoundsAssumption DEF Crash, RestOK, BoundsAssumption
<1>3. call' \in Calls /\ CallInv'
  <2>1. CASE call' = IdleCall
    BY <2>1, CallIdles
  <2>2. CASE call' # IdleCall
    <3>1. call' = call /\ call.pc = "done"
      BY <2>2 DEF Crash
    <3> QED BY <1>1, <3>1 DEF CallInv, Waits, Decided, RestOK
  <2> QED BY <2>1, <2>2
<1>4. RestOK'
  BY <1>2, <1>3 DEF Crash, RestOK
<1> QED BY <1>1, <1>3, <1>4

(***************************************************************************)
(* What people ask keeps the invariant                                     *)
(***************************************************************************)

\* A control or a fault stays within its bound.
LEMMA Spends ==
  ASSUME RestOK, Spend
  PROVE  left' \in 0 .. MaxEvents
BY BoundsAssumption DEF Spend, RestOK, BoundsAssumption

\* Requests in flight.
Requests == [op: {"send", "interrupt", "resuming"}, id: Ids]

\* Cancelling sessions keeps the turns they are at, and a call that waits for
\* one of them is rejected.
LEMMA CancelAllStep ==
  ASSUME AgentInv, NEW A \in SUBSET Ids, NEW quiet \in BOOLEAN, NEW state \in RowStates,
         CancelAll(A, quiet, state), Spend, run' \in RunStates, inFlight' \subseteq Requests,
         UNCHANGED <<source, checkpoint, signal, reported, started>>
  PROVE  AgentInv'
<1> DEFINE hit == {i \in A : Live(sess[i])}
           event == Event("cancelled", None)
           after(i) == IF i \notin hit THEN row[i]
                       ELSE RowAfter(i, event, quiet \/ i \in suppressed)
<1> USE DEF AgentInv
<1>1. /\ sess' = [i \in Ids |-> IF i \in hit THEN CancelledSession(sess[i]) ELSE sess[i]]
      /\ row' = [i \in Ids |-> IF i \in A THEN SaveRow(after(i), state) ELSE row[i]]
      /\ call' = IF \E i \in hit : Hears(i) THEN Settled(event) ELSE call
      /\ suppressed' = (IF quiet THEN suppressed \cup A ELSE suppressed) \ hit
  BY DEF CancelAll
<1>2. event \in Events /\ event.state = "cancelled" /\ hit \subseteq Ids
  BY DEF Event, Events, SessionStates
<1> HIDE DEF event, hit
<1>3. sess' \in [Ids -> Sessions] /\ \A i \in Ids : sess'[i].turn = sess[i].turn
  BY <1>1, EndsAndResumes
<1>4. row' \in [Ids -> RowStates]
  <2>1. \A i \in Ids : after(i) \in RowStates
    <3> TAKE i \in Ids
    <3>1. (quiet \/ i \in suppressed) \in BOOLEAN /\ row[i] \in RowStates
      BY DEF RestOK
    <3>2. RowAfter(i, event, quiet \/ i \in suppressed) \in RowStates
      BY <1>2, <3>1, RowAfterOK
    <3> QED BY <3>1, <3>2
  <2> HIDE DEF after
  <2>2. \A i \in Ids : row[i] \in RowStates /\ SaveRow(after(i), state) \in RowStates
    BY <2>1 DEF SaveRow, RestOK
  <2> QED BY <1>1, <2>2
<1>5. suppressed' \subseteq Ids
  BY <1>1 DEF RestOK
<1>6. left' \in 0 .. MaxEvents
  BY Spends
<1>7. call' \in Calls
  BY <1>1, <1>2, SettledIsCall DEF RestOK
<1>8. RestOK'
  BY <1>4, <1>5, <1>6, <1>7 DEF RestOK, Requests
<1>9. CASE \E i \in hit : Hears(i)
  <2>1. call' = Settled(event) /\ call.pc = "waiting" /\ call \in Calls
    BY <1>1, <1>9 DEF Hears, RestOK
  <2>2. CallInv'
    BY <1>2, <2>1, CallSettles
  <2> QED BY <1>3, <1>8, <2>2
<1>10. CASE ~\E i \in hit : Hears(i)
  <2>1. call' = call /\ started' = started
    BY <1>1, <1>10
  <2>2. Waits => call.id \in Ids /\ call.id \notin hit
    BY <1>10, Bounds DEF Waits, Hears, CallInv, RestOK
  <2>3. Waits => sess'[call.id] = sess[call.id]
    BY <1>1, <2>2
  <2>4. CallInv'
    BY <1>3, <1>8, <2>1, <2>3, CallKept DEF CallInv, Elsewhere, RestOK
  <2> QED BY <1>3, <1>8, <2>4
<1> QED BY <1>9, <1>10

\* A person interrupts a session.
LEMMA InterruptStep ==
  ASSUME AgentInv, NEW i \in Ids, Interrupt(i)
  PROVE  AgentInv'
<1>1. row[i] \in RowStates /\ run \in RunStates /\ inFlight \subseteq Requests /\ {i} \in SUBSET Ids
  BY DEF AgentInv, RestOK, Requests
<1>2. [op |-> "resuming", id |-> i] \in Requests
  BY DEF Requests
<1> QED BY <1>1, <1>2, CancelAllStep DEF Interrupt

\* A person stops a session.
LEMMA StopStep ==
  ASSUME AgentInv, NEW i \in Ids, Stop(i)
  PROVE  AgentInv'
<1>1. "stopped" \in RowStates /\ run \in RunStates /\ inFlight \subseteq Requests /\ {i} \in SUBSET Ids
  BY DEF AgentInv, RestOK, Requests, RowStates
<1> QED BY <1>1, CancelAllStep DEF Stop

\* A person pauses the run: its active rows wait.
LEMMA PauseRunStep ==
  ASSUME AgentInv, PauseRun
  PROVE  AgentInv'
<1> DEFINE A == {i \in Ids : ActiveRow(row[i])}
<1>1. /\ "waiting" \in RowStates /\ run' \in RunStates /\ inFlight' \subseteq Requests
      /\ A \in SUBSET Ids /\ CancelAll(A, TRUE, "waiting") /\ Spend
      /\ UNCHANGED <<source, checkpoint, signal, reported, started>>
  BY DEF AgentInv, RestOK, Requests, RowStates, RunStates, PauseRun
<1> HIDE DEF A
<1> QED BY <1>1, CancelAllStep

\* The session that the call waits for has a turn and was not cancelled.
LEMMA WaitsAre ==
  ASSUME RestOK, CallInv, Waits
  PROVE  call.id \in Ids /\ sess[call.id].turn # None /\ sess[call.id].state # "cancelled"
<1>1. NewTurn("call") # None
  BY NewTurns DEF Prompts
<1> QED BY <1>1, Bounds DEF CallInv, RestOK

\* A person's instruction goes to the end of the session's queue.
LEMMA SendInstructionStep ==
  ASSUME AgentInv, NEW i \in Ids, SendInstruction(i)
  PROVE  AgentInv'
<1> DEFINE s == Enqueued(Announced(sess[i]), "send")
<1> USE DEF AgentInv
<1>1. sess[i] \in Sessions /\ sess' = [sess EXCEPT ![i] = s] /\ "send" \in Prompts
  BY DEF SendInstruction, Prompts
<1>2. /\ s \in Sessions /\ s.state = "running"
      /\ s.turn = IF sess[i].turn = None THEN NewTurn("send") ELSE sess[i].turn
  BY <1>1, AnnouncedIs, EnqueuedIs
<1> HIDE DEF s
<1>3. sess' \in [Ids -> Sessions] /\ sess'[i] = s /\ \A j \in Ids \ {i} : sess'[j] = sess[j]
  BY <1>1, <1>2, SessionChanges
<1>4. row' \in [Ids -> RowStates]
  BY DEF SendInstruction, Saved, SaveRow, RestOK, RowStates
<1>5. left' \in 0 .. MaxEvents
  BY Spends DEF SendInstruction
<1>6. RestOK' /\ call' = call /\ started' = started
  BY <1>4, <1>5 DEF SendInstruction, RestOK
<1>7. \A j \in Ids : Elsewhere(sess[j]) => Elsewhere(sess'[j])
  BY <1>1, <1>2, <1>3, NewTurns DEF Elsewhere
<1>8. Waits => /\ call.id \in Ids /\ sess'[call.id].turn = sess[call.id].turn
               /\ sess'[call.id].state # "cancelled"
  BY <1>2, <1>3, WaitsAre
<1>9. CallInv'
  BY <1>6, <1>7, <1>8, CallKept DEF RestOK
<1> QED BY <1>3, <1>6, <1>9

\* An interrupted session goes on with the instruction that came with it.
LEMMA InterruptResumesStep ==
  ASSUME AgentInv, NEW i \in Ids, InterruptResumes(i)
  PROVE  AgentInv'
<1> DEFINE s == Enqueued(ResumedSession(sess[i]), "interrupt")
<1> USE DEF AgentInv
<1>1. sess[i] \in Sessions /\ sess' = [sess EXCEPT ![i] = s] /\ "interrupt" \in Prompts
  BY DEF InterruptResumes, Prompts
<1>2. /\ s \in Sessions /\ s.state = "running"
      /\ s.turn = IF sess[i].turn = None THEN NewTurn("interrupt") ELSE sess[i].turn
  BY <1>1, EndsAndResumes, EnqueuedIs
<1> HIDE DEF s
<1>3. sess' \in [Ids -> Sessions] /\ sess'[i] = s /\ \A j \in Ids \ {i} : sess'[j] = sess[j]
  BY <1>1, <1>2, SessionChanges
<1>4. row' \in [Ids -> RowStates]
  BY DEF InterruptResumes, Saved, SaveRow, RestOK, RowStates
<1>5. inFlight' \subseteq Requests
  BY DEF InterruptResumes, RestOK, Requests
<1>6. RestOK' /\ call' = call /\ started' = started
  BY <1>4, <1>5 DEF InterruptResumes, RestOK, Requests
<1>7. \A j \in Ids : Elsewhere(sess[j]) => Elsewhere(sess'[j])
  BY <1>1, <1>2, <1>3, NewTurns DEF Elsewhere
<1>8. Waits => /\ call.id \in Ids /\ sess'[call.id].turn = sess[call.id].turn
               /\ sess'[call.id].state # "cancelled"
  BY <1>2, <1>3, WaitsAre
<1>9. CallInv'
  BY <1>6, <1>7, <1>8, CallKept DEF RestOK
<1> QED BY <1>3, <1>6, <1>9

\* The instruction after an interruption cannot be given.
LEMMA InterruptFailsStep ==
  ASSUME AgentInv, NEW i \in Ids, InterruptFails(i)
  PROVE  AgentInv'
<1> USE DEF AgentInv
<1>1. left' \in 0 .. MaxEvents
  BY BoundsAssumption DEF InterruptFails, RestOK, BoundsAssumption
<1>2. RestOK' /\ UNCHANGED <<sess, call, started>>
  BY <1>1 DEF InterruptFails, TurnVars, RestOK
<1>3. CallInv'
  BY <1>2 DEF CallInv, Waits, Decided, Elsewhere
<1> QED BY <1>2, <1>3

\* A person resumes the run: its waiting sessions are told to go on.
LEMMA ResumeRunStep ==
  ASSUME AgentInv, ResumeRun
  PROVE  AgentInv'
<1> DEFINE W == {i \in Ids : row[i] = "waiting"}
<1> USE DEF AgentInv
<1>1. /\ sess' = [i \in Ids |-> IF i \in W THEN ResumedSession(sess[i]) ELSE sess[i]]
      /\ row' = [i \in Ids |-> IF i \in W THEN "running" ELSE row[i]]
      /\ run' = "running" /\ Spend
      /\ UNCHANGED <<source, call, checkpoint, signal, suppressed, reported, inFlight, started>>
  BY DEF ResumeRun
<1>2. row' \in [Ids -> RowStates] /\ run' \in RunStates
  BY <1>1 DEF RestOK, RowStates, RunStates
<1>3. RestOK'
  BY <1>1, <1>2, Spends DEF RestOK
<1> HIDE DEF W
<1>4. /\ sess' \in [Ids -> Sessions]
      /\ \A i \in Ids : /\ sess'[i].turn = sess[i].turn
                        /\ sess[i].state # "cancelled" => sess'[i].state # "cancelled"
  BY <1>1, EndsAndResumes
<1>5. Waits => call.id \in Ids
  BY Bounds DEF CallInv, RestOK
<1>6. CallInv'
  BY <1>1, <1>3, <1>4, <1>5, CallKept DEF CallInv, Elsewhere, RestOK
<1> QED BY <1>3, <1>4, <1>6

\* A session that starts beside the call's is at another prompt.
LEMMA StartsBeside ==
  ASSUME AgentInv, started < MaxSessions, NEW s \in Sessions, Elsewhere(s),
         sess' = [sess EXCEPT ![started + 1] = s],
         row' \in [Ids -> RowStates], source' \in [Ids -> {None} \cup [of: Ids, by: Actions]],
         run' \in RunStates, started' = started + 1, Spend,
         UNCHANGED <<call, checkpoint, signal, suppressed, reported, inFlight>>
  PROVE  AgentInv'
<1> DEFINE j == started + 1
<1> USE DEF AgentInv
<1>1. j \in Ids /\ started' = j /\ j \in 0 .. MaxSessions /\ started <= j /\ j \notin 1 .. started
  BY Bounds DEF RestOK
<1> HIDE DEF j
<1>2. sess' = [sess EXCEPT ![j] = s]
  BY DEF j
<1>3. sess' \in [Ids -> Sessions] /\ sess'[j] = s /\ \A k \in Ids \ {j} : sess'[k] = sess[k]
  BY <1>1, <1>2, SessionChanges
<1>4. RestOK'
  BY <1>1, Spends DEF RestOK
<1>5. Waits => call.id \in Ids \ {j} /\ sess[call.id].state # "cancelled"
  BY <1>1, WaitsAre DEF CallInv
<1>6. CallInv'
  BY <1>1, <1>3, <1>4, <1>5, CallKept
<1> QED BY <1>3, <1>4, <1>6

\* A session is replaced by a new one, whose prompt is nobody's call.
LEMMA ReplaceStep ==
  ASSUME AgentInv, NEW i \in Ids, NEW by \in Actions, Replace(i, by)
  PROVE  AgentInv'
<1> DEFINE j == started + 1
<1>1. StartedSession("again") \in Sessions /\ Elsewhere(StartedSession("again"))
  BY StartedIs, NewTurns DEF Prompts, Elsewhere
<1>2. j \in Ids /\ row \in [Ids -> RowStates] /\ source \in [Ids -> {None} \cup [of: Ids, by: Actions]]
  BY Bounds DEF Replace, AgentInv, RestOK
<1>3. row' \in [Ids -> RowStates] /\ source' \in [Ids -> {None} \cup [of: Ids, by: Actions]]
  <2>1. row' = [row EXCEPT ![j] = "running"] /\ source' = [source EXCEPT ![j] = [of |-> i, by |-> by]]
    BY DEF Replace, Registered, Saved, SaveBinding
  <2> HIDE DEF j
  <2> QED BY <1>2, <2>1 DEF RowStates
<1> QED BY <1>1, <1>3, StartsBeside DEF Replace, RunStates

\* A set of naturals with a member and a bound has a largest member.
LEMMA Largest ==
  ASSUME NEW N \in Nat, NEW T \in SUBSET (1 .. N), T # {}
  PROVE  \E m \in T : \A k \in T : k <= m
<1> DEFINE D == {N - k : k \in T}
           R == {p \in Nat \X Nat : p[1] < p[2]}
<1>1. D \in SUBSET Nat /\ D # {}
  <2>1. \A k \in T : N - k \in Nat
    OBVIOUS
  <2> QED BY <2>1
<1>2. IsWellFoundedOn(R, Nat)
  BY NatLessThanWellFounded DEF OpToRel
<1>3. \A x, y \in Nat : <<y, x>> \in R <=> y < x
  OBVIOUS
<1>4. PICK d \in D : \A e \in D : ~(e < d)
  <2> HIDE DEF D, R
  <2>1. PICK d \in D : \A e \in D : ~(<<e, d>> \in R)
    BY <1>1, <1>2, WFMin
  <2> QED BY <1>1, <1>3, <2>1
<1>5. PICK m \in T : d = N - m
  OBVIOUS
<1>6. \A k \in T : N - k \in D /\ N - k \in Nat /\ N - m \in Nat /\ k \in Nat /\ m \in Nat
  OBVIOUS
<1>7. \A k \in T : ~(N - k < N - m)
  BY <1>4, <1>5, <1>6
<1> QED BY <1>6, <1>7

\* The session that a retry replaces is one.
LEMMA LatestIs ==
  ASSUME \E i \in Ids : row[i] # "none"
  PROVE  Latest \in Ids
<1> DEFINE T == {i \in Ids : row[i] # "none"}
<1>1. MaxSessions \in Nat /\ T \in SUBSET (1 .. MaxSessions) /\ T # {}
  BY Bounds
<1> HIDE DEF T
<1>2. PICK m \in T : \A k \in T : k <= m
  BY <1>1, Largest
<1>3. m \in Ids /\ row[m] # "none" /\ \A j \in Ids : row[j] # "none" => j <= m
  BY <1>2 DEF T
<1> QED BY <1>3 DEF Latest

\* A person retries the run: its latest session is replaced.
LEMMA RetryRunStep ==
  ASSUME AgentInv, RetryRun
  PROVE  AgentInv'
<1>1. Latest \in Ids /\ "retry" \in Actions
  BY LatestIs, Bounds DEF RetryRun
<1>2. CASE Replace(Latest, "retry")
  BY <1>1, <1>2, ReplaceStep
<1>3. CASE ~Replace(Latest, "retry")
  <2> DEFINE s == CancelledSession(StartedSession("again"))
  <2>1. /\ started < MaxSessions /\ Spend /\ started' = started + 1
        /\ sess' = [sess EXCEPT ![started + 1] = s]
        /\ UNCHANGED <<row, source, run, call, checkpoint, signal, suppressed, reported, inFlight>>
    BY <1>3 DEF RetryRun
  <2>2. s \in Sessions /\ Elsewhere(s)
    BY StartedIs, EndsAndResumes, NewTurns DEF Prompts, Elsewhere
  <2>3. /\ row' \in [Ids -> RowStates] /\ run' \in RunStates
        /\ source' \in [Ids -> {None} \cup [of: Ids, by: Actions]]
    BY <2>1 DEF AgentInv, RestOK
  <2> HIDE DEF s
  <2> QED BY <2>1, <2>2, <2>3, StartsBeside
<1> QED BY <1>2, <1>3

(***************************************************************************)
(* The theorems                                                            *)
(***************************************************************************)

\* Nothing is started at first.
LEMMA AgentInit == Init => AgentInv
<1> SUFFICES ASSUME Init PROVE AgentInv
  OBVIOUS
<1>1. call \in Calls /\ CallInv
  BY NoneAssumption DEF Init, IdleCall, CallInv, Waits, Decided, Calls, NoneAssumption
<1>2. left \in 0 .. MaxEvents /\ started \in 0 .. MaxSessions
  BY BoundsAssumption DEF Init, BoundsAssumption
<1>3. RestOK
  BY <1>1, <1>2 DEF Init, RestOK, RowStates, RunStates
<1>4. sess \in [Ids -> Sessions]
  BY EmptySession DEF Init
<1> QED BY <1>1, <1>4, <1>3 DEF AgentInv

\* One step per action of the adapter, the closure and the controls.
LEMMA AgentStep == AgentInv /\ [Next]_vars => AgentInv'
<1> SUFFICES ASSUME AgentInv, [Next]_vars PROVE AgentInv'
  OBVIOUS
<1>1. CASE UNCHANGED vars
  BY <1>1 DEF vars, AgentInv, RestOK, CallInv, Waits, Decided, Elsewhere
<1>2. CASE Closure
  BY <1>2, StartCallStep, SessionStartsStep, SessionRestoredStep, ReturnStep DEF Closure
<1>3. CASE StartFails \/ StoreFails \/ Abort \/ Again \/ Crash
  BY <1>3, StartFailsStep, StoreFailsStep, AbortStep, AgainStep, CrashStep
<1>4. CASE RunTools
  BY <1>4, PauseRunStep, ResumeRunStep, RetryRunStep DEF RunTools
<1>5. ASSUME NEW i \in Ids, AgentTools(i) PROVE AgentInv'
  BY <1>5, SendInstructionStep, InterruptStep, StopStep, ReplaceStep DEF AgentTools
<1>6. ASSUME NEW i \in Ids, Turn(i) PROVE AgentInv'
  BY <1>6, SpeaksStep, ReportsStep, FailsOpenStep, EndTurnStep
  DEF Turn, StreamError, Watchdog
<1>7. ASSUME NEW i \in Ids, InterruptResumes(i) \/ InterruptFails(i) PROVE AgentInv'
  BY <1>7, InterruptResumesStep, InterruptFailsStep
<1> QED BY <1>1, <1>2, <1>3, <1>4, <1>5, <1>6, <1>7 DEF Next, Person

\* The invariant of the module.
LEMMA AgentInvariant == Spec => []AgentInv
BY AgentInit, AgentStep, PTL DEF Spec

(* Every variable keeps its type, and prompts wait behind a turn only: what   *)
(* enqueuePrompt and the queue it drains promise each other                   *)
(* (packages/harness/src/acp-runtime-adapter.ts).                             *)
THEOREM AgentTypeCorrect == Spec => []TypeOK
BY AgentInvariant, InvIsType, PTL

(* A workflow gets the answer to its own prompt, though people interrupt the  *)
(* session, pause and resume the run, and queue instructions of their own on  *)
(* the session meanwhile. The invariant that shows it: while the call waits   *)
(* for the session it started, that session's turn is the call's prompt,      *)
(* unsettled, and the session is not cancelled.                               *)
THEOREM AnswersAreOwnPrompt == Spec => []AnswerIsOwn
BY AgentInvariant, InvIsType, PTL

(* Sessions that have not been started replace nothing, and a session is      *)
(* never replaced twice for the same reason: the look for a binding and the   *)
(* binding itself are one step of the store (startReplacement,                *)
(* packages/runtime/src/agent-controls.ts), before and after a restart.       *)
THEOREM ReplacementsAreUnique == Spec => []OneReplacement
<1> DEFINE Fresh == \A k \in Ids : k > started => source[k] = None
           Inv == Fresh /\ OneReplacement
<1>1. Init => Inv
  BY DEF Init, OneReplacement
<1>2. AgentInv /\ Inv /\ [Next]_vars => Inv'
  <2> SUFFICES ASSUME AgentInv, Inv, [Next]_vars PROVE Inv'
    OBVIOUS
  <2>1. started \in Nat /\ source \in [Ids -> {None} \cup [of: Ids, by: Actions]]
    BY Bounds DEF AgentInv, RestOK
  <2>2. CASE source' = source /\ started' \in Nat /\ started' >= started
    BY <2>1, <2>2, Bounds DEF OneReplacement
  <2>3. ASSUME NEW i \in Ids, NEW by \in Actions, Replace(i, by) PROVE Inv'
    <3> DEFINE j == started + 1
               b == [of |-> i, by |-> by]
    <3>1. /\ j \in Ids /\ started' = j /\ source' = [source EXCEPT ![j] = b]
          /\ \A k \in Ids : source[k] # None => ~(source[k].of = i /\ source[k].by = by)
      BY <2>1, <2>3, Bounds DEF Replace, SaveBinding, Replacements, Bindings
    <3>2. b.of = i /\ b.by = by
      OBVIOUS
    <3> HIDE DEF b
    <3>3. source'[j] = b /\ \A k \in Ids \ {j} : source'[k] = source[k]
      BY <2>1, <3>1
    <3>7. \A k \in Ids \ {j} : source'[k] = b => source[k] = None
      BY <3>1, <3>2, <3>3
    <3>4. \A k \in Ids : k > j => k \in Ids \ {j} /\ k > started
      BY <2>1, Bounds
    <3>5. source[j] = None /\ Fresh'
      BY <2>1, <3>1, <3>3, <3>4, Bounds
    <3>6. OneReplacement'
      BY <2>1, <3>1, <3>3, <3>7 DEF OneReplacement
    <3> QED BY <3>5, <3>6
  <2>4. CASE Closure \/ UNCHANGED vars \/ StartFails \/ StoreFails \/ Abort \/ Again \/ Crash
    BY <2>1, <2>2, <2>4 DEF Closure, StartCall, SessionStarts, SessionRestored, Return, vars,
       StartFails, StoreFails, Abort, Again, Crash
  <2>5. CASE RunTools
    <3>1. PauseRun \/ ResumeRun => source' = source /\ started' = started
      BY DEF PauseRun, ResumeRun
    <3>2. ASSUME RetryRun PROVE Replace(Latest, "retry") \/ (source' = source /\ started' = started + 1)
      BY <3>2 DEF RetryRun
    <3>3. RetryRun => Latest \in Ids /\ "retry" \in Actions
      BY LatestIs, Bounds DEF RetryRun
    <3> QED BY <2>1, <2>2, <2>3, <2>5, <3>1, <3>2, <3>3 DEF RunTools
  <2>6. ASSUME NEW i \in Ids, AgentTools(i) PROVE Inv'
    <3>1. SendInstruction(i) \/ Interrupt(i) \/ Stop(i) => source' = source /\ started' = started
      BY DEF SendInstruction, Interrupt, Stop
    <3> QED BY <2>1, <2>2, <2>3, <2>6, <3>1 DEF AgentTools
  <2>7. ASSUME NEW i \in Ids, Turn(i) \/ InterruptResumes(i) \/ InterruptFails(i) PROVE Inv'
    <3>1. source' = source /\ started' = started
      BY <2>7 DEF Turn, Speaks, StreamError, Watchdog, FailsOpen, Reports, EndTurn,
         InterruptResumes, InterruptFails
    <3> QED BY <2>1, <2>2, <3>1
  <2> QED BY <2>4, <2>5, <2>6, <2>7 DEF Next, Person
<1>3. Inv => OneReplacement
  OBVIOUS
<1> QED BY <1>1, <1>2, <1>3, AgentInvariant, PTL DEF Spec

================================================================================
