------------------------------- MODULE Channels -------------------------------
(* Questions to people and their replies: the intervention service             *)
(* (packages/runtime/src/interventions.ts) and the channel gateway             *)
(* (packages/channels/src/gateway.ts) as the daemon connects them              *)
(* (apps/cli/src/daemon.ts), in one conversation on one channel.               *)
(*                                                                             *)
(* A question is notified when it is created and again when the daemon starts; *)
(* what was sent is correlated with the question, and a reply is routed by the *)
(* message it quotes, by the code it names, or to the only question pending.   *)
(* Between two waits for the network a handler is not interrupted: the SQLite  *)
(* store answers at once.                                                      *)
EXTENDS Integers, Sequences, FiniteSets

CONSTANTS
  Asked,        \* interventions: the questions agents and the daemon ask
  Control,      \* the incident of a control that could not be applied
  Replies,      \* messages of the person
  Deliveries,   \* of the replies by the provider: pairs of a reply and a number
  MaxAttempts,  \* maxDeliveryRetries + 1
  MaxFaults,    \* requests that fail, answers that are lost and restarts: a bound
  None

ASSUME ChannelsAssumption ==
  /\ IsFiniteSet(Asked) /\ Control \notin Asked
  /\ Deliveries \subseteq Replies \X Nat
  /\ MaxAttempts \in Nat \ {0} /\ MaxFaults \in Nat

Questions == Asked \cup {Control}
MaxMessages == Cardinality(Questions) * (1 + MaxFaults)
Messages == 1 .. MaxMessages

VARIABLES
  record,       \* status of each intervention in the store
  asker,        \* the call of askHuman that waits for it
  chat,         \* the question each message of the conversation shows
  correlation,  \* of each message, in the store
  processed,    \* receipts of inbound messages, in the store
  delivery,     \* the notification of each question under way
  completed,    \* completedDeliveries of questions
  boot,         \* questions a start has still to notify again
  written,      \* what each reply says
  handling,     \* the handling of each copy of a reply
  processing,   \* processingInbound
  seen,         \* seenInbound
  effects,      \* times a reply acted (a history variable)
  left          \* what remains of MaxFaults

store == <<record, correlation, processed>>
notices == <<chat, delivery, completed, boot>>
inbound == <<handling, processing, seen, effects>>
vars == <<record, asker, chat, correlation, processed, delivery, completed, boot, written,
          handling, processing, seen, effects, left>>

Idle == [at |-> "none", tries |-> 0, again |-> FALSE]
Unread == [at |-> "new", question |-> None]
Unwritten == [quotes |-> 0, names |-> None, sent |-> FALSE]

TypeOK ==
  /\ record \in [Questions -> {"none", "open", "resolved", "dismissed"}]
  /\ asker \in [Asked -> {"no", "asking", "answered", "gave up"}]
  /\ chat \in Seq(Questions) /\ Len(chat) <= MaxMessages
  /\ correlation \in [Messages -> {"none", "active", "inactive"}]
  /\ \A m \in Messages : correlation[m] # "none" => m <= Len(chat)
  /\ delivery \in [Questions -> [at: {"none", "due", "sent", "done", "failed"},
                                 tries: 0 .. MaxAttempts, again: BOOLEAN]]
  /\ completed \subseteq Questions
  /\ boot \subseteq Questions
  /\ written \in [Replies -> [quotes: 0 .. MaxMessages, names: {None} \cup Questions,
                              sent: BOOLEAN]]
  /\ handling \in [Deliveries ->
                     [at: {"new", "apply", "report", "chat", "close", "ended"},
                      question: {None} \cup Questions]]
  /\ processing \subseteq Replies /\ seen \subseteq processed /\ processed \subseteq Replies
  /\ effects \in [Replies -> Nat]
  /\ left \in 0 .. MaxFaults

Init ==
  /\ record = [q \in Questions |-> "none"]
  /\ asker = [q \in Asked |-> "no"]
  /\ chat = <<>>
  /\ correlation = [m \in Messages |-> "none"]
  /\ processed = {}
  /\ delivery = [q \in Questions |-> Idle]
  /\ completed = {} /\ boot = {}
  /\ written = [r \in Replies |-> Unwritten]
  /\ handling = [h \in Deliveries |-> Unread]
  /\ processing = {} /\ seen = {}
  /\ effects = [r \in Replies |-> 0]
  /\ left = MaxFaults

Fault == left > 0 /\ left' = left - 1
InFlight(q) == delivery[q].at \in {"due", "sent"}
\* the services a start begins after it has notified the open questions again
Running == boot = {} /\ \A q \in Questions : ~ (InFlight(q) /\ delivery[q].again)
Shown(q) == {m \in 1 .. Len(chat) : chat[m] = q}
Pending == {q \in Questions : \E m \in Shown(q) : correlation[m] = "active"}
-----------------------------------------------------------------------------
(* Questions and their notifications.                                          *)

\* notify, deliverToTransport and attemptDelivery up to the first request
Notified(q, again) ==
  IF ~ again /\ (q \in completed \/ q \in Pending)
  THEN [Idle EXCEPT !.at = "done"]
  ELSE [Idle EXCEPT !.at = "due", !.again = again]

\* saveIntervention: the row of a question
SaveIntervention(q, status) == record' = [record EXCEPT ![q] = status]

\* createOnce: a key that is known returns the record it made, whatever its status
Created(q) ==
  IF record[q] # "none" THEN UNCHANGED <<record, delivery>>
  ELSE /\ SaveIntervention(q, "open")
       /\ delivery' = [delivery EXCEPT ![q] = Notified(q, FALSE)]

AskHuman(q) ==
  /\ Running /\ q \in Asked
  /\ asker[q] \in {"no", "gave up"}
  /\ asker' = [asker EXCEPT ![q] = "asking"]
  /\ Created(q)
  /\ UNCHANGED <<chat, correlation, processed, completed, boot, written, handling,
                 processing, seen, effects, left>>

\* askHuman polls the record once create and the subscribers of its event have returned
Poll(q) ==
  /\ q \in Asked /\ asker[q] = "asking" /\ ~ InFlight(q)
  /\ record[q] \in {"resolved", "dismissed"}
  /\ asker' = [asker EXCEPT ![q] = "answered"]
  /\ UNCHANGED <<store, notices, written, inbound, left>>

Expire(q) ==
  /\ q \in Asked /\ asker[q] = "asking" /\ ~ InFlight(q) /\ record[q] = "open"
  /\ asker' = [asker EXCEPT ![q] = "gave up"]
  /\ UNCHANGED <<store, notices, written, inbound, left>>

Send(q) ==
  /\ delivery[q].at = "due"
  /\ delivery' = [delivery EXCEPT ![q].at = "sent", ![q].tries = @ + 1]
  /\ chat' = Append(chat, q)
  /\ UNCHANGED <<store, asker, completed, boot, written, inbound, left>>

\* after an attempt that failed: again, or the report of a delivery that failed
Backoff(tries) == IF tries < MaxAttempts THEN "due" ELSE "failed"

\* the provider refuses the request
SendFails(q) ==
  /\ delivery[q].at = "due"
  /\ Fault
  /\ delivery' = [delivery EXCEPT ![q].at = Backoff(delivery[q].tries + 1), ![q].tries = @ + 1]
  /\ UNCHANGED <<store, asker, chat, completed, boot, written, inbound>>

\* the message is shown and its answer is lost
SendIsLost(q) ==
  /\ delivery[q].at = "sent"
  /\ Fault
  /\ delivery' = [delivery EXCEPT ![q].at = Backoff(delivery[q].tries)]
  /\ UNCHANGED <<store, asker, chat, completed, boot, written, inbound>>

Last(q) == CHOOSE m \in Shown(q) : \A n \in Shown(q) : n <= m

\* saveChannelMessageCorrelation: a message that was saved before is active again
SaveCorrelation(m) == correlation' = [correlation EXCEPT ![m] = "active"]

SendReturns(q) ==
  /\ delivery[q].at = "sent"
  /\ SaveCorrelation(Last(q))
  /\ delivery' = [delivery EXCEPT ![q].at = "done"]
  /\ completed' = completed \cup {q}
  /\ UNCHANGED <<record, processed, asker, chat, boot, written, inbound, left>>

\* an answer over MCP, which leaves the correlations alone
AnswerElsewhere(q) ==
  /\ Running
  /\ record[q] = "open"
  /\ \E status \in {"resolved", "dismissed"} : SaveIntervention(q, status)
  /\ UNCHANGED <<correlation, processed, asker, notices, written, inbound, left>>

-----------------------------------------------------------------------------
(* Replies.                                                                    *)

\* external: what a person may write. A message says what it says before it is delivered:
\* that is settled here at its first delivery, when all the messages it may quote are there
Contents ==
  {[quotes |-> m, names |-> None, sent |-> TRUE] : m \in 0 .. Len(chat)}
    \cup {[quotes |-> 0, names |-> chat[m], sent |-> TRUE] : m \in 1 .. Len(chat)}

\* getActiveChannelMessageCorrelation
Active(m) == m # 0 /\ correlation[m] = "active"

\* resolveIntervention of a message w
Route(w) ==
  IF Active(w.quotes) THEN chat[w.quotes]
  ELSE IF w.names \in Pending THEN w.names
  ELSE IF Cardinality(Pending) = 1 THEN CHOOSE q \in Pending : TRUE
  ELSE None

\* resolve: a record that is resolved is returned as it is, a dismissed one refused
Resolve(q) ==
  IF record[q] = "open"
  THEN SaveIntervention(q, "resolved")
  ELSE UNCHANGED record

\* mutant: a message being handled is not remembered
KnownLate(r) == r \in seen \/ r \in processed

\* what the gateway remembers of a message
Known(r) == r \in seen \/ r \in processing \/ r \in processed

\* handleInbound up to the first wait for the network
Receive(r, c) ==
  /\ chat # <<>> /\ handling[<<r, c>>].at = "new"
  /\ \E w \in Contents :
       /\ written[r].sent => w = written[r]
       /\ written' = [written EXCEPT ![r] = w]
       /\ IF Known(r)
          THEN /\ handling' = [handling EXCEPT ![<<r, c>>].at = "ended"]
               /\ UNCHANGED <<record, processing, effects>>
          ELSE /\ processing' = processing \cup {r}
               /\ LET q == Route(w)
                      throws == q # None /\ record[q] = "dismissed"
                      at == IF q = None THEN "chat" ELSE IF throws THEN "close" ELSE "apply"
                  IN /\ handling' = [handling EXCEPT ![<<r, c>>] = [at |-> at, question |-> q]]
                     /\ effects' = IF throws THEN effects ELSE [effects EXCEPT ![r] = @ + 1]
                     /\ IF q = None THEN UNCHANGED record ELSE Resolve(q)
  /\ UNCHANGED <<correlation, processed, asker, notices, seen, left>>

Goes(r, c, at) == handling' = [handling EXCEPT ![<<r, c>>].at = at]

\* applyInterventionResolution, and its acknowledgement
Apply(r, c) ==
  /\ handling[<<r, c>>].at = "apply"
  /\ Goes(r, c, "close")
  /\ UNCHANGED <<store, asker, notices, written, processing, seen, effects, left>>

\* ... which fails, and is an incident: no acknowledgement
ApplyFails(r, c) ==
  /\ handling[<<r, c>>].at = "apply" /\ handling[<<r, c>>].question \in Asked
  /\ Fault
  /\ Goes(r, c, "report")
  /\ Created(Control)
  /\ UNCHANGED <<correlation, processed, asker, chat, completed, boot, written, processing,
                 seen, effects>>

Reported(r, c) ==
  /\ handling[<<r, c>>].at = "report" /\ ~ InFlight(Control)
  /\ Goes(r, c, "close")
  /\ UNCHANGED <<store, asker, notices, written, processing, seen, effects, left>>

\* routeFreeChatToPm
Chat(r, c) ==
  /\ handling[<<r, c>>].at = "chat"
  /\ Goes(r, c, "close")
  /\ UNCHANGED <<store, asker, notices, written, processing, seen, effects, left>>

Deactivated(q) == [m \in Messages |->
  IF m \in Shown(q) /\ correlation[m] = "active" THEN "inactive" ELSE correlation[m]]

\* saveProcessedChannelInbound: the receipt that outlives the process
SaveReceipt(r) == processed' = processed \cup {r}

\* the claim of a message that has been handled
Released(r) == processing \ {r}

Close(r, c) ==
  /\ handling[<<r, c>>].at = "close"
  /\ Goes(r, c, "ended")
  /\ LET q == handling[<<r, c>>].question
     IN correlation' = IF q = None THEN correlation ELSE Deactivated(q)
  /\ SaveReceipt(r)
  /\ seen' = seen \cup {r}
  /\ processing' = Released(r)
  /\ UNCHANGED <<record, asker, notices, written, effects, left>>

-----------------------------------------------------------------------------
(* Restarts. The provider keeps what was not handled and delivers it again.    *)

\* mutant: only what was never notified is notified
Unnotified == {q \in Questions : record[q] = "open" /\ Shown(q) = {}}

OpenQuestions == {q \in Questions : record[q] = "open"}

Restart ==
  /\ Fault
  /\ delivery' = [q \in Questions |-> Idle]
  /\ completed' = {} /\ seen' = {} /\ processing' = {}
  /\ boot' = OpenQuestions
  /\ asker' = [q \in Asked |-> IF asker[q] = "asking" THEN "no" ELSE asker[q]]
  /\ handling' = [h \in Deliveries |->
                    IF handling[h].at = "ended" THEN handling[h] ELSE Unread]
  /\ UNCHANGED <<store, chat, written, effects>>

Replay(q) ==
  /\ q \in boot
  /\ \A p \in Questions : ~ InFlight(p)
  /\ boot' = boot \ {q}
  /\ delivery' = [delivery EXCEPT ![q] = Notified(q, TRUE)]
  /\ UNCHANGED <<store, asker, chat, completed, written, inbound, left>>

-----------------------------------------------------------------------------
Delivery(q) == Send(q) \/ SendFails(q) \/ SendIsLost(q) \/ SendReturns(q) \/ Replay(q)
Asking(q) == Poll(q) \/ Expire(q)
Handling(r, c) ==
  Apply(r, c) \/ ApplyFails(r, c) \/ Reported(r, c) \/ Chat(r, c) \/ Close(r, c)

Next ==
  \/ \E q \in Questions : AskHuman(q) \/ Asking(q) \/ Delivery(q) \/ AnswerElsewhere(q)
  \/ \E h \in Deliveries : Receive(h[1], h[2]) \/ Handling(h[1], h[2])
  \/ Restart

Spec == Init /\ [][Next]_vars

\* The daemon goes on with what it has begun; nothing is assumed of the person
FairSpec ==
  /\ Spec
  /\ \A q \in Questions : WF_vars(Delivery(q)) /\ WF_vars(Asking(q))
  /\ \A h \in Deliveries : WF_vars(Handling(h[1], h[2]))

-----------------------------------------------------------------------------
(* Properties.                                                                 *)

\* A reply the provider delivers again does nothing again, unless the daemon died before
\* it had recorded the first delivery (gateway.ts handleInbound).
RepliesActOnce == \A r \in Replies : effects[r] <= 1 + (MaxFaults - left)

\* An open question is at some time open to an answer in the conversation, with a fault
\* or a restart in between (gateway.ts attemptDelivery, daemon.ts start).
OpenIsAnswerable == \A q \in Questions : record[q] = "open" ~> (record[q] # "open" \/ q \in Pending)

=============================================================================
