---------------------------- MODULE OpenClawSocket ----------------------------
(* The socket to the OpenClaw Gateway: its handshake, its reconnection and the *)
(* requests in flight (packages/channels/src/openclaw-gateway.ts).             *)
(*                                                                             *)
(* Every attempt to connect makes a socket and a promise of its own, and they  *)
(* share the transport's fields: an event of an old socket acts on the link of *)
(* the new one. Error and close of a socket are two events.                    *)
EXTENDS Integers, FiniteSets

CONSTANTS
  Requests,     \* messages to send
  MaxSockets,   \* bound: sockets opened
  MaxRetries    \* of the configuration

\* What the constants may be.
ClawAssumption == MaxSockets \in Nat /\ MaxRetries \in Nat

Sockets == 1 .. MaxSockets

VARIABLES
  opened,      \* number of sockets made
  sock,        \* the state of each
  promise,     \* what openWebSocket's promise came to
  byTimer,     \* sockets the reconnect timer opened
  ws,          \* the socket requests are sent on; 0 before the first
  connected,
  connecting,  \* the socket of the promise the field holds; 0 for none
  timer,       \* the reconnect timer is set
  attempts,    \* reconnectAttempts
  handshakes,  \* sockets whose connect request is pending
  req,         \* where each request is
  via,         \* the socket it waits for, or was sent on
  destroyed,
  refusal      \* a send was the last to learn that a handshake failed (a history variable)

clawVars == <<opened, sock, promise, byTimer, ws, connected, connecting, timer, attempts, handshakes,
              req, via, destroyed, refusal>>
requests == <<req, via>>

TypeOK ==
  /\ opened \in 0 .. MaxSockets /\ ws \in 0 .. opened /\ connecting \in 0 .. opened
  /\ sock \in [Sockets -> {"none", "connecting", "greeted", "open", "refused", "closing", "closed"}]
  /\ promise \in [Sockets -> {"pending", "resolved", "rejected"}]
  /\ byTimer \subseteq Sockets /\ handshakes \subseteq Sockets
  /\ connected \in BOOLEAN /\ timer \in BOOLEAN /\ attempts \in 0 .. MaxRetries
  /\ req \in [Requests -> {"new", "waiting", "sent", "ok", "failed"}]
  /\ via \in [Requests -> 0 .. MaxSockets]
  /\ destroyed \in BOOLEAN /\ refusal \in BOOLEAN

Init ==
  /\ opened = 0 /\ ws = 0 /\ connecting = 0
  /\ sock = [i \in Sockets |-> "none"] /\ promise = [i \in Sockets |-> "pending"]
  /\ byTimer = {} /\ handshakes = {}
  /\ connected = FALSE /\ timer = FALSE /\ attempts = 0
  /\ req = [r \in Requests |-> "new"] /\ via = [r \in Requests |-> 0]
  /\ destroyed = FALSE /\ refusal = FALSE

Live(i) == sock[i] \in {"connecting", "greeted", "open", "refused"}
-----------------------------------------------------------------------------
(* Reconnection, and the promises of the attempts.                             *)

\* scheduleReconnect, when it is called
Schedules(called) ==
  LET set == called /\ ~ destroyed /\ ~ timer /\ attempts < MaxRetries
  IN timer' = (timer \/ set) /\ attempts' = IF set THEN attempts + 1 ELSE attempts

\* the promises of the sockets in S are rejected: the field is cleared, whichever promise
\* it holds by now
Rejects(S) ==
  LET lost == {i \in S : promise[i] = "pending"} IN
  /\ promise' = [i \in Sockets |-> IF i \in lost THEN "rejected" ELSE promise[i]]
  /\ connecting' = IF lost = {} THEN connecting ELSE 0
  /\ refusal' = (refusal \/ \E i \in lost : i \notin byTimer)

\* requests that wait for a promise of S fail with it; those that were sent fail if the
\* pending ones are rejected
FailsRequests(S, pending) ==
  req' = [r \in Requests |->
    IF \/ req[r] = "waiting" /\ via[r] \in S /\ promise[via[r]] = "pending"
       \/ req[r] = "sent" /\ pending
    THEN "failed" ELSE req[r]]

\* a rejected attempt of the timer schedules the next
Retries(S) == \E i \in S : promise[i] = "pending" /\ i \in byTimer

NewSocket == opened < MaxSockets /\ opened' = opened + 1

Opens(i) ==
  /\ sock' = [sock EXCEPT ![i] = "connecting"]
  /\ ws' = i /\ connecting' = i
  /\ UNCHANGED <<promise, connected, handshakes, destroyed>>

TimerFires ==
  /\ timer /\ NewSocket
  /\ timer' = FALSE
  /\ Opens(opened + 1) /\ byTimer' = byTimer \cup {opened + 1}
  /\ refusal' = FALSE
  /\ UNCHANGED <<attempts, requests>>
-----------------------------------------------------------------------------
(* Sending.                                                                    *)

\* ensureConnected, and req once the link is up
SendNow(r) ==
  /\ req[r] = "new" /\ connected
  /\ req' = [req EXCEPT ![r] = "sent"] /\ via' = [via EXCEPT ![r] = ws]
  /\ UNCHANGED <<opened, sock, promise, byTimer, ws, connected, connecting, timer, attempts, handshakes,
                 destroyed, refusal>>

SendWaits(r) ==
  /\ req[r] = "new" /\ ~ connected /\ connecting # 0
  /\ req' = [req EXCEPT ![r] = "waiting"] /\ via' = [via EXCEPT ![r] = connecting]
  /\ UNCHANGED <<opened, sock, promise, byTimer, ws, connected, connecting, timer, attempts, handshakes,
                 destroyed, refusal>>

SendConnects(r) ==
  /\ req[r] = "new" /\ ~ connected /\ connecting = 0
  /\ NewSocket /\ Opens(opened + 1) /\ UNCHANGED byTimer
  /\ timer' = FALSE /\ attempts' = 0 /\ refusal' = FALSE
  /\ req' = [req EXCEPT ![r] = "waiting"] /\ via' = [via EXCEPT ![r] = opened + 1]

Answer(r, how) ==
  /\ req[r] = "sent" /\ sock[via[r]] = "open" /\ how \in {"ok", "failed"}
  /\ req' = [req EXCEPT ![r] = how]
  /\ UNCHANGED <<opened, sock, promise, byTimer, ws, connected, connecting, timer, attempts, handshakes,
                 via, destroyed, refusal>>

RequestTimeout(r) ==
  /\ req[r] = "sent"
  /\ req' = [req EXCEPT ![r] = "failed"]
  /\ UNCHANGED <<opened, sock, promise, byTimer, ws, connected, connecting, timer, attempts, handshakes,
                 via, destroyed, refusal>>
-----------------------------------------------------------------------------
(* Events of a socket.                                                         *)

\* connect.challenge: the connect request is pending
Challenge(i) ==
  /\ sock[i] = "connecting"
  /\ sock' = [sock EXCEPT ![i] = "greeted"] /\ handshakes' = handshakes \cup {i}
  /\ UNCHANGED <<opened, promise, byTimer, ws, connected, connecting, timer, attempts, requests,
                 destroyed, refusal>>

\* a timer that was set meanwhile stays set
Accepted(i) ==
  /\ sock[i] = "greeted" /\ i \in handshakes
  /\ handshakes' = handshakes \ {i}
  /\ sock' = [sock EXCEPT ![i] = "open"]
  /\ connected' = TRUE /\ attempts' = 0 /\ refusal' = FALSE
  /\ promise' = [promise EXCEPT ![i] = "resolved"] /\ connecting' = 0
  /\ req' = [r \in Requests |-> IF req[r] = "waiting" /\ via[r] = i THEN "sent" ELSE req[r]]
  /\ via' = [r \in Requests |-> IF req[r] = "waiting" /\ via[r] = i THEN ws ELSE via[r]]
  /\ UNCHANGED <<opened, byTimer, ws, timer, destroyed>>

Refused(i) ==
  /\ sock[i] = "greeted" /\ i \in handshakes
  /\ handshakes' = handshakes \ {i}
  /\ sock' = [sock EXCEPT ![i] = "refused"]
  /\ Rejects({i}) /\ FailsRequests({i}, FALSE) /\ Schedules(Retries({i}))
  /\ UNCHANGED <<opened, byTimer, ws, connected, via, destroyed>>

TimeoutTells(i) == Rejects({i}) /\ FailsRequests({i}, FALSE) /\ Schedules(Retries({i}))

\* fifteen seconds after the socket was made
HandshakeTimeout(i) ==
  /\ sock[i] \in {"connecting", "greeted", "closing"} /\ promise[i] = "pending"
  /\ sock' = [sock EXCEPT ![i] = "closing"]
  /\ TimeoutTells(i)
  /\ UNCHANGED <<opened, byTimer, ws, connected, handshakes, via, destroyed>>

\* rejectPending: requests, and the handshakes of every socket
AfterReject(i, to) ==
  [j \in Sockets |-> IF j = i THEN to ELSE IF j \in handshakes /\ sock[j] = "greeted" THEN "refused" ELSE sock[j]]

Error(i) ==
  /\ Live(i)
  /\ sock' = AfterReject(i, "closing")
  /\ connected' = FALSE /\ handshakes' = {}
  /\ Rejects(handshakes \cup {i}) /\ FailsRequests(handshakes \cup {i}, TRUE) /\ Schedules(TRUE)
  /\ UNCHANGED <<opened, byTimer, ws, via, destroyed>>

\* mutant: only the socket of the link counts
OwnClose(i) == i = ws /\ connected

CloseCounts(i) == TRUE

\* a close before the challenge settles nothing
Close(i) ==
  /\ sock[i] \notin {"none", "closed"}
  /\ sock' = AfterReject(i, "closed")
  /\ connected' = FALSE /\ handshakes' = {}
  /\ Rejects(handshakes) /\ FailsRequests(handshakes, TRUE) /\ Schedules(CloseCounts(i))
  /\ UNCHANGED <<opened, byTimer, ws, via, destroyed>>

Destroy ==
  /\ ~ destroyed /\ destroyed' = TRUE
  /\ timer' = FALSE /\ UNCHANGED attempts
  /\ sock' = [j \in Sockets |-> IF j = ws /\ Live(j) THEN "closing"
                               ELSE IF j \in handshakes /\ sock[j] = "greeted" THEN "refused" ELSE sock[j]]
  /\ handshakes' = {} /\ Rejects(handshakes) /\ FailsRequests(handshakes, TRUE)
  /\ UNCHANGED <<opened, byTimer, ws, connected, via>>
-----------------------------------------------------------------------------
ClawNext ==
  \/ TimerFires \/ Destroy
  \/ \E r \in Requests :
       \/ ~ destroyed /\ (SendNow(r) \/ SendWaits(r) \/ SendConnects(r))
       \/ RequestTimeout(r) \/ \E how \in {"ok", "failed"} : Answer(r, how)
  \/ \E i \in Sockets :
       Challenge(i) \/ Accepted(i) \/ Refused(i) \/ HandshakeTimeout(i) \/ Error(i) \/ Close(i)

ClawSpec == Init /\ [][ClawNext]_clawVars
-----------------------------------------------------------------------------
\* A link that is down is being rebuilt, until the retries are used up: whatever events
\* of old and new sockets cross. It rests only when the last attempt was that of a send,
\* which failed with it.
KeepsTrying ==
  ~ destroyed /\ opened > 0 /\ ~ connected =>
    \/ timer \/ attempts = MaxRetries \/ refusal
    \/ \E i \in Sockets : sock[i] \in {"connecting", "greeted", "closing"}
=============================================================================
