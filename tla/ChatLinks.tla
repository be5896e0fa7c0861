------------------------------- MODULE ChatLinks -------------------------------
(* The transport that builds one adapter per chat service on demand            *)
(* (packages/channels/src/unified-channel-transport.ts) and the Telegram       *)
(* adapter under it, which polls and reconnects                                *)
(* (packages/channels/src/telegram-adapter.ts).                                *)
(*                                                                             *)
(* The transport has Telegram and one other service. Its start is shared by    *)
(* the callers that come meanwhile; a send that finds no adapter builds one.   *)
EXTENDS Integers, FiniteSets

CONSTANTS
  Callers,       \* the daemon's start and the sends
  MaxAdapters,   \* bound: Telegram adapters built
  MaxAttempts,   \* maxReconnectAttempts
  Nobody

\* What the constants may be.
LinksAssumption == MaxAdapters \in Nat /\ MaxAttempts \in Nat /\ Nobody \notin Callers

Adapters == 1 .. MaxAdapters

VARIABLES
  call,      \* where each caller is
  started,
  starting,  \* the caller whose start the others share
  other,     \* the other service is connected
  made,      \* number of Telegram adapters made
  entry,     \* the one in the map; 0 for none
  holds,     \* the adapter a caller is connecting; 0 for none
  bot,       \* of each adapter: none, creating (connect), polling, recreating (reconnect)
  up,        \* its connected
  stopped,   \* its stopped
  retry,     \* its reconnect timer is set
  tries,     \* its reconnectAttempts
  raced      \* two sends built at once, or a destroy met a build or a reconnect
             \* (a history variable)

linkVars == <<call, started, starting, other, made, entry, holds, bot, up, stopped, retry, tries, raced>>
telegram == <<bot, up, stopped, retry, tries>>
transport == <<call, started, starting, other, made, entry, holds>>

TypeOK ==
  /\ call \in [Callers -> {"new", "starting", "sharing", "ready", "building", "sent", "failed"}]
  /\ started \in BOOLEAN /\ starting \in Callers \cup {Nobody} /\ other \in BOOLEAN
  /\ made \in 0 .. MaxAdapters /\ entry \in 0 .. made
  /\ holds \in [Callers -> 0 .. MaxAdapters]
  /\ bot \in [Adapters -> {"none", "creating", "polling", "recreating"}]
  /\ up \in [Adapters -> BOOLEAN] /\ stopped \in [Adapters -> BOOLEAN]
  /\ retry \in [Adapters -> BOOLEAN] /\ tries \in [Adapters -> 0 .. MaxAttempts]
  /\ raced \in BOOLEAN

Init ==
  /\ call = [c \in Callers |-> "new"]
  /\ started = FALSE /\ starting = Nobody /\ other = FALSE
  /\ made = 0 /\ entry = 0 /\ holds = [c \in Callers |-> 0]
  /\ bot = [a \in Adapters |-> "none"]
  /\ up = [a \in Adapters |-> FALSE] /\ stopped = [a \in Adapters |-> FALSE]
  /\ retry = [a \in Adapters |-> FALSE] /\ tries = [a \in Adapters |-> 0]
  /\ raced = FALSE
-----------------------------------------------------------------------------
(* Starting the transport.                                                     *)

\* connectConfiguredChannel: an adapter of its own begins to connect, unless one is there
Builds(c) ==
  /\ made < MaxAdapters /\ made' = made + 1
  /\ holds' = [holds EXCEPT ![c] = made + 1]
  /\ bot' = [bot EXCEPT ![made + 1] = "creating"]
  /\ stopped' = [stopped EXCEPT ![made + 1] = FALSE]

\* mutant: every caller starts the transport
Alone(c) == TRUE

MayStart(c) == starting = Nobody

Start(c) ==
  /\ call[c] = "new" /\ ~ started /\ MayStart(c)
  /\ starting' = c /\ call' = [call EXCEPT ![c] = "starting"]
  /\ IF entry # 0 THEN UNCHANGED <<made, holds, bot, stopped>> ELSE Builds(c)
  /\ \E success \in BOOLEAN : other' = (other \/ success)
  /\ UNCHANGED <<started, entry, up, retry, tries, raced>>

ShareStart(c) ==
  /\ call[c] = "new" /\ ~ started /\ starting # Nobody
  /\ call' = [call EXCEPT ![c] = "sharing"]
  /\ UNCHANGED <<started, starting, other, made, entry, holds, telegram, raced>>

\* the callers that share a start go on, or fail, with it
Settle(c, to) ==
  call' = [d \in Callers |-> IF d = c \/ call[d] = "sharing" THEN to ELSE call[d]]

\* startOnce when every service has connected or failed
StartEnds(c) ==
  /\ call[c] = "starting" /\ holds[c] = 0
  /\ started' = (entry # 0 \/ other)
  /\ starting' = Nobody
  /\ Settle(c, IF started' THEN "ready" ELSE "failed")
  /\ UNCHANGED <<other, made, entry, holds, telegram, raced>>

Ready(c) ==
  /\ call[c] = "new" /\ started
  /\ call' = [call EXCEPT ![c] = "ready"]
  /\ UNCHANGED <<started, starting, other, made, entry, holds, telegram, raced>>
-----------------------------------------------------------------------------
(* Sending.                                                                    *)

\* send with an adapter: provider errors are the caller's to retry
Send(c, how) ==
  /\ call[c] = "ready" /\ entry # 0 /\ how \in {"sent", "failed"}
  /\ how = "sent" => up[entry]
  /\ call' = [call EXCEPT ![c] = how]
  /\ UNCHANGED <<started, starting, other, made, entry, holds, telegram, raced>>

\* without one it builds its own first
SendBuilds(c) ==
  /\ call[c] = "ready" /\ entry = 0 /\ started
  /\ call' = [call EXCEPT ![c] = "building"] /\ Builds(c)
  /\ raced' = (raced \/ \E d \in Callers : holds[d] # 0)
  /\ UNCHANGED <<started, starting, other, entry, up, retry, tries>>

BuildEnds(c) ==
  /\ call[c] = "building" /\ holds[c] = 0
  /\ call' = [call EXCEPT ![c] = IF entry # 0 THEN "ready" ELSE "failed"]
  /\ UNCHANGED <<started, starting, other, made, entry, holds, telegram, raced>>

\* destroy: the adapters in the map are disconnected, those on their way are not
Destroy ==
  /\ started
  /\ started' = FALSE /\ entry' = 0 /\ other' = FALSE
  /\ raced' = (raced \/ (\E c \in Callers : holds[c] # 0)
                     \/ (entry # 0 /\ bot[entry] = "recreating"))
  \* disconnect of the Telegram adapter: its bot, if it has one, stops
  /\ IF entry = 0 THEN UNCHANGED telegram
     ELSE /\ stopped' = [stopped EXCEPT ![entry] = TRUE]
          /\ up' = [up EXCEPT ![entry] = FALSE]
          /\ retry' = [retry EXCEPT ![entry] = FALSE] /\ tries' = [tries EXCEPT ![entry] = 0]
          /\ bot' = [bot EXCEPT ![entry] = IF @ = "polling" THEN "none" ELSE @]
  /\ UNCHANGED <<call, starting, made, holds>>
-----------------------------------------------------------------------------
(* The Telegram adapter.                                                       *)

\* connect ends: the adapter goes into the map, over one that is there
Connected(c) ==
  LET a == holds[c] IN
  /\ a # 0 /\ bot[a] = "creating"
  /\ bot' = [bot EXCEPT ![a] = "polling"] /\ up' = [up EXCEPT ![a] = TRUE]
  /\ tries' = [tries EXCEPT ![a] = 0]
  /\ entry' = a /\ holds' = [holds EXCEPT ![c] = 0]
  /\ UNCHANGED <<call, started, starting, other, made, stopped, retry, raced>>

ConnectFails(c) ==
  LET a == holds[c] IN
  /\ a # 0 /\ bot[a] = "creating"
  /\ bot' = [bot EXCEPT ![a] = "none"]
  /\ holds' = [holds EXCEPT ![c] = 0]
  /\ UNCHANGED <<call, started, starting, other, made, entry, up, stopped, retry, tries, raced>>

\* mutant: the reconnection is scheduled before the adapter is marked as down
NotWhileUp(a) == ~ stopped[a] /\ ~ up[a] /\ ~ retry[a]

ScheduleAllowed(a) == ~ stopped[a] /\ ~ retry[a]

\* scheduleReconnect
Reschedules(a) ==
  LET set == ScheduleAllowed(a) /\ tries[a] < MaxAttempts IN
  /\ retry' = [retry EXCEPT ![a] = @ \/ set]
  /\ tries' = [tries EXCEPT ![a] = IF set THEN @ + 1 ELSE @]

\* polling ends with an error: the network, or another poller of the same bot
PollingFails(a) ==
  /\ bot[a] = "polling"
  /\ bot' = [bot EXCEPT ![a] = "none"]
  /\ IF stopped[a] THEN UNCHANGED <<up, retry, tries>>
     ELSE up' = [up EXCEPT ![a] = FALSE] /\ Reschedules(a)
  /\ UNCHANGED <<transport, stopped, raced>>

RetryFires(a) ==
  /\ retry[a] /\ retry' = [retry EXCEPT ![a] = FALSE]
  /\ bot' = [bot EXCEPT ![a] = IF stopped[a] \/ up[a] THEN @ ELSE "recreating"]
  /\ UNCHANGED <<transport, up, stopped, tries, raced>>

\* reconnect polls again, whether or not the adapter was disconnected meanwhile; the
\* attempts stay counted
Reconnects(a) ==
  /\ bot[a] = "recreating"
  /\ bot' = [bot EXCEPT ![a] = "polling"] /\ up' = [up EXCEPT ![a] = TRUE]
  /\ UNCHANGED <<transport, stopped, retry, tries, raced>>

ReconnectFails(a) ==
  /\ bot[a] = "recreating"
  /\ bot' = [bot EXCEPT ![a] = "none"]
  /\ up' = [up EXCEPT ![a] = FALSE] /\ Reschedules(a)
  /\ UNCHANGED <<transport, stopped, raced>>
-----------------------------------------------------------------------------
LinkNext ==
  \/ \E c \in Callers :
       \/ Start(c) \/ ShareStart(c) \/ StartEnds(c) \/ Ready(c)
       \/ (\E how \in {"sent", "failed"} : Send(c, how)) \/ SendBuilds(c) \/ BuildEnds(c)
       \/ Connected(c) \/ ConnectFails(c)
  \/ Destroy
  \/ \E a \in Adapters : PollingFails(a) \/ RetryFires(a) \/ Reconnects(a) \/ ReconnectFails(a)

LinkSpec == Init /\ [][LinkNext]_linkVars
-----------------------------------------------------------------------------
\* The bot of the project is polled by one adapter: two take each other's updates. It
\* holds unless two sends build the adapter at once, or the transport is destroyed while
\* one is being built or is reconnecting.
OnePoller ==
  ~ raced => \A a, b \in Adapters : bot[a] = "polling" /\ bot[b] = "polling" => a = b

\* The adapter in use is connected or reconnects until its attempts are used up: replies
\* of people are never cut off for good by a single failure.
AdapterKeepsTrying ==
  entry # 0 /\ ~ up[entry] =>
    retry[entry] \/ bot[entry] = "recreating" \/ tries[entry] = MaxAttempts
=============================================================================
