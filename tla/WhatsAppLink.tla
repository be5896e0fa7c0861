---------------------------- MODULE WhatsAppLink ----------------------------
(* The WhatsApp adapter (packages/channels/src/whatsapp-adapter.ts).          *)
(*                                                                            *)
(* Dark Kitchen writes from the account of the person who answers it, into    *)
(* that person's own chat. Nobody is told of messages there, so the adapter   *)
(* polls the chat, and has to tell the answers from what it wrote itself: by  *)
(* the text and the time. Messages of other chats arrive as events.           *)
EXTENDS Integers, Sequences, FiniteSets

CONSTANTS
  Texts,        \* what is written
  Polls,        \* polls that may overlap: one is begun whether or not the last is done
  Page,         \* messages a poll fetches
  EchoWindow,   \* how far from its sending an echo may be dated
  KeptFor,      \* how long a sent text is remembered
  MaxMessages,  \* bound: messages written
  MaxNow,       \* bound: the clock
  MaxLives      \* bound: processes

WhatsAppAssumption ==
  /\ EchoWindow \in Nat /\ KeptFor \in Nat
  /\ MaxMessages \in Nat /\ MaxNow \in Nat /\ MaxLives \in Nat

VARIABLES
  now,        \* the clock, in the seconds messages are dated with
  life,       \* the process that runs
  posting,    \* messages being sent
  chat,       \* what was written, in order
  recent,     \* recentlySent: the texts sent lately, and when
  seen,       \* seenMessageIds, which keeps more of them than are written here
  lastSeen,   \* lastSeenTs
  pages,      \* what each poll has still to go through
  handled,    \* when each message was given to the handler
  uses,       \* how often each text was written, by anyone (history)
  written     \* how many were, which is bounded

whatsappVars == <<now, life, posting, chat, recent, seen, lastSeen, pages, handled, uses, written>>

Never == -1
Messages == 1..MaxMessages

TypeOK ==
  /\ now \in 0..MaxNow /\ life \in 1..MaxLives /\ lastSeen \in 0..MaxNow
  /\ \A s \in posting : s.text \in Texts /\ s.asked \in 0..now
  /\ Len(chat) <= MaxMessages /\ \A i \in DOMAIN chat : chat[i].at \in 0..now
  /\ recent \in [Texts -> {Never} \cup (0..MaxNow)]
  /\ seen \subseteq DOMAIN chat
  /\ pages \in [Polls -> SUBSET DOMAIN chat]
  /\ handled \in [Messages -> {Never} \cup (0..MaxNow)]
  /\ uses \in [Texts -> 0..MaxMessages] /\ written \in 0..MaxMessages

\* connect: what was written before is not for this process
Init ==
  /\ now = 0 /\ life = 1 /\ posting = {} /\ chat = <<>>
  /\ recent = [t \in Texts |-> Never] /\ seen = {} /\ lastSeen = 0
  /\ pages = [p \in Polls |-> {}] /\ handled = [m \in Messages |-> Never]
  /\ uses = [t \in Texts |-> 0] /\ written = 0

Tick == /\ now < MaxNow /\ now' = now + 1
        /\ UNCHANGED <<life, posting, chat, recent, seen, lastSeen, pages, handled, uses, written>>
----------------------------------------------------------------------------
(* Sending.                                                                   *)

\* mutant: a text is remembered until the next one is sent
PruneAll(sent, t) == [u \in Texts |-> IF u = t THEN sent[u] ELSE Never]

\* pruneRecentlySent
Pruned(sent, t) == [u \in Texts |-> IF sent[u] < now - KeptFor THEN Never ELSE sent[u]]

Writes(t) ==
  /\ written < MaxMessages /\ written' = written + 1
  /\ uses' = [uses EXCEPT ![t] = @ + 1]

Send(t) ==
  /\ Writes(t)
  /\ recent' = Pruned([recent EXCEPT ![t] = now], t)
  /\ posting' = posting \cup {[text |-> t, asked |-> now, life |-> life, n |-> uses[t]]}
  /\ UNCHANGED <<now, life, chat, seen, lastSeen, pages, handled>>

\* the message appears in the chat, now or, for all send knows, later or never
Posted(s) ==
  /\ s \in posting /\ posting' = posting \ {s}
  /\ chat' = Append(chat, [mine |-> TRUE, text |-> s.text, asked |-> s.asked, life |-> s.life,
                           at |-> now, polled |-> TRUE])
  /\ UNCHANGED <<now, life, recent, seen, lastSeen, pages, handled, uses, written>>
SendFails(s) ==
  /\ s \in posting /\ posting' = posting \ {s}
  /\ UNCHANGED <<now, life, chat, recent, seen, lastSeen, pages, handled, uses, written>>

\* the person writes, in the polled chat or elsewhere
PersonWrites(t, polled) ==
  /\ Writes(t)
  /\ chat' = Append(chat, [mine |-> FALSE, text |-> t, asked |-> now, life |-> life, at |-> now,
                           polled |-> polled])
  /\ UNCHANGED <<now, life, posting, recent, seen, lastSeen, pages, handled>>
----------------------------------------------------------------------------
(* Receiving.                                                                 *)

\* messages of the second the last one is dated with, or older, are passed over
IsNew(m) == chat[m].at > lastSeen

IsEcho(m) == LET sentAt == recent[chat[m].text] IN
  sentAt # Never /\ chat[m].at - sentAt \in (1 - EchoWindow)..(EchoWindow - 1)

\* ingestMessage, as far as the handler
Ingest(m) ==
  IF m \in seen THEN UNCHANGED <<recent, seen, lastSeen, handled>>
  ELSE /\ seen' = seen \cup {m}
       /\ recent' = IF IsEcho(m) THEN [recent EXCEPT ![chat[m].text] = Never] ELSE recent
       /\ IF ~ IsEcho(m) /\ IsNew(m)
          THEN lastSeen' = chat[m].at /\ handled' = [handled EXCEPT ![m] = now]
          ELSE UNCHANGED <<lastSeen, handled>>

Event(m) == /\ m \in DOMAIN chat /\ ~ chat[m].polled /\ Ingest(m)
            /\ UNCHANGED <<now, life, posting, chat, pages, uses, written>>

\* pollSelfChat fetches the last messages and goes through them, waiting for the handler
\* after each. A failed one leaves the rest to the next.
Polled == {m \in DOMAIN chat : chat[m].polled}

Poll(p) ==
  /\ pages[p] = {} /\ Polled # {}
  /\ pages' = [pages EXCEPT ![p] = {m \in Polled : Cardinality({n \in Polled : n > m}) < Page}]
  /\ UNCHANGED <<now, life, posting, chat, recent, seen, lastSeen, handled, uses, written>>
PollIngests(p) ==
  \E m \in pages[p] :
    /\ \A n \in pages[p] : m <= n
    /\ Ingest(m) /\ pages' = [pages EXCEPT ![p] = @ \ {m}]
    /\ UNCHANGED <<now, life, posting, chat, uses, written>>
PollFails(p) ==
  /\ pages[p] # {} /\ pages' = [pages EXCEPT ![p] = {}]
  /\ UNCHANGED <<now, life, posting, chat, recent, seen, lastSeen, handled, uses, written>>

\* another process connects: only the chat is left
Reconnect ==
  /\ life < MaxLives /\ life' = life + 1
  /\ recent' = [t \in Texts |-> Never] /\ seen' = {} /\ lastSeen' = now
  /\ pages' = [p \in Polls |-> {}]
  /\ UNCHANGED <<now, posting, chat, handled, uses, written>>
----------------------------------------------------------------------------
WhatsAppNext ==
  \/ Tick \/ Reconnect
  \/ \E t \in Texts : Send(t) \/ \E polled \in BOOLEAN : PersonWrites(t, polled)
  \/ \E s \in posting : Posted(s) \/ SendFails(s)
  \/ \E m \in Messages : Event(m)
  \/ \E p \in Polls : Poll(p) \/ PollIngests(p) \/ PollFails(p)

WhatsAppSpec == Init /\ [][WhatsAppNext]_whatsappVars
----------------------------------------------------------------------------
\* What Dark Kitchen wrote is not taken for an answer, unless the text and the time cannot
\* tell: someone wrote the same text, it took too long to appear, it was fetched too late,
\* or the process that wrote it is gone.
EchoesAreNotReplies ==
  \A m \in DOMAIN chat : chat[m].mine /\ handled[m] # Never =>
    \/ uses[chat[m].text] > 1
    \/ chat[m].at - chat[m].asked >= EchoWindow
    \/ handled[m] - chat[m].asked > KeptFor
    \/ chat[m].life < life
=============================================================================
