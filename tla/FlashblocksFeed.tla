---------------------------- MODULE FlashblocksFeed ----------------------------
(***************************************************************************)
(* The way of a flashblock from the sequencer's WebSocket to the simulator: *)
(* the reconnecting reader and the actor mailbox of FlashblocksClient, the  *)
(* broadcast channel it publishes on, and the forwarder of main.rs that     *)
(* feeds the simulator's channel.  Messages are numbered in the order the   *)
(* server sends them; their contents are FlashblockSimulator's matter.      *)
(***************************************************************************)
EXTENDS Naturals, Sequences, SequencesExt

CONSTANTS
  MaxMessages,      \* bound: the server sends this many messages
  Malformed,        \* those that do not decode, parse, or carry valid metadata
  SocketCapacity,   \* bound: what the connection buffers
  MailboxCapacity,  \* actor_mailbox, 100
  EventBuffer,      \* broadcast channel, 4096
  InboxCapacity,    \* flashblock channel, 100
  MaxBackoff        \* MAX_BACKOFF, 30 seconds

ASSUME FeedAssumption ==
  /\ MaxMessages \in Nat /\ Malformed \subseteq 1 .. MaxMessages
  /\ {SocketCapacity, MailboxCapacity, EventBuffer, InboxCapacity, MaxBackoff}
       \subseteq Nat \ {0}

VARIABLES
  sent,       \* messages the server has sent so far
  link,       \* connect_async, connected, or sleeping
  backoff,    \* seconds
  socket,     \* sent on this connection and not yet read
  mailbox,    \* actor_mailbox
  published,  \* everything sent on the broadcast channel
  cursor,     \* how many of them flashblocks_receiver has taken
  forwarder,  \* where the forwarder is
  hand,       \* the event it is sending
  inbox,      \* flashblock_rx
  taken,      \* the events the simulator has received
  simulator   \* running or exited

net  == <<sent, link, backoff, socket>>
down == <<forwarder, hand, inbox, taken, simulator>>
vars == <<net, mailbox, published, cursor, down>>

Messages == 1 .. MaxMessages
Lesser(a, b) == IF a < b THEN a ELSE b

TypeOK ==
  /\ sent \in 0 .. MaxMessages
  /\ link \in {"connecting", "up", "sleeping"}
  /\ backoff \in 1 .. MaxBackoff
  /\ socket \in Seq(Messages) /\ Len(socket) <= SocketCapacity
  /\ mailbox \in Seq(Messages) /\ Len(mailbox) <= MailboxCapacity
  /\ published \in Seq(Messages)
  /\ cursor \in 0 .. Len(published)
  /\ forwarder \in {"recv", "send", "exited"}
  /\ hand \in 0 .. MaxMessages
  /\ inbox \in Seq(Messages) /\ Len(inbox) <= InboxCapacity
  /\ taken \in Seq(Messages)
  /\ simulator \in {"running", "exited"}

Init ==
  /\ sent = 0 /\ link = "connecting" /\ backoff = 1 /\ socket = << >>
  /\ mailbox = << >> /\ published = << >> /\ cursor = 0
  /\ forwarder = "recv" /\ hand = 0 /\ inbox = << >>
  /\ taken = << >> /\ simulator = "running"

-----------------------------------------------------------------------------
(* The connection.                                                           *)

\* The server goes on whether anyone listens or not; a reader that is too slow or
\* not connected misses what is sent.
ServerSends ==
  /\ sent < MaxMessages
  /\ sent' = sent + 1
  /\ IF link = "up" /\ Len(socket) < SocketCapacity
       THEN socket' = Append(socket, sent + 1)
       ELSE UNCHANGED socket
  /\ UNCHANGED <<link, backoff, mailbox, published, cursor, down>>

\* After connect_async failed, a Close message, a read error or the end of the
\* stream the reader sleeps; what the connection still held is gone.
Sleep ==
  /\ link' = "sleeping" /\ socket' = << >>
  /\ UNCHANGED <<sent, backoff, mailbox, published, cursor, down>>

ConnectFails == link = "connecting" /\ Sleep

Disconnect == link = "up" /\ Sleep

Connect ==
  /\ link = "connecting"
  /\ link' = "up" /\ backoff' = 1
  /\ UNCHANGED <<sent, socket, mailbox, published, cursor, down>>

\* The sleep is over; the next one is twice as long, up to the maximum.
WakeUp ==
  /\ link = "sleeping"
  /\ link' = "connecting"
  /\ backoff' = Lesser(2 * backoff, MaxBackoff)
  /\ UNCHANGED <<sent, socket, mailbox, published, cursor, down>>

-----------------------------------------------------------------------------
(* The reader, the actor and the broadcast channel.                          *)

\* A malformed message is logged and forgotten; a good one waits for room.
Read ==
  /\ link = "up" /\ socket # << >>
  /\ Head(socket) \notin Malformed => Len(mailbox) < MailboxCapacity
  /\ socket' = Tail(socket)
  /\ mailbox' = IF Head(socket) \in Malformed THEN mailbox
                ELSE Append(mailbox, Head(socket))
  /\ UNCHANGED <<sent, link, backoff, published, cursor, down>>

\* A broadcast send never waits: it overwrites the oldest event.
Publish ==
  /\ mailbox # << >>
  /\ published' = Append(published, Head(mailbox))
  /\ mailbox' = Tail(mailbox)
  /\ UNCHANGED <<net, cursor, down>>

-----------------------------------------------------------------------------
(* The forwarder and the simulator's end of the channel.                     *)

Lagged == Len(published) - cursor > EventBuffer

\* Faulty variant: the receiver is subscribed anew for every event.
ForwarderReceivesAgain ==
  /\ forwarder = "recv" /\ cursor < Len(published) /\ ~Lagged
  /\ hand' = published[cursor + 1]
  /\ forwarder' = "send"
  /\ UNCHANGED <<net, mailbox, published, cursor, inbox, taken, simulator>>

ForwarderReceives ==
  /\ forwarder = "recv" /\ cursor < Len(published) /\ ~Lagged
  /\ hand' = published[cursor + 1]
  /\ cursor' = cursor + 1
  /\ forwarder' = "send"
  /\ UNCHANGED <<net, mailbox, published, inbox, taken, simulator>>

\* Faulty variant: the loop goes on after Err(Lagged), past the gap.
ForwarderSkips ==
  /\ forwarder = "recv" /\ Lagged
  /\ cursor' = Len(published) - EventBuffer
  /\ UNCHANGED <<net, mailbox, published, forwarder, hand, inbox, taken, simulator>>

\* `while let Ok(event)` ends on Err(Lagged) as it would on Err(Closed).
ForwarderLags ==
  /\ forwarder = "recv" /\ Lagged
  /\ forwarder' = "exited"
  /\ UNCHANGED <<net, mailbox, published, cursor, hand, inbox, taken, simulator>>

\* Faulty variant: the simulator's channel has no bound.
ForwarderSendsUnbounded ==
  /\ forwarder = "send"
  /\ inbox' = Append(inbox, hand)
  /\ hand' = 0
  /\ forwarder' = "recv"
  /\ UNCHANGED <<net, mailbox, published, cursor, taken, simulator>>

ForwarderSends ==
  /\ forwarder = "send" /\ Len(inbox) < InboxCapacity
  /\ inbox' = Append(inbox, hand)
  /\ hand' = 0
  /\ forwarder' = "recv"
  /\ UNCHANGED <<net, mailbox, published, cursor, taken, simulator>>

SimulatorTakes ==
  /\ simulator = "running" /\ inbox # << >>
  /\ taken' = Append(taken, Head(inbox))
  /\ inbox' = Tail(inbox)
  /\ UNCHANGED <<net, mailbox, published, cursor, forwarder, hand, simulator>>

\* Faulty variant: the end of the forwarder discards what is queued.
SimulatorExitsEarly ==
  /\ simulator = "running" /\ forwarder = "exited"
  /\ simulator' = "exited"
  /\ UNCHANGED <<net, mailbox, published, cursor, forwarder, hand, inbox, taken>>

\* The forwarder owns the only sender of the channel.
SimulatorExits ==
  /\ simulator = "running" /\ inbox = << >> /\ forwarder = "exited"
  /\ simulator' = "exited"
  /\ UNCHANGED <<net, mailbox, published, cursor, forwarder, hand, inbox, taken>>

-----------------------------------------------------------------------------
Forwarder == ForwarderReceives \/ ForwarderLags \/ ForwarderSends
Simulator == SimulatorTakes \/ SimulatorExits
Reconnect == ConnectFails \/ Connect \/ WakeUp

Next ==
  ServerSends \/ Reconnect \/ Disconnect \/ Read \/ Publish \/ Forwarder \/ Simulator

Spec == Init /\ [][Next]_vars

\* Connection attempts come to an end, sleeps too, and the runtime polls every
\* task; the simulator is taken to be fair here, however slow.
FairSpec ==
  /\ Spec
  /\ WF_vars(Reconnect) /\ WF_vars(Read) /\ WF_vars(Publish)
  /\ WF_vars(Forwarder) /\ WF_vars(Simulator)

-----------------------------------------------------------------------------
(* Properties.                                                               *)

Increasing(s) == \A i, j \in 1 .. Len(s) : i < j => s[i] < s[j]

\* Through reconnects, four queues and a lagging receiver, flashblocks reach the
\* simulator in the server's order, none twice.
OrderKept ==
  Increasing(taken \o inbox \o (IF hand = 0 THEN << >> ELSE <<hand>>)
               \o SubSeq(published, cursor + 1, Len(published)) \o mailbox \o socket)

\* After the broadcast channel nothing is skipped: what the simulator gets is a
\* prefix of what was published, because a lagging forwarder gives up rather than
\* resume after the gap.
NoGapAfterBroadcast == IsPrefix(taken \o inbox, published)

\* The end of the forwarder ends the simulator, but not before it has had every
\* flashblock that was queued.
ExitDrains ==
  forwarder = "exited" ~> (simulator = "exited" /\ taken = SubSeq(published, 1, cursor))

\* main.rs:141 "Spawn task to receive flashblocks and queue them": every flashblock
\* that is published reaches the simulator.
EveryPublishedIsTaken ==
  \A m \in Messages : Contains(published, m) ~> Contains(taken, m)
=============================================================================
