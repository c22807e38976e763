------------------------ MODULE FlashblocksFeedProofs ------------------------
(***************************************************************************)
(* Flashblocks reach the simulator in the server's order and, after the     *)
(* broadcast channel, without a gap, for any sizes of the queues and however *)
(* often the connection is lost.                                            *)
(***************************************************************************)
EXTENDS FlashblocksFeed, TLAPS

Below(s, t) == \A i \in DOMAIN s : \A j \in DOMAIN t : s[i] < t[j]

Held == IF forwarder = "send" THEN 1 ELSE 0

Typed ==
  /\ TypeOK
  /\ forwarder = "send" => hand \in Messages
  /\ forwarder # "send" => hand = 0

\* What has left the broadcast channel is its beginning, wherever it is now.
PassedInv ==
  /\ Len(taken) + Len(inbox) + Held = cursor
  /\ \A i \in DOMAIN taken : taken[i] = published[i]
  /\ \A i \in DOMAIN inbox : inbox[i] = published[Len(taken) + i]
  /\ forwarder = "send" => hand = published[cursor]

\* What the server has sent lies in three queues, each after the other.
ComingInv ==
  /\ Increasing(published) /\ Increasing(mailbox) /\ Increasing(socket)
  /\ Below(published, mailbox) /\ Below(published, socket) /\ Below(mailbox, socket)
  /\ \A i \in DOMAIN published : published[i] <= sent
  /\ \A i \in DOMAIN mailbox : mailbox[i] <= sent
  /\ \A i \in DOMAIN socket : socket[i] <= sent

FeedInv == Typed /\ PassedInv /\ ComingInv

-----------------------------------------------------------------------------
(* Sequences.                                                                *)

LEMMA HeadTail ==
  ASSUME NEW S, NEW s \in Seq(S), s # << >>
  PROVE  /\ Head(s) = s[1] /\ s[1] \in S /\ 1 \in DOMAIN s /\ Tail(s) \in Seq(S)
         /\ Len(s) \in Nat /\ Len(s) >= 1 /\ Len(Tail(s)) = Len(s) - 1
         /\ \A i \in DOMAIN Tail(s) :
              i \in Nat /\ i + 1 \in DOMAIN s /\ 1 < i + 1 /\ Tail(s)[i] = s[i + 1]
  OBVIOUS

LEMMA AppendTo ==
  ASSUME NEW S, NEW s \in Seq(S), NEW e \in S
  PROVE  /\ Append(s, e) \in Seq(S) /\ Len(s) \in Nat /\ Len(Append(s, e)) = Len(s) + 1
         /\ DOMAIN Append(s, e) = 1 .. Len(s) + 1 /\ DOMAIN s = 1 .. Len(s)
         /\ \A i \in DOMAIN s : Append(s, e)[i] = s[i]
         /\ Append(s, e)[Len(s) + 1] = e
  OBVIOUS

LEMMA Concat ==
  ASSUME NEW S, NEW s \in Seq(S), NEW t \in Seq(S)
  PROVE  /\ s \o t \in Seq(S) /\ Len(s \o t) = Len(s) + Len(t)
         /\ Len(s) \in Nat /\ Len(t) \in Nat
         /\ \A i \in DOMAIN s : (s \o t)[i] = s[i]
         /\ \A i \in DOMAIN t : (s \o t)[Len(s) + i] = t[i]
         /\ \A i \in DOMAIN (s \o t) : i \in DOMAIN s \/ i - Len(s) \in DOMAIN t
  OBVIOUS

LEMMA IncreasingTail ==
  ASSUME NEW s \in Seq(Messages), s # << >>, Increasing(s)
  PROVE  /\ Increasing(Tail(s)) /\ \A i \in DOMAIN Tail(s) : Head(s) < Tail(s)[i]
  <1>1. /\ Head(s) = s[1] /\ 1 \in DOMAIN s /\ DOMAIN s = 1 .. Len(s) /\ Len(s) \in Nat
        /\ DOMAIN Tail(s) = 1 .. Len(Tail(s))
        /\ \A i \in DOMAIN Tail(s) :
             i \in Nat /\ i + 1 \in DOMAIN s /\ 1 < i + 1 /\ Tail(s)[i] = s[i + 1]
    BY HeadTail
  <1>2. \A i, j \in DOMAIN s : i < j => s[i] < s[j]
    BY <1>1 DEF Increasing
  <1>3. \A i, j \in DOMAIN Tail(s) : i < j => i + 1 < j + 1
    BY <1>1
  <1> QED BY <1>1, <1>2, <1>3 DEF Increasing

LEMMA IncreasingAppend ==
  ASSUME NEW s \in Seq(Messages), NEW e \in Messages, Increasing(s),
         \A i \in DOMAIN s : s[i] < e
  PROVE  Increasing(Append(s, e))
  BY AppendTo DEF Increasing

\* Two sequences in order, the one below the other, are in order end to end.
LEMMA IncreasingConcat ==
  ASSUME NEW s \in Seq(Messages), NEW t \in Seq(Messages), Increasing(s), Increasing(t),
         Below(s, t)
  PROVE  Increasing(s \o t)
  <1>1. /\ Len(s) \in Nat /\ Len(t) \in Nat /\ Len(s \o t) = Len(s) + Len(t)
        /\ DOMAIN s = 1 .. Len(s) /\ DOMAIN t = 1 .. Len(t)
        /\ \A i \in DOMAIN s : (s \o t)[i] = s[i]
        /\ \A i \in DOMAIN t : (s \o t)[Len(s) + i] = t[i]
    BY Concat
  <1> SUFFICES ASSUME NEW i \in 1 .. Len(s) + Len(t), NEW j \in 1 .. Len(s) + Len(t), i < j
               PROVE  (s \o t)[i] < (s \o t)[j]
    BY <1>1 DEF Increasing
  <1>2. CASE j <= Len(s)
    BY <1>1, <1>2 DEF Increasing
  <1>3. CASE i <= Len(s) /\ j > Len(s)
    <2>1. i \in DOMAIN s /\ j - Len(s) \in DOMAIN t /\ Len(s) + (j - Len(s)) = j
      BY <1>1, <1>3
    <2>2. (s \o t)[i] = s[i] /\ (s \o t)[j] = t[j - Len(s)]
      BY <1>1, <2>1
    <2> QED BY <2>1, <2>2 DEF Below
  <1>4. CASE i > Len(s)
    <2>1. /\ i - Len(s) \in DOMAIN t /\ Len(s) + (i - Len(s)) = i
          /\ j - Len(s) \in DOMAIN t /\ Len(s) + (j - Len(s)) = j /\ i - Len(s) < j - Len(s)
      BY <1>1, <1>4
    <2>2. (s \o t)[i] = t[i - Len(s)] /\ (s \o t)[j] = t[j - Len(s)]
      BY <1>1, <2>1
    <2> QED BY <1>1, <2>1, <2>2 DEF Increasing
  <1> QED BY <1>1, <1>2, <1>3, <1>4

LEMMA BelowConcat ==
  ASSUME NEW s \in Seq(Messages), NEW t \in Seq(Messages), NEW u \in Seq(Messages),
         Below(s, u), Below(t, u)
  PROVE  Below(s \o t, u)
  <1> SUFFICES ASSUME NEW i \in DOMAIN (s \o t), NEW j \in DOMAIN u PROVE (s \o t)[i] < u[j]
    BY DEF Below
  <1>1. CASE i \in DOMAIN s
    BY <1>1, Concat DEF Below
  <1>2. CASE i - Len(s) \in DOMAIN t
    <2>1. i \in Int /\ Len(s) \in Nat
      BY Concat
    <2>2. Len(s) + (i - Len(s)) = i
      BY <2>1
    <2>3. (s \o t)[i] = t[i - Len(s)]
      BY <1>2, <2>2, Concat
    <2> QED BY <1>2, <2>3 DEF Below
  <1> QED BY <1>1, <1>2, Concat

LEMMA SameStart ==
  ASSUME NEW s \in Seq(Messages), NEW t \in Seq(Messages), Len(s) <= Len(t),
         \A i \in DOMAIN s : s[i] = t[i]
  PROVE  SubSeq(s, 1, Len(s)) = SubSeq(t, 1, Len(s))
  OBVIOUS

LEMMA RestOf ==
  ASSUME NEW s \in Seq(Messages), NEW n \in Nat, n <= Len(s)
  PROVE  /\ SubSeq(s, n + 1, Len(s)) \in Seq(Messages)
         /\ \A i \in DOMAIN SubSeq(s, n + 1, Len(s)) :
              /\ n + i \in DOMAIN s /\ i \in Nat \ {0}
              /\ SubSeq(s, n + 1, Len(s))[i] = s[n + i]
  OBVIOUS

-----------------------------------------------------------------------------
(* The steps.                                                                *)

LEMMA FeedTypes ==
  ASSUME Typed
  PROVE  /\ sent \in Nat /\ cursor \in Nat /\ cursor <= Len(published)
         /\ socket \in Seq(Messages) /\ mailbox \in Seq(Messages)
         /\ published \in Seq(Messages) /\ inbox \in Seq(Messages) /\ taken \in Seq(Messages)
         /\ Len(socket) \in Nat /\ Len(mailbox) \in Nat /\ Len(published) \in Nat
         /\ Len(inbox) \in Nat /\ Len(taken) \in Nat /\ MaxMessages \in Nat
         /\ \A m \in Messages : m \in Nat /\ m >= 1
  <1>1. MaxMessages \in Nat
    BY FeedAssumption
  <1>2. /\ socket \in Seq(Messages) /\ mailbox \in Seq(Messages)
        /\ published \in Seq(Messages) /\ inbox \in Seq(Messages) /\ taken \in Seq(Messages)
        /\ cursor \in 0 .. Len(published) /\ sent \in 0 .. MaxMessages
    BY DEF Typed, TypeOK
  <1>3. /\ Len(socket) \in Nat /\ Len(mailbox) \in Nat /\ Len(published) \in Nat
        /\ Len(inbox) \in Nat /\ Len(taken) \in Nat
    BY <1>2
  <1>4. \A m \in Messages : m \in Nat /\ m >= 1
    BY <1>1 DEF Messages
  <1> QED BY <1>1, <1>2, <1>3, <1>4

LEMMA FeedInit == Init => FeedInv
  <1> SUFFICES ASSUME Init PROVE FeedInv
    OBVIOUS
  <1>1. /\ MaxMessages \in Nat /\ SocketCapacity \in Nat /\ MailboxCapacity \in Nat
        /\ InboxCapacity \in Nat /\ MaxBackoff \in Nat /\ MaxBackoff >= 1
    BY FeedAssumption
  <1>2. Typed
    BY <1>1 DEF Init, Typed, TypeOK
  <1>3. PassedInv /\ ComingInv
    BY <1>1 DEF Init, PassedInv, ComingInv, Held, Increasing, Below
  <1> QED BY <1>2, <1>3 DEF FeedInv

LEMMA ServerSendsInv == ASSUME FeedInv, ServerSends PROVE FeedInv'
  <1>1. /\ sent < MaxMessages /\ sent' = sent + 1
        /\ UNCHANGED <<link, backoff, mailbox, published, cursor, forwarder, hand, inbox, taken,
                       simulator>>
        /\ socket' = socket
             \/ (Len(socket) < SocketCapacity /\ socket' = Append(socket, sent + 1))
    BY DEF ServerSends, down
  <1>2. /\ sent \in Nat /\ sent + 1 \in Messages /\ SocketCapacity \in Nat
        /\ socket \in Seq(Messages) /\ Len(socket) \in Nat
        /\ \A m \in Messages : m \in Nat
    BY <1>1, FeedTypes, FeedAssumption DEF FeedInv, Messages
  <1>3. /\ \A i \in DOMAIN published : published[i] \in Nat /\ published[i] < sent + 1
        /\ \A i \in DOMAIN mailbox : mailbox[i] \in Nat /\ mailbox[i] < sent + 1
        /\ \A i \in DOMAIN socket : socket[i] \in Nat /\ socket[i] < sent + 1
    BY <1>2, FeedTypes DEF FeedInv, ComingInv
  <1>4. /\ socket' \in Seq(Messages) /\ Len(socket') <= SocketCapacity
        /\ Increasing(socket')
        /\ \A i \in DOMAIN socket' : (i \in DOMAIN socket /\ socket'[i] = socket[i])
                                     \/ socket'[i] = sent + 1
    <2>1. CASE socket' = socket
      BY <2>1 DEF FeedInv, Typed, TypeOK, ComingInv
    <2>2. CASE Len(socket) < SocketCapacity /\ socket' = Append(socket, sent + 1)
      BY <1>2, <1>3, <2>2, AppendTo, IncreasingAppend DEF FeedInv, ComingInv
    <2> QED BY <1>1, <2>1, <2>2
  <1>5. Typed'
    <2>1. sent' \in 0 .. MaxMessages
      BY <1>1, <1>2, FeedAssumption
    <2> QED BY <1>1, <1>4, <2>1 DEF FeedInv, Typed, TypeOK
  <1>6. PassedInv'
    BY <1>1 DEF FeedInv, PassedInv, Held
  <1>7. ComingInv'
    <2>1. Below(published, socket)' /\ Below(mailbox, socket)'
      BY <1>1, <1>3, <1>4 DEF FeedInv, ComingInv, Below
    <2>2. /\ \A i \in DOMAIN published : published[i] <= sent'
          /\ \A i \in DOMAIN mailbox : mailbox[i] <= sent'
          /\ \A i \in DOMAIN socket' : socket'[i] <= sent'
      <3>1. sent + 1 <= sent' /\ \A x \in Nat : x < sent + 1 => x <= sent'
        BY <1>1, <1>2
      <3> QED BY <1>3, <1>4, <3>1
    <2> QED BY <1>1, <1>4, <2>1, <2>2 DEF FeedInv, ComingInv
  <1> QED BY <1>5, <1>6, <1>7 DEF FeedInv

LEMMA LinkInv ==
  ASSUME FeedInv, ConnectFails \/ Disconnect \/ Connect \/ WakeUp PROVE FeedInv'
  <1>1. /\ UNCHANGED <<sent, mailbox, published, cursor, forwarder, hand, inbox, taken,
                       simulator>>
        /\ link' \in {"connecting", "up", "sleeping"}
        /\ socket' = socket \/ socket' = << >>
        /\ backoff' \in {backoff, 1, Lesser(2 * backoff, MaxBackoff)}
    BY DEF ConnectFails, Disconnect, Connect, WakeUp, Sleep, down
  <1>2. MaxBackoff \in Nat \ {0} /\ SocketCapacity \in Nat /\ backoff \in 1 .. MaxBackoff
    BY FeedAssumption DEF FeedInv, Typed, TypeOK
  <1>3. backoff' \in 1 .. MaxBackoff
    BY <1>1, <1>2 DEF Lesser
  <1>4. Typed'
    <2>1. socket' \in Seq(Messages) /\ Len(socket') <= SocketCapacity
      <3>1. CASE socket' = socket
        BY <3>1 DEF FeedInv, Typed, TypeOK
      <3>2. CASE socket' = << >>
        BY <1>2, <3>2
      <3> QED BY <1>1, <3>1, <3>2
    <2> QED BY <1>1, <1>3, <2>1 DEF FeedInv, Typed, TypeOK
  <1>5. PassedInv'
    BY <1>1 DEF FeedInv, PassedInv, Held
  <1>6. ComingInv'
    BY <1>1 DEF FeedInv, ComingInv, Increasing, Below
  <1> QED BY <1>4, <1>5, <1>6 DEF FeedInv

\* The reader takes the first message of the socket, which is above everything in the
\* mailbox and below what is left.
LEMMA ReadInv == ASSUME FeedInv, Read PROVE FeedInv'
  <1>1. /\ socket # << >> /\ socket' = Tail(socket)
        /\ mailbox' = mailbox
             \/ (Len(mailbox) < MailboxCapacity /\ mailbox' = Append(mailbox, Head(socket)))
        /\ UNCHANGED <<sent, link, backoff, published, cursor, forwarder, hand, inbox, taken,
                       simulator>>
    BY DEF Read, down
  <1>2. /\ socket \in Seq(Messages) /\ mailbox \in Seq(Messages) /\ Len(mailbox) \in Nat
        /\ MailboxCapacity \in Nat /\ SocketCapacity \in Nat /\ Len(socket) \in Nat
    BY FeedTypes, FeedAssumption DEF FeedInv
  <1>3. /\ Head(socket) = socket[1] /\ Head(socket) \in Messages /\ 1 \in DOMAIN socket
        /\ Tail(socket) \in Seq(Messages) /\ Len(Tail(socket)) = Len(socket) - 1
        /\ \A i \in DOMAIN Tail(socket) : i + 1 \in DOMAIN socket /\ Tail(socket)[i] = socket[i + 1]
    BY <1>1, <1>2, HeadTail
  <1>4. Increasing(socket') /\ \A i \in DOMAIN socket' : Head(socket) < socket'[i]
    BY <1>1, <1>2, IncreasingTail DEF FeedInv, ComingInv
  <1>5. /\ \A i \in DOMAIN published : published[i] < Head(socket)
        /\ \A i \in DOMAIN mailbox : mailbox[i] < Head(socket)
        /\ Head(socket) <= sent
    BY <1>3 DEF FeedInv, ComingInv, Below
  <1>6. /\ mailbox' \in Seq(Messages) /\ Len(mailbox') <= MailboxCapacity
        /\ Increasing(mailbox')
        /\ \A i \in DOMAIN mailbox' : (i \in DOMAIN mailbox /\ mailbox'[i] = mailbox[i])
                                      \/ mailbox'[i] = Head(socket)
    <2>1. CASE mailbox' = mailbox
      BY <2>1 DEF FeedInv, Typed, TypeOK, ComingInv
    <2>2. CASE Len(mailbox) < MailboxCapacity /\ mailbox' = Append(mailbox, Head(socket))
      BY <1>2, <1>3, <1>5, <2>2, AppendTo, IncreasingAppend DEF FeedInv, ComingInv
    <2> QED BY <1>1, <2>1, <2>2
  <1>7. Typed'
    <2>1. Len(socket') <= SocketCapacity
      BY <1>1, <1>2, <1>3 DEF FeedInv, Typed, TypeOK
    <2> QED BY <1>1, <1>3, <1>6, <2>1 DEF FeedInv, Typed, TypeOK
  <1>8. PassedInv'
    BY <1>1 DEF FeedInv, PassedInv, Held
  <1>9. ComingInv'
    <2>1. Below(published, mailbox)' /\ Below(published, socket)' /\ Below(mailbox, socket)'
      BY <1>1, <1>3, <1>4, <1>5, <1>6 DEF FeedInv, ComingInv, Below
    <2>2. /\ \A i \in DOMAIN mailbox' : mailbox'[i] <= sent'
          /\ \A i \in DOMAIN socket' : socket'[i] <= sent'
      BY <1>1, <1>3, <1>5, <1>6 DEF FeedInv, ComingInv
    <2> QED BY <1>1, <1>4, <1>6, <2>1, <2>2 DEF FeedInv, ComingInv
  <1> QED BY <1>7, <1>8, <1>9 DEF FeedInv

LEMMA PublishInv == ASSUME FeedInv, Publish PROVE FeedInv'
  <1>1. /\ mailbox # << >> /\ published' = Append(published, Head(mailbox))
        /\ mailbox' = Tail(mailbox)
        /\ UNCHANGED <<sent, link, backoff, socket, cursor, forwarder, hand, inbox, taken,
                       simulator>>
    BY DEF Publish, net, down
  <1>2. /\ published \in Seq(Messages) /\ mailbox \in Seq(Messages) /\ Len(mailbox) \in Nat
        /\ MailboxCapacity \in Nat /\ Len(published) \in Nat /\ cursor \in Nat
        /\ cursor <= Len(published)
        /\ inbox \in Seq(Messages) /\ taken \in Seq(Messages)
        /\ Len(inbox) \in Nat /\ Len(taken) \in Nat
    BY FeedTypes, FeedAssumption DEF FeedInv
  <1>3. /\ Head(mailbox) = mailbox[1] /\ Head(mailbox) \in Messages /\ 1 \in DOMAIN mailbox
        /\ Tail(mailbox) \in Seq(Messages) /\ Len(Tail(mailbox)) = Len(mailbox) - 1
        /\ \A i \in DOMAIN Tail(mailbox) :
             i + 1 \in DOMAIN mailbox /\ Tail(mailbox)[i] = mailbox[i + 1]
    BY <1>1, <1>2, HeadTail
  <1>4. Increasing(mailbox') /\ \A i \in DOMAIN mailbox' : Head(mailbox) < mailbox'[i]
    BY <1>1, <1>2, IncreasingTail DEF FeedInv, ComingInv
  <1>5. /\ \A i \in DOMAIN published : published[i] < Head(mailbox)
        /\ \A i \in DOMAIN socket : Head(mailbox) < socket[i]
        /\ Head(mailbox) <= sent
    BY <1>3 DEF FeedInv, ComingInv, Below
  <1>6. /\ published' \in Seq(Messages) /\ Len(published') = Len(published) + 1
        /\ DOMAIN published' = 1 .. Len(published) + 1 /\ DOMAIN published = 1 .. Len(published)
        /\ \A i \in DOMAIN published : published'[i] = published[i]
        /\ published'[Len(published) + 1] = Head(mailbox)
        /\ Increasing(published')
    BY <1>1, <1>2, <1>3, <1>5, AppendTo, IncreasingAppend DEF FeedInv, ComingInv
  <1>7. \A i \in DOMAIN published' : (i \in DOMAIN published /\ published'[i] = published[i])
                                     \/ published'[i] = Head(mailbox)
    BY <1>2, <1>6
  <1>8. Typed'
    <2>1. Len(mailbox') <= MailboxCapacity /\ cursor' \in 0 .. Len(published')
      BY <1>1, <1>2, <1>3, <1>6 DEF FeedInv, Typed, TypeOK
    <2> QED BY <1>1, <1>3, <1>6, <2>1 DEF FeedInv, Typed, TypeOK
  <1>9. PassedInv'
    <2>1. Len(taken) + Len(inbox) + Held = cursor /\ Held \in {0, 1}
          /\ (forwarder = "send" => Held = 1)
      BY DEF FeedInv, PassedInv, Held
    <2>2. \A i \in DOMAIN taken : i \in DOMAIN published
      BY <1>2, <1>6, <2>1
    <2>3. \A i \in DOMAIN inbox : Len(taken) + i \in DOMAIN published
      BY <1>2, <1>6, <2>1
    <2>4. forwarder = "send" => cursor \in DOMAIN published
      BY <1>2, <1>6, <2>1
    <2> QED BY <1>1, <1>6, <2>2, <2>3, <2>4 DEF FeedInv, PassedInv, Held
  <1>10. ComingInv'
    <2>1. Below(published, mailbox)' /\ Below(published, socket)' /\ Below(mailbox, socket)'
      BY <1>1, <1>3, <1>4, <1>5, <1>7 DEF FeedInv, ComingInv, Below
    <2>2. /\ \A i \in DOMAIN mailbox' : mailbox'[i] <= sent'
          /\ \A i \in DOMAIN published' : published'[i] <= sent'
      BY <1>1, <1>3, <1>5, <1>7 DEF FeedInv, ComingInv
    <2> QED BY <1>1, <1>4, <1>6, <2>1, <2>2 DEF FeedInv, ComingInv
  <1> QED BY <1>8, <1>9, <1>10 DEF FeedInv

LEMMA ForwarderReceivesInv == ASSUME FeedInv, ForwarderReceives PROVE FeedInv'
  <1>1. /\ forwarder = "recv" /\ cursor < Len(published) /\ hand' = published[cursor + 1]
        /\ cursor' = cursor + 1 /\ forwarder' = "send"
        /\ UNCHANGED <<sent, link, backoff, socket, mailbox, published, inbox, taken, simulator>>
    BY DEF ForwarderReceives, net
  <1>2. /\ published \in Seq(Messages) /\ Len(published) \in Nat /\ cursor \in Nat
        /\ Len(inbox) \in Nat /\ Len(taken) \in Nat
    BY FeedTypes DEF FeedInv
  <1>3. cursor + 1 \in DOMAIN published /\ cursor' \in 0 .. Len(published)
    BY <1>1, <1>2
  <1>4. Typed'
    <2>1. hand' \in Messages
      BY <1>1, <1>2, <1>3
    <2>2. Messages \subseteq 0 .. MaxMessages
      BY FeedAssumption DEF Messages
    <2> QED BY <1>1, <1>3, <2>1, <2>2 DEF FeedInv, Typed, TypeOK
  <1>5. PassedInv'
    BY <1>1, <1>2 DEF FeedInv, PassedInv, Held
  <1>6. ComingInv'
    BY <1>1 DEF FeedInv, ComingInv
  <1> QED BY <1>4, <1>5, <1>6 DEF FeedInv

LEMMA ForwarderSendsInv == ASSUME FeedInv, ForwarderSends PROVE FeedInv'
  <1>1. /\ forwarder = "send" /\ Len(inbox) < InboxCapacity /\ inbox' = Append(inbox, hand)
        /\ hand' = 0 /\ forwarder' = "recv"
        /\ UNCHANGED <<sent, link, backoff, socket, mailbox, published, cursor, taken, simulator>>
    BY DEF ForwarderSends, net
  <1>2. /\ inbox \in Seq(Messages) /\ hand \in Messages /\ InboxCapacity \in Nat
        /\ Len(inbox) \in Nat /\ Len(taken) \in Nat /\ cursor \in Nat /\ MaxMessages \in Nat
    BY <1>1, FeedTypes, FeedAssumption DEF FeedInv, Typed
  <1>3. /\ inbox' \in Seq(Messages) /\ Len(inbox') = Len(inbox) + 1
        /\ DOMAIN inbox' = 1 .. Len(inbox) + 1 /\ DOMAIN inbox = 1 .. Len(inbox)
        /\ \A i \in DOMAIN inbox : inbox'[i] = inbox[i]
        /\ inbox'[Len(inbox) + 1] = hand
    BY <1>1, <1>2, AppendTo
  <1>4. Typed'
    BY <1>1, <1>2, <1>3 DEF FeedInv, Typed, TypeOK
  <1>5. PassedInv'
    <2>1. /\ Len(taken) + Len(inbox) + 1 = cursor
          /\ \A i \in DOMAIN inbox : inbox[i] = published[Len(taken) + i]
          /\ hand = published[cursor]
      BY <1>1 DEF FeedInv, PassedInv, Held
    <2>2. Len(taken) + Len(inbox') = cursor /\ Len(taken) + (Len(inbox) + 1) = cursor
      BY <1>2, <1>3, <2>1
    <2>3. \A i \in DOMAIN inbox' : i \in DOMAIN inbox \/ i = Len(inbox) + 1
      BY <1>2, <1>3
    <2>4. \A i \in DOMAIN inbox' : inbox'[i] = published[Len(taken) + i]
      BY <1>3, <2>1, <2>2, <2>3
    <2> QED BY <1>1, <1>2, <1>3, <2>2, <2>4 DEF FeedInv, PassedInv, Held
  <1>6. ComingInv'
    BY <1>1 DEF FeedInv, ComingInv
  <1> QED BY <1>4, <1>5, <1>6 DEF FeedInv

LEMMA SimulatorTakesInv == ASSUME FeedInv, SimulatorTakes PROVE FeedInv'
  <1>1. /\ inbox # << >> /\ taken' = Append(taken, Head(inbox)) /\ inbox' = Tail(inbox)
        /\ UNCHANGED <<sent, link, backoff, socket, mailbox, published, cursor, forwarder, hand,
                       simulator>>
    BY DEF SimulatorTakes, net
  <1>2. /\ inbox \in Seq(Messages) /\ taken \in Seq(Messages) /\ InboxCapacity \in Nat
        /\ Len(inbox) \in Nat /\ Len(taken) \in Nat /\ cursor \in Nat
    BY FeedTypes, FeedAssumption DEF FeedInv
  <1>3. /\ Head(inbox) = inbox[1] /\ Head(inbox) \in Messages /\ 1 \in DOMAIN inbox
        /\ Tail(inbox) \in Seq(Messages) /\ Len(Tail(inbox)) = Len(inbox) - 1
        /\ \A i \in DOMAIN Tail(inbox) :
             i \in Nat /\ i + 1 \in DOMAIN inbox /\ Tail(inbox)[i] = inbox[i + 1]
    BY <1>1, <1>2, HeadTail
  <1>4. /\ taken' \in Seq(Messages) /\ Len(taken') = Len(taken) + 1
        /\ DOMAIN taken' = 1 .. Len(taken) + 1 /\ DOMAIN taken = 1 .. Len(taken)
        /\ \A i \in DOMAIN taken : taken'[i] = taken[i]
        /\ taken'[Len(taken) + 1] = Head(inbox)
    BY <1>1, <1>2, <1>3, AppendTo
  <1>5. Typed'
    <2>1. Len(inbox') <= InboxCapacity
      BY <1>1, <1>2, <1>3 DEF FeedInv, Typed, TypeOK
    <2> QED BY <1>1, <1>3, <1>4, <2>1 DEF FeedInv, Typed, TypeOK
  <1>6. PassedInv'
    <2>1. /\ Len(taken) + Len(inbox) + Held = cursor /\ Held \in {0, 1}
          /\ \A i \in DOMAIN taken : taken[i] = published[i]
          /\ \A i \in DOMAIN inbox : inbox[i] = published[Len(taken) + i]
      BY DEF FeedInv, PassedInv, Held
    <2>2. Held' = Held /\ Len(taken') + Len(inbox') + Held = cursor
      <3>1. Held' = Held
        BY <1>1 DEF Held
      <3>2. Len(taken') = Len(taken) + 1 /\ Len(inbox') = Len(inbox) - 1
        BY <1>1, <1>3, <1>4
      <3>3. Held \in Nat
        BY <2>1
      <3>4. Len(taken') + Len(inbox') + Held = Len(taken) + Len(inbox) + Held
        BY ONLY <1>2, <3>2, <3>3
      <3>5. Len(taken') + Len(inbox') + Held = cursor
        BY ONLY <2>1, <3>4
      <3> QED BY <3>1, <3>5
    <2>3. \A i \in DOMAIN taken' : taken'[i] = published[i]
      <3>1. \A i \in DOMAIN taken' : i \in DOMAIN taken \/ i = Len(taken) + 1
        BY <1>2, <1>4
      <3>2. inbox[1] = published[Len(taken) + 1]
        BY <1>3, <2>1
      <3> QED BY <1>3, <1>4, <2>1, <3>1, <3>2
    <2>4. \A i \in DOMAIN inbox' : inbox'[i] = published[Len(taken') + i]
      <3> SUFFICES ASSUME NEW i \in DOMAIN inbox' PROVE inbox'[i] = published[Len(taken') + i]
        OBVIOUS
      <3>1. i \in Nat /\ i + 1 \in DOMAIN inbox /\ inbox'[i] = inbox[i + 1]
        BY <1>1, <1>3
      <3>2. Len(taken) + (i + 1) = Len(taken') + i
        BY <1>2, <1>4, <3>1
      <3> QED BY <2>1, <3>1, <3>2
    <2> QED BY <1>1, <2>2, <2>3, <2>4 DEF FeedInv, PassedInv
  <1>7. ComingInv'
    BY <1>1 DEF FeedInv, ComingInv
  <1> QED BY <1>5, <1>6, <1>7 DEF FeedInv

LEMMA EndInv == ASSUME FeedInv, ForwarderLags \/ SimulatorExits PROVE FeedInv'
  <1>1. /\ UNCHANGED <<sent, link, backoff, socket, mailbox, published, cursor, hand, inbox,
                       taken>>
        /\ forwarder' = forwarder \/ (forwarder = "recv" /\ forwarder' = "exited")
        /\ simulator' \in {simulator, "exited"}
    BY DEF ForwarderLags, SimulatorExits, net
  <1> QED BY <1>1 DEF FeedInv, Typed, TypeOK, PassedInv, ComingInv, Held

LEMMA FeedStep == FeedInv /\ [Next]_vars => FeedInv'
  <1> SUFFICES ASSUME FeedInv, [Next]_vars PROVE FeedInv'
    OBVIOUS
  <1>1. CASE UNCHANGED vars
    BY <1>1 DEF vars, net, down, FeedInv, Typed, TypeOK, PassedInv, ComingInv, Held, Below,
                Increasing
  <1>2. CASE Next
    BY <1>2, ServerSendsInv, LinkInv, ReadInv, PublishInv, ForwarderReceivesInv,
       ForwarderSendsInv, SimulatorTakesInv, EndInv
       DEF Next, Reconnect, Forwarder, Simulator
  <1> QED BY <1>1, <1>2

-----------------------------------------------------------------------------
(* What follows.                                                             *)

\* Everything between the broadcast channel and the simulator, in one piece.
Passed == taken \o inbox \o (IF hand = 0 THEN << >> ELSE <<hand>>)

LEMMA PassedIsPublished ==
  ASSUME FeedInv
  PROVE  /\ taken \o inbox \in Seq(Messages) /\ Passed \in Seq(Messages)
         /\ Len(taken \o inbox) <= cursor /\ Len(Passed) = cursor
         /\ Len(taken \o inbox) \in Nat
         /\ \A i \in DOMAIN (taken \o inbox) : (taken \o inbox)[i] = published[i]
         /\ \A i \in DOMAIN Passed : Passed[i] = published[i]
  <1> DEFINE two == taken \o inbox
             one == IF hand = 0 THEN << >> ELSE <<hand>>
  <1>1. /\ taken \in Seq(Messages) /\ inbox \in Seq(Messages) /\ Len(taken) \in Nat
        /\ Len(inbox) \in Nat /\ cursor \in Nat
        /\ Len(taken) + Len(inbox) + Held = cursor
        /\ \A i \in DOMAIN taken : taken[i] = published[i]
        /\ \A i \in DOMAIN inbox : inbox[i] = published[Len(taken) + i]
    BY FeedTypes DEF FeedInv, PassedInv
  <1>2. /\ one \in Seq(Messages) /\ Len(one) = Held /\ Held \in {0, 1}
        /\ \A i \in DOMAIN one : i = 1 /\ Held = 1 /\ one[i] = published[cursor]
    <2>1. CASE forwarder = "send"
      <3>1. hand \in Messages /\ hand # 0 /\ hand = published[cursor]
        BY <2>1, FeedTypes DEF FeedInv, Typed, PassedInv
      <3> QED BY <2>1, <3>1 DEF Held
    <2>2. CASE forwarder # "send"
      <3>1. one = << >> /\ Held = 0
        BY <2>2 DEF FeedInv, Typed, Held
      <3> QED BY <3>1
    <2> QED BY <2>1, <2>2
  <1> HIDE DEF one
  <1>3. /\ two \in Seq(Messages) /\ Len(two) = Len(taken) + Len(inbox)
        /\ \A i \in DOMAIN two : two[i] = published[i]
    <2>1. /\ two \in Seq(Messages) /\ Len(two) = Len(taken) + Len(inbox)
          /\ \A i \in DOMAIN taken : two[i] = taken[i]
          /\ \A i \in DOMAIN inbox : two[Len(taken) + i] = inbox[i]
          /\ \A i \in DOMAIN two : i \in DOMAIN taken \/ i - Len(taken) \in DOMAIN inbox
      BY <1>1, Concat
    <2> HIDE DEF two
    <2>2. \A i \in DOMAIN two : Len(taken) + (i - Len(taken)) = i
      BY <1>1, <2>1
    <2> QED BY <1>1, <2>1, <2>2
  <1> HIDE DEF two
  <1>4. Len(two) \in Nat /\ Len(two) <= cursor /\ Len(two) + Held = cursor
    BY <1>1, <1>2, <1>3
  <1>5. /\ Passed \in Seq(Messages) /\ Len(Passed) = Len(two) + Len(one)
        /\ \A i \in DOMAIN two : Passed[i] = two[i]
        /\ \A i \in DOMAIN one : Passed[Len(two) + i] = one[i]
        /\ \A i \in DOMAIN Passed : i \in DOMAIN two \/ i - Len(two) \in DOMAIN one
    <2>1. Passed = two \o one
      BY DEF Passed, two, one
    <2> QED BY <1>2, <1>3, <2>1, Concat
  <1>6. \A i \in DOMAIN Passed : Passed[i] = published[i]
    <2> SUFFICES ASSUME NEW i \in DOMAIN Passed PROVE Passed[i] = published[i]
      OBVIOUS
    <2>1. CASE i \in DOMAIN two
      BY <1>3, <1>5, <2>1
    <2>2. CASE i - Len(two) \in DOMAIN one
      <3>1. i \in Nat
        BY <1>5
      <3>2. i - Len(two) = 1 /\ Held = 1 /\ one[1] = published[cursor]
        BY <1>2, <2>2
      <3>3. i = cursor /\ i = Len(two) + 1 /\ 1 \in DOMAIN one
        BY <1>4, <2>2, <3>1, <3>2
      <3> QED BY <1>5, <3>2, <3>3
    <2> QED BY <1>5, <2>1, <2>2
  <1> QED BY <1>2, <1>3, <1>4, <1>5, <1>6 DEF two

LEMMA FeedIsInv == Spec => []FeedInv
  BY FeedInit, FeedStep, PTL DEF Spec

\* Every variable keeps its type and every queue its bound (flashblocks.rs, the
\* channels of main.rs).
THEOREM FeedTypeOK == Spec => []TypeOK
  <1>1. FeedInv => TypeOK
    BY DEF FeedInv, Typed
  <1> QED BY <1>1, FeedIsInv, PTL

\* What the simulator has, and what waits for it, is the beginning of what was
\* published: a forwarder that has lagged stops (main.rs, `while let Ok(event)`).
THEOREM FeedNoGap == Spec => []NoGapAfterBroadcast
  <1>1. ASSUME FeedInv PROVE NoGapAfterBroadcast
    <2> DEFINE two == taken \o inbox
    <2>1. /\ two \in Seq(Messages) /\ Len(two) \in Nat /\ Len(two) <= cursor
          /\ \A i \in DOMAIN two : two[i] = published[i]
          /\ published \in Seq(Messages) /\ Len(published) \in Nat
          /\ cursor \in Nat /\ cursor <= Len(published)
      BY <1>1, PassedIsPublished, FeedTypes DEF FeedInv
    <2> HIDE DEF two
    <2>2. Len(two) <= Len(published)
      BY <2>1
    <2>3. SubSeq(two, 1, Len(two)) = SubSeq(published, 1, Len(two))
      BY <2>1, <2>2, SameStart
    <2> QED BY <2>2, <2>3 DEF NoGapAfterBroadcast, IsPrefix, two
  <1> QED BY <1>1, FeedIsInv, PTL

\* From the socket to the simulator flashblocks keep the server's order, none twice
\* (flashblocks.rs, main.rs).
THEOREM FeedOrderKept == Spec => []OrderKept
  <1>1. ASSUME FeedInv PROVE OrderKept
    <2> DEFINE rest == SubSeq(published, cursor + 1, Len(published))
    <2>1. /\ Passed \in Seq(Messages) /\ Len(Passed) = cursor
          /\ \A i \in DOMAIN Passed : Passed[i] = published[i]
      BY <1>1, PassedIsPublished
    <2>2. /\ published \in Seq(Messages) /\ mailbox \in Seq(Messages)
          /\ socket \in Seq(Messages) /\ Len(published) \in Nat
          /\ cursor \in Nat /\ cursor <= Len(published)
      BY <1>1, FeedTypes DEF FeedInv
    <2>3. /\ rest \in Seq(Messages)
          /\ \A i \in DOMAIN rest : /\ cursor + i \in DOMAIN published
                                    /\ i \in Nat \ {0}
                                    /\ rest[i] = published[cursor + i]
      BY <2>2, RestOf
    <2> HIDE DEF rest
    <2>4. /\ \A i, j \in DOMAIN published : i < j => published[i] < published[j]
          /\ Increasing(mailbox) /\ Increasing(socket) /\ Below(mailbox, socket)
          /\ Below(published, mailbox) /\ Below(published, socket)
      BY <1>1, <2>2 DEF FeedInv, ComingInv, Increasing
    <2>5. \A i \in DOMAIN Passed : i \in DOMAIN published /\ i \in Nat /\ i <= cursor
      BY <2>1, <2>2
    <2>6. Increasing(Passed)
      BY <2>1, <2>4, <2>5 DEF Increasing
    <2>7. Increasing(rest)
      <3>1. \A i, j \in DOMAIN rest : i < j => cursor + i < cursor + j
        BY <2>2, <2>3
      <3> QED BY <2>3, <2>4, <3>1 DEF Increasing
    <2>8. Below(Passed, rest)
      <3>1. \A i \in DOMAIN Passed : \A j \in DOMAIN rest : i < cursor + j
        BY <2>2, <2>3, <2>5
      <3> QED BY <2>1, <2>3, <2>4, <2>5, <3>1 DEF Below
    <2>9. /\ Below(Passed, mailbox) /\ Below(rest, mailbox)
          /\ Below(Passed, socket) /\ Below(rest, socket)
      BY <2>1, <2>3, <2>4, <2>5 DEF Below
    <2>10. /\ Passed \o rest \in Seq(Messages) /\ Increasing(Passed \o rest)
           /\ Below(Passed \o rest, mailbox) /\ Below(Passed \o rest, socket)
      BY <2>1, <2>2, <2>3, <2>6, <2>7, <2>8, <2>9, Concat, IncreasingConcat, BelowConcat
    <2>11. /\ (Passed \o rest) \o mailbox \in Seq(Messages)
           /\ Increasing((Passed \o rest) \o mailbox)
           /\ Below((Passed \o rest) \o mailbox, socket)
      BY <2>2, <2>4, <2>10, Concat, IncreasingConcat, BelowConcat
    <2>12. Increasing(((Passed \o rest) \o mailbox) \o socket)
      BY <2>2, <2>4, <2>11, IncreasingConcat
    <2> QED BY <2>12 DEF OrderKept, Passed, rest
  <1> QED BY <1>1, FeedIsInv, PTL
=============================================================================
