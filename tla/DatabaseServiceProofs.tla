------------------------ MODULE DatabaseServiceProofs ------------------------
(***************************************************************************)
(* The transaction log is the record of the committed batches, for any      *)
(* batches, any capacity of the channel, and whatever fails.                *)
(***************************************************************************)
EXTENDS DatabaseService, TLAPS

Inserting == worker = "inserting"

Typed ==
  /\ TypeOK
  /\ Inserting => batch \in DOMAIN Batches /\ row <= Len(Batches[batch].hashes)
  /\ ~Inserting => DOMAIN working = {}

\* Batches are committed in the order in which they were logged.
InOrder ==
  /\ \A i, j \in DOMAIN channel : i < j => channel[i] < channel[j]
  /\ \A i \in DOMAIN channel : channel[i] <= logged
  /\ Inserting => batch <= logged /\ \A i \in DOMAIN channel : batch < channel[i]
  /\ \A c \in Elements(committed) :
       /\ c \in DOMAIN Batches /\ c <= logged
       /\ Inserting => c < batch
       /\ \A i \in DOMAIN channel : c < channel[i]

\* The open transaction holds the rows it has executed, and nobody has written
\* them since.
RowsHeld ==
  Inserting =>
    /\ DOMAIN working = {Batches[batch].hashes[i] : i \in 1 .. row}
    /\ \A h \in DOMAIN working : working[h] = Upsert(table[h], Batches[batch].source)

\* The row t of a hash is the record of the batches cm.
GivingOf(cm, h, s) == {b \in Elements(cm) : Contains(b, h) /\ Batches[b].source = s}
Ordered(t, cm, h, i, j) ==
  /\ t[i] # t[j]
  /\ t[i] # OtherSource /\ t[j] # OtherSource =>
       \E b \in GivingOf(cm, h, t[i]) : \A c \in GivingOf(cm, h, t[j]) : b < c
RecordOf(t, cm, h) ==
  /\ \A s \in Sources \ {OtherSource} : s \in Elements(t) <=> GivingOf(cm, h, s) # {}
  /\ \A i, j \in DOMAIN t : i < j => Ordered(t, cm, h, i, j)

Recorded == \A h \in Hashes : RecordOf(table[h], committed, h)

DatabaseInv == Typed /\ InOrder /\ RowsHeld /\ Recorded

-----------------------------------------------------------------------------
(* Sequences and sources.                                                    *)

LEMMA AppendTo ==
  ASSUME NEW S, NEW s \in Seq(S), NEW e \in S
  PROVE  /\ Append(s, e) \in Seq(S) /\ Len(s) \in Nat /\ Len(Append(s, e)) = Len(s) + 1
         /\ DOMAIN Append(s, e) = 1 .. Len(s) + 1 /\ DOMAIN s = 1 .. Len(s)
         /\ \A i \in DOMAIN s : Append(s, e)[i] = s[i]
         /\ Append(s, e)[Len(s) + 1] = e
  OBVIOUS

LEMMA ElementsAppend ==
  ASSUME NEW S, NEW s \in Seq(S), NEW e \in S
  PROVE  Elements(Append(s, e)) = Elements(s) \cup {e}
  <1>1. \A i \in DOMAIN Append(s, e) : i \in DOMAIN s \/ i = Len(s) + 1
    BY AppendTo
  <1>2. \A i \in DOMAIN s : i \in DOMAIN Append(s, e)
    BY AppendTo
  <1>3. Len(s) + 1 \in DOMAIN Append(s, e)
    BY AppendTo
  <1> QED BY <1>1, <1>2, <1>3, AppendTo DEF Elements

LEMMA HeadTail ==
  ASSUME NEW S, NEW s \in Seq(S), s # << >>
  PROVE  /\ Head(s) = s[1] /\ s[1] \in S /\ 1 \in DOMAIN s /\ Tail(s) \in Seq(S)
         /\ Len(s) \in Nat /\ Len(s) >= 1 /\ Len(Tail(s)) = Len(s) - 1
         /\ \A i \in DOMAIN Tail(s) :
              i \in Nat /\ i + 1 \in DOMAIN s /\ 1 < i + 1 /\ Tail(s)[i] = s[i + 1]
  OBVIOUS

LEMMA UpsertType ==
  ASSUME NEW t \in Seq(Sources), NEW s \in Sources
  PROVE  /\ Upsert(t, s) \in Seq(Sources)
         /\ Elements(Upsert(t, s)) = Elements(t) \cup {s}
         /\ s \in Elements(Upsert(t, s))
         /\ Upsert(Upsert(t, s), s) = Upsert(t, s)
  <1>1. CASE s \in Elements(t)
    BY <1>1 DEF Upsert
  <1>2. CASE s \notin Elements(t)
    <2>1. Upsert(t, s) = Append(t, s)
      BY <1>2 DEF Upsert
    <2>2. Append(t, s) \in Seq(Sources) /\ Elements(Append(t, s)) = Elements(t) \cup {s}
      BY AppendTo, ElementsAppend
    <2> QED BY <2>1, <2>2 DEF Upsert
  <1> QED BY <1>1, <1>2

LEMMA DatabaseTypes ==
  ASSUME Typed
  PROVE  /\ logged \in Nat /\ logged <= Len(Batches) /\ Len(Batches) \in Nat
         /\ DOMAIN Batches = 1 .. Len(Batches) /\ ChannelCapacity \in Nat
         /\ channel \in Seq(DOMAIN Batches) /\ Len(channel) \in Nat
         /\ DOMAIN channel = 1 .. Len(channel)
         /\ \A i \in DOMAIN channel : channel[i] \in Nat
         /\ committed \in Seq(DOMAIN Batches) /\ row \in Nat
         /\ \A h \in Hashes : table[h] \in Seq(Sources)
         /\ table \in [Hashes -> Seq(Sources)]
         /\ OtherSource \in Sources
         /\ \A b \in DOMAIN Batches :
              /\ b \in Nat /\ Batches[b].source \in Sources \ {OtherSource}
              /\ Batches[b].hashes \in Seq(Hashes) /\ Len(Batches[b].hashes) \in Nat
  <1>1. /\ logged \in 0 .. Len(Batches) /\ channel \in Seq(DOMAIN Batches)
        /\ committed \in Seq(DOMAIN Batches) /\ row \in Nat
        /\ table \in [Hashes -> Seq(Sources)]
    BY DEF Typed, TypeOK
  <1>2. /\ Len(Batches) \in Nat /\ DOMAIN Batches = 1 .. Len(Batches) /\ ChannelCapacity \in Nat
        /\ \A b \in DOMAIN Batches : Batches[b].hashes \in Seq(Hashes)
        /\ \A b \in DOMAIN Batches : Batches[b].source # OtherSource
    BY DatabaseAssumption
  <1>3. \A i \in DOMAIN channel : channel[i] \in DOMAIN Batches
    BY <1>1
  <1>4. /\ OtherSource \in Sources
        /\ \A b \in DOMAIN Batches : Batches[b].source \in Sources
    BY DEF Sources
  <1> QED BY <1>1, <1>2, <1>3, <1>4

-----------------------------------------------------------------------------
(* What a write does to the row of a hash.                                   *)

LEMMA RecordedIsTable == Recorded => TableIsCommitted
  BY DEF Recorded, RecordOf, Ordered, GivingOf, TableIsCommitted, Giving

\* Another program adds its own source at the end.
LEMMA OtherRecords ==
  ASSUME NEW h, NEW cm, NEW t \in Seq(Sources), RecordOf(t, cm, h),
         OtherSource \notin Elements(t)
  PROVE  RecordOf(Append(t, OtherSource), cm, h)
  <1> DEFINE u == Append(t, OtherSource)
  <1>1. /\ Elements(u) = Elements(t) \cup {OtherSource} /\ Len(t) \in Nat
        /\ DOMAIN u = 1 .. Len(t) + 1 /\ DOMAIN t = 1 .. Len(t)
        /\ \A i \in DOMAIN t : u[i] = t[i]
        /\ u[Len(t) + 1] = OtherSource
    BY AppendTo, ElementsAppend DEF Sources
  <1> HIDE DEF u
  <1>2. ASSUME NEW i \in DOMAIN u, NEW j \in DOMAIN u, i < j
        PROVE  Ordered(u, cm, h, i, j)
    <2>1. i \in DOMAIN t /\ (j \in DOMAIN t \/ j = Len(t) + 1)
      BY <1>1, <1>2
    <2>2. CASE j \in DOMAIN t
      <3>1. Ordered(t, cm, h, i, j) /\ u[i] = t[i] /\ u[j] = t[j]
        BY <1>1, <1>2, <2>1, <2>2 DEF RecordOf
      <3> QED BY <3>1 DEF Ordered
    <2>3. CASE j = Len(t) + 1
      <3>1. u[i] \in Elements(t) /\ u[j] = OtherSource
        BY <1>1, <2>1, <2>3 DEF Elements
      <3> QED BY <3>1 DEF Ordered
    <2> QED BY <2>1, <2>2, <2>3
  <1>3. \A s \in Sources \ {OtherSource} : s \in Elements(u) <=> GivingOf(cm, h, s) # {}
    BY <1>1 DEF RecordOf
  <1>4. RecordOf(u, cm, h)
    BY <1>2, <1>3 DEF RecordOf
  <1> QED BY <1>4 DEF u

\* A commit adds the batch's source, unless it is there, after every other.
LEMMA CommitRecords ==
  ASSUME NEW h, NEW cm \in Seq(DOMAIN Batches), NEW t \in Seq(Sources),
         NEW b \in DOMAIN Batches, DOMAIN Batches \subseteq Nat, RecordOf(t, cm, h),
         \A c \in Elements(cm) : c \in Nat /\ c < b
  PROVE  /\ ~Contains(b, h) => RecordOf(t, Append(cm, b), h)
         /\ Contains(b, h) => RecordOf(Upsert(t, Batches[b].source), Append(cm, b), h)
  <1> DEFINE src == Batches[b].source
             cn  == Append(cm, b)
  <1>1. Elements(cn) = Elements(cm) \cup {b}
    BY ElementsAppend
  <1>2. src \in Sources /\ src # OtherSource /\ b \in Nat
    BY DatabaseAssumption DEF Sources
  <1> HIDE DEF cn, src
  <1>3. \A s : /\ GivingOf(cm, h, s) \subseteq GivingOf(cn, h, s)
               /\ \A c \in GivingOf(cn, h, s) : c \in GivingOf(cm, h, s) \/ c = b
               /\ \A c \in GivingOf(cm, h, s) : c \in Nat /\ c < b
               /\ b \in GivingOf(cn, h, s) <=> Contains(b, h) /\ src = s
    BY <1>1 DEF GivingOf, src
  <1>4. ASSUME NEW i \in DOMAIN t, NEW j \in DOMAIN t, i < j
        PROVE  Ordered(t, cn, h, i, j)
    <2>1. Ordered(t, cm, h, i, j)
      BY <1>4 DEF RecordOf
    <2>2. ASSUME t[i] # OtherSource, t[j] # OtherSource
          PROVE  \E a \in GivingOf(cn, h, t[i]) : \A c \in GivingOf(cn, h, t[j]) : a < c
      <3>1. PICK a \in GivingOf(cm, h, t[i]) : \A c \in GivingOf(cm, h, t[j]) : a < c
        BY <2>1, <2>2 DEF Ordered
      <3>2. a \in GivingOf(cn, h, t[i]) /\ a < b
        BY <1>3
      <3>3. \A c \in GivingOf(cn, h, t[j]) : a < c
        BY <1>3, <3>1, <3>2
      <3> QED BY <3>2, <3>3
    <2> QED BY <2>1, <2>2 DEF Ordered
  <1>5. ASSUME ~Contains(b, h) \/ src \in Elements(t)
        PROVE  RecordOf(t, cn, h)
    <2>1. \A s \in Sources \ {OtherSource} : s \in Elements(t) <=> GivingOf(cn, h, s) # {}
      BY <1>3, <1>5 DEF RecordOf
    <2> QED BY <1>4, <2>1 DEF RecordOf
  <1>6. ASSUME Contains(b, h), src \notin Elements(t)
        PROVE  RecordOf(Append(t, src), cn, h)
    <2> DEFINE u == Append(t, src)
    <2>1. /\ Elements(u) = Elements(t) \cup {src} /\ Len(t) \in Nat
          /\ DOMAIN u = 1 .. Len(t) + 1 /\ DOMAIN t = 1 .. Len(t)
          /\ \A i \in DOMAIN t : u[i] = t[i] /\ t[i] \in Sources
          /\ u[Len(t) + 1] = src
      BY <1>2, AppendTo, ElementsAppend
    <2> HIDE DEF u
    <2>2. \A s \in Sources \ {OtherSource} : s \in Elements(u) <=> GivingOf(cn, h, s) # {}
      BY <1>3, <1>6, <2>1 DEF RecordOf
    <2>3. \A c \in GivingOf(cn, h, src) : c = b
      <3>1. GivingOf(cm, h, src) = {}
        BY <1>2, <1>6 DEF RecordOf
      <3> QED BY <1>3, <3>1
    <2>4. ASSUME NEW i \in DOMAIN u, NEW j \in DOMAIN u, i < j
          PROVE  Ordered(u, cn, h, i, j)
      <3>1. i \in DOMAIN t /\ u[i] = t[i] /\ (j \in DOMAIN t \/ j = Len(t) + 1)
        BY <2>1, <2>4
      <3>2. CASE j \in DOMAIN t
        <4>1. Ordered(t, cn, h, i, j) /\ u[j] = t[j]
          BY <1>4, <2>1, <2>4, <3>1, <3>2
        <4> QED BY <3>1, <4>1 DEF Ordered
      <3>3. CASE j = Len(t) + 1
        <4>1. u[j] = src /\ u[i] \in Elements(t) /\ u[i] \in Sources
          BY <2>1, <3>1, <3>3 DEF Elements
        <4>2. ASSUME u[i] # OtherSource
              PROVE  \E a \in GivingOf(cn, h, u[i]) : \A c \in GivingOf(cn, h, u[j]) : a < c
          <5>1. PICK a : a \in GivingOf(cm, h, u[i])
            BY <4>1, <4>2 DEF RecordOf
          <5>2. a \in GivingOf(cn, h, u[i]) /\ a < b
            BY <1>3, <5>1
          <5> QED BY <2>3, <4>1, <5>2
        <4>3. u[i] # u[j]
          BY <1>6, <4>1
        <4> QED BY <4>2, <4>3 DEF Ordered
      <3> QED BY <3>1, <3>2, <3>3
    <2>5. RecordOf(u, cn, h)
      BY <2>2, <2>4 DEF RecordOf
    <2> QED BY <2>5 DEF u
  <1> QED BY <1>5, <1>6 DEF Upsert, src, cn

-----------------------------------------------------------------------------
(* The steps.                                                                *)

LEMMA DatabaseInit == Init => DatabaseInv
  <1> SUFFICES ASSUME Init PROVE DatabaseInv
    OBVIOUS
  <1>1. Typed
    <2>1. Len(Batches) \in Nat /\ ChannelCapacity \in Nat
      BY DatabaseAssumption
    <2>2. DOMAIN working = {}
      BY DEF Init
    <2>3. \A h \in DOMAIN working : working[h] \in Seq(Sources)
      BY <2>2
    <2>4. table \in [Hashes -> Seq(Sources)]
      BY DEF Init
    <2>5. /\ logged = 0 /\ exited = FALSE /\ channel = << >> /\ worker = "connecting"
          /\ pool = FALSE /\ batch = 0 /\ row = 0 /\ committed = << >> /\ hung = FALSE
      BY DEF Init
    <2>6. TypeOK
      <3>1. exited \in BOOLEAN /\ pool \in BOOLEAN /\ hung \in BOOLEAN
        BY <2>5, Zenon
      <3>2. channel \in Seq(DOMAIN Batches) /\ committed \in Seq(DOMAIN Batches)
        BY <2>5
      <3>3. /\ logged \in 0 .. Len(Batches) /\ batch \in 0 .. Len(Batches) /\ row \in Nat
            /\ Len(channel) <= ChannelCapacity
        BY <2>1, <2>5
      <3>4. DOMAIN working \subseteq Hashes
        BY <2>2
      <3> QED BY <2>3, <2>4, <2>5, <3>1, <3>2, <3>3, <3>4 DEF TypeOK
    <2> QED BY <2>2, <2>5, <2>6 DEF Typed, Inserting
  <1>2. Elements(committed) = {}
    BY DEF Init, Elements
  <1>3. Recorded
    BY <1>2 DEF Init, Recorded, RecordOf, GivingOf, Elements
  <1> QED BY <1>1, <1>2, <1>3 DEF DatabaseInv, Init, InOrder, RowsHeld, Inserting

LEMMA LogTransactionsInv == ASSUME DatabaseInv, LogTransactions PROVE DatabaseInv'
  <1>1. /\ logged < Len(Batches) /\ logged' = logged + 1
        /\ \/ channel' = channel
           \/ Len(channel) < ChannelCapacity /\ channel' = Append(channel, logged + 1)
        /\ UNCHANGED <<exited, worker, pool, batch, row, working, table, committed, hung>>
    BY DEF LogTransactions, open
  <1>2. /\ logged \in Nat /\ Len(Batches) \in Nat /\ channel \in Seq(DOMAIN Batches)
        /\ logged + 1 \in DOMAIN Batches /\ logged' \in 0 .. Len(Batches)
        /\ ChannelCapacity \in Nat /\ Len(channel) \in Nat
        /\ \A i \in DOMAIN channel : channel[i] \in Nat
        /\ \A b \in DOMAIN Batches : b \in Nat
    BY <1>1, DatabaseTypes DEF DatabaseInv
  <1>3. Typed'
    <2>1. channel' \in Seq(DOMAIN Batches) /\ Len(channel') <= ChannelCapacity
      <3>1. CASE channel' = channel
        BY <1>2, <3>1 DEF DatabaseInv, Typed, TypeOK
      <3>2. CASE Len(channel) < ChannelCapacity /\ channel' = Append(channel, logged + 1)
        <4>1. channel' \in Seq(DOMAIN Batches) /\ Len(channel') = Len(channel) + 1
          BY <1>2, <3>2, AppendTo
        <4> QED BY <1>2, <3>2, <4>1
      <3> QED BY <1>1, <3>1, <3>2
    <2> QED BY <1>1, <1>2, <2>1 DEF DatabaseInv, Typed, TypeOK, Inserting
  <1>4. InOrder'
    <2>1. CASE channel' = channel
      <3>1. \A c \in Elements(committed) : c \in Nat /\ c <= logged + 1
        BY <1>2 DEF DatabaseInv, InOrder
      <3>2. Inserting => batch \in Nat
        BY <1>2 DEF DatabaseInv, Typed
      <3>3. Elements(committed') = Elements(committed) /\ (Inserting' <=> Inserting)
        BY <1>1 DEF Inserting
      <3> QED BY <1>1, <1>2, <2>1, <3>1, <3>2, <3>3 DEF DatabaseInv, InOrder
    <2>2. CASE channel' = Append(channel, logged + 1)
      <3>1. \A i \in DOMAIN channel' :
              \/ i \in DOMAIN channel /\ channel'[i] = channel[i]
              \/ i = Len(channel) + 1 /\ channel'[i] = logged + 1
        BY <1>2, <2>2, AppendTo
      <3>2. \A i \in DOMAIN channel : i \in Nat /\ i < Len(channel) + 1
        BY <1>2
      <3>3. \A i \in DOMAIN channel : channel[i] < logged + 1
        BY <1>2 DEF DatabaseInv, InOrder
      <3>4. \A i, j \in DOMAIN channel' : i < j => channel'[i] < channel'[j]
        BY <1>2, <3>1, <3>2, <3>3 DEF DatabaseInv, InOrder
      <3>5. \A i \in DOMAIN channel' : channel'[i] <= logged'
        BY <1>1, <1>2, <3>1, <3>3
      <3>6. Inserting' => batch' <= logged' /\ \A i \in DOMAIN channel' : batch' < channel'[i]
        <4> SUFFICES ASSUME Inserting
                     PROVE  batch <= logged + 1 /\ \A i \in DOMAIN channel' : batch < channel'[i]
          BY <1>1 DEF Inserting
        <4>1. batch \in Nat /\ batch <= logged /\ \A i \in DOMAIN channel : batch < channel[i]
          BY <1>2 DEF DatabaseInv, InOrder, Typed
        <4> QED BY <1>2, <3>1, <4>1
      <3>7. \A c \in Elements(committed') :
              /\ c \in DOMAIN Batches /\ c <= logged'
              /\ Inserting' => c < batch'
              /\ \A i \in DOMAIN channel' : c < channel'[i]
        <4> SUFFICES ASSUME NEW c \in Elements(committed)
                     PROVE  /\ c \in DOMAIN Batches /\ c <= logged + 1
                            /\ Inserting => c < batch
                            /\ \A i \in DOMAIN channel' : c < channel'[i]
          BY <1>1 DEF Inserting, Elements
        <4>1. /\ c \in DOMAIN Batches /\ c <= logged /\ c \in Nat
              /\ Inserting => c < batch
              /\ \A i \in DOMAIN channel : c < channel[i]
          BY <1>2 DEF DatabaseInv, InOrder
        <4> QED BY <1>2, <3>1, <4>1
      <3> QED BY <3>4, <3>5, <3>6, <3>7 DEF InOrder
    <2> QED BY <1>1, <2>1, <2>2
  <1>5. RowsHeld' /\ Recorded'
    BY <1>1 DEF DatabaseInv, RowsHeld, Recorded, Inserting
  <1> QED BY <1>3, <1>4, <1>5 DEF DatabaseInv

\* Steps that leave the queue, the open transaction and the table alone.
LEMMA QuietInv ==
  ASSUME DatabaseInv, SimulatorExits \/ Connect \/ ConnectFails \/ DatabaseHangs
  PROVE  DatabaseInv'
  <1>1. /\ UNCHANGED <<logged, channel, batch, row, working, table, committed>>
        /\ worker' = worker \/ (~Inserting /\ worker' = "receiving")
        /\ exited' \in {exited, TRUE} /\ pool' \in {pool, TRUE} /\ hung' \in {hung, TRUE}
    BY DEF SimulatorExits, Connect, ConnectFails, DatabaseHangs, open, Inserting
  <1>2. Inserting' <=> Inserting
    BY <1>1 DEF Inserting
  <1>3. exited' \in BOOLEAN /\ pool' \in BOOLEAN /\ hung' \in BOOLEAN
    BY <1>1, Zenon DEF DatabaseInv, Typed, TypeOK
  <1>4. worker' \in {"connecting", "receiving", "inserting", "stopped"}
    BY <1>1 DEF DatabaseInv, Typed, TypeOK
  <1>5. Typed'
    BY <1>1, <1>2, <1>3, <1>4 DEF DatabaseInv, Typed, TypeOK
  <1> QED BY <1>1, <1>2, <1>5 DEF DatabaseInv, InOrder, RowsHeld, Recorded

LEMMA ReceiveInv == ASSUME DatabaseInv, Receive PROVE DatabaseInv'
  <1>1. /\ worker = "receiving" /\ channel # << >> /\ channel' = Tail(channel)
        /\ \/ /\ worker' = "inserting" /\ batch' = Head(channel) /\ row' = 0
              /\ working' = << >>
           \/ UNCHANGED <<worker, batch, row, working>>
        /\ UNCHANGED <<logged, exited, pool, table, committed, hung>>
    BY DEF Receive, open
  <1>2. /\ channel \in Seq(DOMAIN Batches) /\ logged \in Nat /\ DOMAIN Batches = 1 .. Len(Batches)
        /\ Len(Batches) \in Nat /\ ChannelCapacity \in Nat
        /\ \A i \in DOMAIN channel : channel[i] \in Nat
        /\ \A b \in DOMAIN Batches : b \in Nat /\ Len(Batches[b].hashes) \in Nat
    BY DatabaseTypes DEF DatabaseInv
  <1>3. /\ Head(channel) = channel[1] /\ Head(channel) \in DOMAIN Batches
        /\ 1 \in DOMAIN channel /\ channel' \in Seq(DOMAIN Batches)
        /\ Len(channel') = Len(channel) - 1 /\ Len(channel) \in Nat
        /\ \A i \in DOMAIN channel' :
             i \in Nat /\ i + 1 \in DOMAIN channel /\ 1 < i + 1 /\ channel'[i] = channel[i + 1]
    BY <1>1, <1>2, HeadTail
  <1>4. Len(channel') <= ChannelCapacity
    BY <1>2, <1>3 DEF DatabaseInv, Typed, TypeOK
  <1>5. /\ \A i, j \in DOMAIN channel' : i < j => channel'[i] < channel'[j]
        /\ \A i \in DOMAIN channel' : channel'[i] <= logged /\ Head(channel) < channel'[i]
        /\ Head(channel) <= logged
        /\ \A c \in Elements(committed) :
             /\ c \in DOMAIN Batches /\ c <= logged /\ c < Head(channel)
             /\ \A i \in DOMAIN channel' : c < channel'[i]
    <2>1. \A i, j \in DOMAIN channel' : i < j => i + 1 < j + 1
      BY <1>3
    <2> QED BY <1>3, <2>1 DEF DatabaseInv, InOrder
  <1>6. CASE /\ worker' = "inserting" /\ batch' = Head(channel) /\ row' = 0
             /\ working' = << >>
    <2>1. DOMAIN working' = {} /\ batch' \in DOMAIN Batches /\ batch' \in 0 .. Len(Batches)
      BY <1>2, <1>3, <1>6
    <2>2. Typed'
      <3>1. /\ row' \in Nat /\ DOMAIN working' \subseteq Hashes
            /\ \A h \in DOMAIN working' : working'[h] \in Seq(Sources)
            /\ 0 <= Len(Batches[batch'].hashes)
        BY <1>2, <1>6, <2>1
      <3> QED BY <1>1, <1>3, <1>4, <1>6, <2>1, <3>1 DEF DatabaseInv, Typed, TypeOK, Inserting
    <2>3. InOrder'
      BY <1>1, <1>5, <1>6 DEF InOrder, Inserting
    <2>4. RowsHeld'
      BY <1>6, <2>1 DEF RowsHeld
    <2>5. Recorded'
      BY <1>1 DEF DatabaseInv, Recorded
    <2> QED BY <2>2, <2>3, <2>4, <2>5 DEF DatabaseInv
  <1>7. CASE UNCHANGED <<worker, batch, row, working>>
    <2>1. Typed'
      BY <1>1, <1>3, <1>4, <1>7 DEF DatabaseInv, Typed, TypeOK, Inserting
    <2>2. InOrder'
      BY <1>1, <1>5, <1>7 DEF InOrder, Inserting
    <2>3. RowsHeld' /\ Recorded'
      BY <1>1, <1>7 DEF DatabaseInv, RowsHeld, Recorded, Inserting
    <2> QED BY <2>1, <2>2, <2>3 DEF DatabaseInv
  <1> QED BY <1>1, <1>6, <1>7

LEMMA InsertRowInv == ASSUME DatabaseInv, InsertRow PROVE DatabaseInv'
  <1> DEFINE src == Batches[batch].source
             h   == Batches[batch].hashes[row + 1]
             old == IF h \in DOMAIN working THEN working[h] ELSE table[h]
  <1>1. /\ Inserting /\ row < Len(Batches[batch].hashes) /\ row' = row + 1
        /\ working' = [k \in DOMAIN working \cup {h} |->
                         IF k = h THEN Upsert(old, src) ELSE working[k]]
        /\ UNCHANGED <<logged, exited, channel, worker, pool, batch, table, committed, hung>>
    BY DEF InsertRow, Inserting
  <1>2. /\ batch \in DOMAIN Batches /\ row \in Nat /\ src \in Sources
        /\ Batches[batch].hashes \in Seq(Hashes) /\ Len(Batches[batch].hashes) \in Nat
        /\ \A k \in Hashes : table[k] \in Seq(Sources)
        /\ DOMAIN working \subseteq Hashes /\ \A k \in DOMAIN working : working[k] \in Seq(Sources)
    BY <1>1, DatabaseTypes DEF DatabaseInv, Typed, TypeOK
  <1>3. h \in Hashes
    BY <1>1, <1>2
  <1>4. /\ DOMAIN working = {Batches[batch].hashes[i] : i \in 1 .. row}
        /\ \A k \in DOMAIN working : working[k] = Upsert(table[k], src)
    BY <1>1 DEF DatabaseInv, RowsHeld
  <1>5. Upsert(old, src) = Upsert(table[h], src) /\ Upsert(table[h], src) \in Seq(Sources)
    BY <1>2, <1>3, <1>4, UpsertType
  <1>6. /\ DOMAIN working' = DOMAIN working \cup {h}
        /\ \A k \in DOMAIN working' : working'[k] = Upsert(table[k], src)
        /\ \A k \in DOMAIN working' : working'[k] \in Seq(Sources)
    <2> HIDE DEF old, h, src
    <2>1. \A k \in DOMAIN working' : working'[k] = IF k = h THEN Upsert(old, src) ELSE working[k]
      BY <1>1
    <2> QED BY <1>1, <1>2, <1>4, <1>5, <2>1
  <1>7. DOMAIN working' = {Batches[batch].hashes[i] : i \in 1 .. row + 1}
    <2>1. 1 .. row + 1 = (1 .. row) \cup {row + 1}
      BY <1>2
    <2> QED BY <1>4, <1>6, <2>1
  <1>8. Typed'
    <2>1. /\ row' \in Nat /\ row' <= Len(Batches[batch].hashes)
          /\ DOMAIN working' \subseteq Hashes
      BY <1>1, <1>2, <1>3, <1>6
    <2> QED BY <1>1, <1>2, <1>6, <2>1 DEF DatabaseInv, Typed, TypeOK, Inserting
  <1>9. InOrder' /\ Recorded'
    BY <1>1 DEF DatabaseInv, InOrder, Recorded, Inserting
  <1>10. RowsHeld'
    <2>1. batch' = batch /\ row' = row + 1 /\ table' = table
      BY <1>1
    <2>2. /\ DOMAIN working' = {Batches[batch'].hashes[i] : i \in 1 .. row'}
          /\ \A k \in DOMAIN working' : working'[k] = Upsert(table'[k], Batches[batch'].source)
      BY <1>6, <1>7, <2>1
    <2> QED BY <2>2 DEF RowsHeld
  <1> QED BY <1>8, <1>9, <1>10 DEF DatabaseInv

LEMMA FinishInv ==
  ASSUME DatabaseInv, InsertFails \/ NodeExits
  PROVE  DatabaseInv'
  <1>1. /\ worker' \in {"receiving", "stopped"} /\ batch' = 0 /\ row' = 0 /\ working' = << >>
        /\ exited' \in {exited, TRUE} /\ channel' \in {channel, << >>}
        /\ UNCHANGED <<logged, pool, table, committed, hung>>
    BY DEF InsertFails, NodeExits, Finish
  <1>2. DOMAIN working' = {} /\ ~Inserting'
    BY <1>1 DEF Inserting
  <1>3. Typed'
    <2>1. exited' \in BOOLEAN
      BY <1>1, Zenon DEF DatabaseInv, Typed, TypeOK
    <2>2. channel' \in Seq(DOMAIN Batches) /\ Len(channel') <= ChannelCapacity
      <3>1. << >> \in Seq(DOMAIN Batches) /\ Len(<< >>) <= ChannelCapacity
        BY DatabaseAssumption
      <3> QED BY <1>1, <3>1 DEF DatabaseInv, Typed, TypeOK
    <2>3. batch' \in 0 .. Len(Batches) /\ row' \in Nat
      BY <1>1, DatabaseTypes DEF DatabaseInv
    <2>4. DOMAIN working' \subseteq Hashes /\ \A h \in DOMAIN working' : working'[h] \in Seq(Sources)
      BY <1>2
    <2> QED BY <1>1, <1>2, <2>1, <2>2, <2>3, <2>4 DEF DatabaseInv, Typed, TypeOK
  <1>4. InOrder'
    <2>1. CASE channel' = channel
      BY <1>1, <1>2, <2>1 DEF DatabaseInv, InOrder
    <2>2. CASE channel' = << >>
      <3>1. DOMAIN channel' = {}
        BY <2>2
      <3> QED BY <1>1, <1>2, <3>1 DEF DatabaseInv, InOrder
    <2> QED BY <1>1, <2>1, <2>2
  <1>5. RowsHeld' /\ Recorded'
    BY <1>1, <1>2 DEF DatabaseInv, RowsHeld, Recorded
  <1> QED BY <1>3, <1>4, <1>5 DEF DatabaseInv

LEMMA CommitInv == ASSUME DatabaseInv, Commit PROVE DatabaseInv'
  <1> DEFINE src == Batches[batch].source
  <1>1. /\ Inserting /\ row = Len(Batches[batch].hashes) /\ table' = Merged
        /\ committed' = Append(committed, batch)
        /\ worker' = "receiving" /\ batch' = 0 /\ row' = 0 /\ working' = << >>
        /\ UNCHANGED <<logged, exited, channel, pool, hung>>
    BY DEF Commit, Finish, Inserting
  <1>2. /\ batch \in DOMAIN Batches /\ src \in Sources /\ DOMAIN Batches \subseteq Nat
        /\ Batches[batch].hashes \in Seq(Hashes) /\ committed \in Seq(DOMAIN Batches)
        /\ \A h \in Hashes : table[h] \in Seq(Sources)
    BY <1>1, DatabaseTypes DEF DatabaseInv, Typed
  <1>3. \A h \in Hashes : h \in DOMAIN working <=> Contains(batch, h)
    <2>1. DOMAIN Batches[batch].hashes = 1 .. row
      BY <1>1, <1>2
    <2> QED BY <1>1, <2>1 DEF DatabaseInv, RowsHeld, Contains, Elements
  <1>4. \A h \in Hashes : table'[h] = IF Contains(batch, h) THEN Upsert(table[h], src) ELSE table[h]
    BY <1>1, <1>3 DEF Merged, DatabaseInv, RowsHeld
  <1>5. DOMAIN working' = {} /\ ~Inserting'
    BY <1>1 DEF Inserting
  <1>6. committed' \in Seq(DOMAIN Batches) /\ Elements(committed') = Elements(committed) \cup {batch}
    BY <1>1, <1>2, AppendTo, ElementsAppend
  <1>7. Typed'
    <2>1. table' \in [Hashes -> Seq(Sources)]
      <3>1. \A h \in Hashes : table'[h] \in Seq(Sources)
        BY <1>2, <1>4, UpsertType
      <3> QED BY <1>1, <3>1 DEF Merged
    <2>2. batch' \in 0 .. Len(Batches) /\ row' \in Nat
      BY <1>1, DatabaseTypes DEF DatabaseInv
    <2>3. DOMAIN working' \subseteq Hashes /\ \A h \in DOMAIN working' : working'[h] \in Seq(Sources)
      BY <1>5
    <2> QED BY <1>1, <1>5, <1>6, <2>1, <2>2, <2>3 DEF DatabaseInv, Typed, TypeOK
  <1>8. InOrder'
    <2>1. \A c \in Elements(committed') :
            c \in DOMAIN Batches /\ c <= logged /\ \A i \in DOMAIN channel : c < channel[i]
      BY <1>1, <1>2, <1>6 DEF DatabaseInv, InOrder
    <2> QED BY <1>1, <1>5, <2>1 DEF DatabaseInv, InOrder
  <1>9. Recorded'
    <2> SUFFICES ASSUME NEW h \in Hashes PROVE RecordOf(table'[h], committed', h)
      BY DEF Recorded
    <2>1. /\ RecordOf(table[h], committed, h)
          /\ \A c \in Elements(committed) : c \in Nat /\ c < batch
      BY <1>1, <1>2 DEF DatabaseInv, Recorded, InOrder
    <2> QED BY <1>1, <1>2, <1>4, <2>1, CommitRecords
  <1> QED BY <1>5, <1>7, <1>8, <1>9 DEF DatabaseInv, RowsHeld

LEMMA OtherWriterInv == ASSUME DatabaseInv, OtherWriter PROVE DatabaseInv'
  <1>1. PICK h \in Hashes \ DOMAIN working :
          /\ OtherSource \notin Elements(table[h])
          /\ table' = [table EXCEPT ![h] = Append(@, OtherSource)]
          /\ UNCHANGED <<logged, exited, channel, worker, pool, batch, row, working,
                         committed, hung>>
    BY DEF OtherWriter, open
  <1>2. /\ table \in [Hashes -> Seq(Sources)] /\ table[h] \in Seq(Sources)
        /\ Append(table[h], OtherSource) \in Seq(Sources)
    BY DatabaseTypes, AppendTo DEF DatabaseInv
  <1>3. /\ table' \in [Hashes -> Seq(Sources)] /\ table'[h] = Append(table[h], OtherSource)
        /\ \A k \in Hashes \ {h} : table'[k] = table[k]
    BY <1>1, <1>2
  <1>4. Typed' /\ InOrder'
    BY <1>1, <1>3 DEF DatabaseInv, Typed, TypeOK, InOrder, Inserting
  <1>5. RowsHeld'
    <2>1. \A k \in DOMAIN working : k \in Hashes \ {h}
      BY <1>1 DEF DatabaseInv, Typed, TypeOK
    <2> QED BY <1>1, <1>3, <2>1 DEF DatabaseInv, RowsHeld, Inserting
  <1>6. RecordOf(table'[h], committed, h)
    BY <1>1, <1>2, <1>3, OtherRecords DEF DatabaseInv, Recorded
  <1>7. Recorded'
    BY <1>1, <1>3, <1>6 DEF DatabaseInv, Recorded
  <1> QED BY <1>4, <1>5, <1>7 DEF DatabaseInv

LEMMA DatabaseStep == DatabaseInv /\ [Next]_vars => DatabaseInv'
  <1> SUFFICES ASSUME DatabaseInv, [Next]_vars PROVE DatabaseInv'
    OBVIOUS
  <1>1. CASE UNCHANGED vars
    BY <1>1 DEF vars, open, DatabaseInv, Typed, TypeOK, InOrder, RowsHeld, Recorded, Inserting
  <1>2. CASE Next
    BY <1>2, LogTransactionsInv, QuietInv, ReceiveInv, InsertRowInv, FinishInv, CommitInv,
       OtherWriterInv DEF Next, Actor
  <1> QED BY <1>1, <1>2

-----------------------------------------------------------------------------

\* Every variable keeps its type, and the actor's channel its bound
\* (database_service.rs).
THEOREM DatabaseTypeOK == Spec => []TypeOK
  <1>1. DatabaseInv => TypeOK
    BY DEF DatabaseInv, Typed
  <1> QED BY <1>1, DatabaseInit, DatabaseStep, PTL DEF Spec

\* The table is the record of the committed batches: failures, a replay and other
\* writers neither lose a source of it nor add one (insert_transaction_batch).
THEOREM DatabaseTableIsCommitted == Spec => []TableIsCommitted
  <1>1. DatabaseInv => TableIsCommitted
    BY RecordedIsTable DEF DatabaseInv
  <1> QED BY <1>1, DatabaseInit, DatabaseStep, PTL DEF Spec
=============================================================================
