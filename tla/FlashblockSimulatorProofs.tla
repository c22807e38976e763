---------------------- MODULE FlashblockSimulatorProofs ----------------------
(***************************************************************************)
(* The snapshots of the simulator: in chain order, on one base for each     *)
(* block, mixing blocks only after a failed initialisation, and exact       *)
(* unless something was skipped, for every feed, every loss and every       *)
(* moment at which the node moves on.                                       *)
(***************************************************************************)
EXTENDS FlashblockSimulator, FiniteSetTheorems, TLAPS

\* What e is followed by: everything in the channel and everything still to come.
Behind(e) ==
  /\ \A i \in DOMAIN inbox : Precedes(e, inbox[i])
  /\ \A k \in (produced + 1) .. Len(Feed) : Precedes(e, Feed[k])

Holding == pc # "recv"

\* The loop works in chain order.
OrderInv ==
  /\ \A i, j \in DOMAIN inbox : i < j => Precedes(inbox[i], inbox[j])
  /\ \A i \in DOMAIN inbox : \A k \in (produced + 1) .. Len(Feed) : Precedes(inbox[i], Feed[k])
  /\ Holding => event \in Events /\ Behind(event)
  /\ Consecutive(exec.executed)
  /\ exec.executed # << >> =>
       /\ Behind(Last(exec.executed))
       /\ Holding /\ pc # "bundle" => Precedes(Last(exec.executed), event)

\* No block before the current one comes again.
CurrentInv ==
  /\ Holding => currentBlock <= event.block
  /\ pc \in {"initialize", "execute", "bundle"} => currentBlock = event.block
  /\ \A i \in DOMAIN inbox : currentBlock <= inbox[i].block
  /\ \A k \in (produced + 1) .. Len(Feed) : currentBlock <= Feed[k].block

\* The executor stands on a state that was read no later than its number.
ExecInv ==
  /\ exec = [ready |-> exec.ready, base |-> exec.base, block |-> exec.block,
             nonces |-> exec.nonces, executed |-> exec.executed]
  /\ exec.base <= exec.block /\ exec.block <= head
  /\ latest <= head
  /\ exec.ready = initialized
  /\ pc = "execute" => initialized

\* While the current block is set up there is no snapshot of it; afterwards all of
\* its snapshots are on the executor's base.
BaseInv ==
  /\ ~initialized => snapshots = {}
  /\ \A n \in snapshots :
       /\ n.of.block \in Nat /\ n.of.block <= currentBlock /\ n.state.block_number \in Nat
       /\ pc = "initialize" => n.of.block < currentBlock
       /\ n.of.block = currentBlock =>
            n.state.base = exec.base /\ n.state.block_number = exec.block

\* The overlay holds another block's flashblocks only after a failure, or until the
\* initialisation under way replaces it.
MixInv ==
  initialized /\ pc # "initialize" =>
    \/ currentBlock \in failed
    \/ \A i \in DOMAIN exec.executed : exec.executed[i].block = currentBlock

Checked ==
  ExecutedInOrder /\ BaseNotAheadOfNumber /\ OneBasePerBlock /\ MixedOnlyAfterFailure

SimulatorInv ==
  TypeOK /\ OrderInv /\ CurrentInv /\ ExecInv /\ BaseInv /\ MixInv /\ Checked

-----------------------------------------------------------------------------
\* An event is its flashblock without the transactions that do not decode.
LEMMA OtherTxs ==
  ASSUME NEW f, NEW t, f = [block |-> f.block, index |-> f.index, txs |-> f.txs]
  PROVE  [f EXCEPT !.txs = t].block = f.block /\ [f EXCEPT !.txs = t].index = f.index
  OBVIOUS

LEMMA EventOf ==
  ASSUME NEW i \in 1 .. Len(Feed)
  PROVE  /\ Event(Feed[i]).block = Feed[i].block /\ Event(Feed[i]).index = Feed[i].index
         /\ Feed[i].block \in Nat \ {0} /\ Feed[i].index \in Nat
  <1> DEFINE f == Feed[i]
  <1>1. /\ f = [block |-> f.block, index |-> f.index, txs |-> f.txs]
        /\ f.block \in Nat \ {0} /\ f.index \in Nat
    BY FeedAssumption
  <1> HIDE DEF f
  <1>2. Event(f).block = f.block /\ Event(f).index = f.index
    BY <1>1, OtherTxs, Zenon DEF Event
  <1> QED BY <1>1, <1>2 DEF f

LEMMA EventTyped ==
  ASSUME NEW e \in Events
  PROVE  e.block \in 1 .. LastBlock /\ e.index \in Nat /\ LastBlock \in Nat
  <1>1. PICK i \in 1 .. Len(Feed) : e = Event(Feed[i])
    BY DEF Events
  <1>2. Len(Feed) \in Nat \ {0} /\ Feed[Len(Feed)].block \in Nat
    BY FeedAssumption, EventOf
  <1>3. i < Len(Feed) => Precedes(Feed[i], Feed[Len(Feed)])
    BY <1>2, FeedAssumption
  <1>4. e.block = Feed[i].block /\ e.index \in Nat /\ Feed[i].block \in Nat \ {0}
    BY <1>1, EventOf
  <1>5. Feed[i].block <= Feed[Len(Feed)].block
    BY <1>2, <1>3, <1>4 DEF Precedes
  <1> QED BY <1>2, <1>4, <1>5 DEF LastBlock

LEMMA HeadTail ==
  ASSUME NEW S, NEW s \in Seq(S), s # << >>
  PROVE  /\ Head(s) = s[1] /\ s[1] \in S /\ 1 \in DOMAIN s /\ Tail(s) \in Seq(S)
         /\ Len(s) \in Nat /\ Len(Tail(s)) = Len(s) - 1
         /\ \A i \in DOMAIN Tail(s) : i + 1 \in DOMAIN s /\ 1 < i + 1 /\ Tail(s)[i] = s[i + 1]
  OBVIOUS

LEMMA AppendTo ==
  ASSUME NEW S, NEW s \in Seq(S), NEW e \in S
  PROVE  /\ Append(s, e) \in Seq(S) /\ Len(s) \in Nat /\ Len(Append(s, e)) = Len(s) + 1
         /\ DOMAIN Append(s, e) = 1 .. Len(s) + 1 /\ DOMAIN s = 1 .. Len(s)
         /\ \A i \in DOMAIN s : Append(s, e)[i] = s[i]
         /\ Append(s, e)[Len(s) + 1] = e
         /\ Append(s, e) # << >> /\ Last(Append(s, e)) = e
  BY DEF Last

\* Executing a flashblock appends it and changes nonces.
LEMMA Overlaid ==
  ASSUME NEW a, NEW b, NEW c, NEW d, NEW e, NEW t, NEW u
  PROVE  [[ready |-> a, base |-> b, block |-> c, nonces |-> d, executed |-> e]
            EXCEPT !.nonces = t, !.executed = u]
           = [ready |-> a, base |-> b, block |-> c, nonces |-> t, executed |-> u]
  <1> DEFINE x == [ready |-> a, base |-> b, block |-> c, nonces |-> d, executed |-> e]
             y == [ready |-> a, base |-> b, block |-> c, nonces |-> t, executed |-> e]
  <1>1. [x EXCEPT !.nonces = t, !.executed = u] = [[x EXCEPT !.nonces = t] EXCEPT !.executed = u]
    BY Zenon
  <1>2. [x EXCEPT !.nonces = t] = y
    BY SMT
  <1>3. [y EXCEPT !.executed = u]
          = [ready |-> a, base |-> b, block |-> c, nonces |-> t, executed |-> u]
    BY SMT
  <1> HIDE DEF x, y
  <1>4. [x EXCEPT !.nonces = t, !.executed = u]
          = [ready |-> a, base |-> b, block |-> c, nonces |-> t, executed |-> u]
    BY <1>1, <1>2, <1>3, Zenon
  <1> QED BY <1>4 DEF x

LEMMA ExecutedOf ==
  ASSUME NEW x, NEW f,
         x = [ready |-> x.ready, base |-> x.base, block |-> x.block,
              nonces |-> x.nonces, executed |-> x.executed]
  PROVE  Executed(x, f) = [ready |-> x.ready, base |-> x.base, block |-> x.block,
                           nonces |-> FoldLeft(Transact, x.nonces, f.txs),
                           executed |-> Append(x.executed, f)]
  <1> DEFINE t == FoldLeft(Transact, x.nonces, f.txs)
  <1>1. Executed(x, f) = [x EXCEPT !.nonces = t, !.executed = Append(x.executed, f)]
    BY DEF Executed
  <1> HIDE DEF t
  <1>2. Executed(x, f) = [ready |-> x.ready, base |-> x.base, block |-> x.block,
                          nonces |-> t, executed |-> Append(x.executed, f)]
    BY <1>1, Overlaid
  <1> QED BY <1>2 DEF t

LEMMA LastBlockNat == LastBlock \in Nat
  <1>1. Len(Feed) \in 1 .. Len(Feed)
    BY FeedAssumption
  <1> QED BY <1>1, EventOf DEF LastBlock

LEMMA SimulatorInit == Init => SimulatorInv
  <1> SUFFICES ASSUME Init PROVE SimulatorInv
    OBVIOUS
  <1>1. LastBlock \in Nat /\ Len(Feed) \in Nat /\ InboxCapacity \in Nat
    BY LastBlockNat, FeedAssumption, SimulatorAssumption
  <1>2. /\ exec.ready = FALSE /\ exec.base = 0 /\ exec.block = 0 /\ exec.executed = << >>
        /\ exec = [ready |-> exec.ready, base |-> exec.base, block |-> exec.block,
                   nonces |-> exec.nonces, executed |-> exec.executed]
    BY DEF Init, NotReady
  <1>3. TypeOK
    <2>1. exec.ready \in BOOLEAN /\ initialized \in BOOLEAN
      BY <1>2, Zenon DEF Init
    <2>2. /\ produced \in 0 .. Len(Feed) /\ inbox \in Seq(Events) /\ Len(inbox) <= InboxCapacity
          /\ head \in 0 .. LastBlock /\ currentBlock \in 0 .. LastBlock
          /\ latest \in 0 .. LastBlock /\ exec.base \in 0 .. LastBlock
          /\ exec.block \in 0 .. LastBlock /\ exec.executed \in Seq(Events)
      BY <1>1, <1>2 DEF Init
    <2> QED BY <2>1, <2>2 DEF Init, TypeOK
  <1>4. OrderInv
    BY <1>2 DEF Init, OrderInv, Holding, Consecutive
  <1>5. CurrentInv
    BY EventOf DEF Init, CurrentInv, Holding
  <1>6. ExecInv
    <2>1. /\ head = 0 /\ latest = 0 /\ initialized = FALSE /\ pc = "recv"
      BY DEF Init
    <2>2. /\ exec.base <= exec.block /\ exec.block <= head /\ latest <= head
          /\ pc # "execute"
      BY <1>2, <2>1
    <2> QED BY <1>2, <2>1, <2>2, Zenon DEF ExecInv
  <1>8. BaseInv /\ MixInv
    BY DEF Init, BaseInv, MixInv
  <1>7. Checked
    BY DEF Init, Checked, ExecutedInOrder, BaseNotAheadOfNumber, OneBasePerBlock,
           MixedOnlyAfterFailure
  <1> QED BY <1>3, <1>4, <1>5, <1>6, <1>7, <1>8 DEF SimulatorInv

\* What is said of the snapshots stays true while there are no new ones.
LEMMA SnapshotsKept ==
  ASSUME SimulatorInv, UNCHANGED snapshots, head' \in Nat, head' >= head,
         failed \subseteq failed'
  PROVE  Checked'
  <1>1. head \in Nat /\ \A n \in snapshots : n.state.block_number \in Nat
    BY LastBlockNat DEF SimulatorInv, TypeOK, BaseInv
  <1>2. BaseNotAheadOfNumber'
    BY <1>1 DEF SimulatorInv, Checked, BaseNotAheadOfNumber
  <1>3. ExecutedInOrder' /\ OneBasePerBlock' /\ MixedOnlyAfterFailure'
    BY DEF SimulatorInv, Checked, ExecutedInOrder, OneBasePerBlock, MixedOnlyAfterFailure
  <1> QED BY <1>2, <1>3 DEF Checked

-----------------------------------------------------------------------------
(* The feed and the node.                                                    *)

\* The next flashblock of the feed, seen from what is ahead of it.
LEMMA NextOfFeed ==
  ASSUME SimulatorInv, produced < Len(Feed)
  PROVE  /\ produced + 1 \in 1 .. Len(Feed) /\ Event(Feed[produced + 1]) \in Events
         /\ \A e : Precedes(e, Feed[produced + 1]) => Precedes(e, Event(Feed[produced + 1]))
         /\ \A k \in (produced + 2) .. Len(Feed) :
              Precedes(Event(Feed[produced + 1]), Feed[k])
         /\ currentBlock <= Event(Feed[produced + 1]).block
  <1>1. produced \in Nat /\ Len(Feed) \in Nat
    BY FeedAssumption DEF SimulatorInv, TypeOK
  <1>2. produced + 1 \in 1 .. Len(Feed)
    BY <1>1
  <1>3. /\ Event(Feed[produced + 1]).block = Feed[produced + 1].block
        /\ Event(Feed[produced + 1]).index = Feed[produced + 1].index
    BY <1>2, EventOf
  <1>4. \A k \in (produced + 2) .. Len(Feed) : Precedes(Feed[produced + 1], Feed[k])
    BY <1>1, <1>2, FeedAssumption
  <1>5. currentBlock <= Feed[produced + 1].block
    BY <1>1, <1>2 DEF SimulatorInv, CurrentInv
  <1> QED BY <1>2, <1>3, <1>4, <1>5 DEF Events, Precedes

LEMMA ProduceInv ==
  ASSUME SimulatorInv, Produce,
         \/ UNCHANGED inbox
         \/ Len(inbox) < InboxCapacity /\ inbox' = Append(inbox, Event(Feed[produced + 1]))
  PROVE  SimulatorInv'
  <1> DEFINE e == Event(Feed[produced + 1])
  <1>1. /\ produced < Len(Feed) /\ produced' = produced + 1
        /\ UNCHANGED <<head, pc, event, initialized, currentBlock, latest, exec, failed,
                       snapshots>>
    BY DEF Produce
  <1>2. /\ produced \in Nat /\ Len(Feed) \in Nat /\ InboxCapacity \in Nat
        /\ inbox \in Seq(Events)
    BY FeedAssumption, SimulatorAssumption DEF SimulatorInv, TypeOK
  <1>3. /\ e \in Events /\ currentBlock <= e.block
        /\ \A f : Precedes(f, Feed[produced + 1]) => Precedes(f, e)
        /\ \A k \in (produced + 2) .. Len(Feed) : Precedes(e, Feed[k])
    BY <1>1, NextOfFeed
  <1>4. produced + 1 \in (produced + 1) .. Len(Feed)
        /\ \A k \in (produced' + 1) .. Len(Feed) : /\ k \in (produced + 1) .. Len(Feed)
                                                   /\ k \in (produced + 2) .. Len(Feed)
    BY <1>1, <1>2
  <1> HIDE DEF e
  <1>5. /\ inbox' \in Seq(Events) /\ Len(inbox') <= InboxCapacity
        /\ \A i \in DOMAIN inbox' :
             \/ i \in DOMAIN inbox /\ inbox'[i] = inbox[i]
             \/ i \notin DOMAIN inbox /\ inbox'[i] = e
        /\ \A i, j \in DOMAIN inbox' : i < j => i \in DOMAIN inbox
    <2>1. CASE UNCHANGED inbox
      BY <1>2, <2>1 DEF SimulatorInv, TypeOK
    <2>2. CASE ~UNCHANGED inbox
      <3>1. Len(inbox) < InboxCapacity /\ inbox' = Append(inbox, e)
        BY <2>2 DEF e
      <3> QED BY <1>2, <1>3, <3>1, AppendTo
    <2> QED BY <2>1, <2>2
  <1>6. \A f : Behind(f) => Behind(f)'
    BY <1>1, <1>3, <1>4, <1>5 DEF Behind
  <1>7. OrderInv'
    <2>1. \A i \in DOMAIN inbox : \A k \in (produced + 1) .. Len(Feed) :
            Precedes(inbox[i], Feed[k])
      BY DEF SimulatorInv, OrderInv
    <2>2. \A i \in DOMAIN inbox : Precedes(inbox[i], e)
      BY <1>3, <1>4, <2>1
    <2>3. \A i, j \in DOMAIN inbox : i < j => Precedes(inbox[i], inbox[j])
      BY DEF SimulatorInv, OrderInv
    <2>4. \A i, j \in DOMAIN inbox' : i < j => Precedes(inbox'[i], inbox'[j])
      BY <1>5, <2>2, <2>3
    <2>5. \A i \in DOMAIN inbox' : \A k \in (produced' + 1) .. Len(Feed) :
            Precedes(inbox'[i], Feed[k])
      BY <1>3, <1>4, <1>5, <2>1
    <2>6. Holding => event \in Events /\ Behind(event)'
      BY <1>1, <1>6 DEF SimulatorInv, OrderInv
    <2>7. exec.executed # << >> => Behind(Last(exec.executed))'
      BY <1>1, <1>6 DEF SimulatorInv, OrderInv
    <2> QED BY <1>1, <2>4, <2>5, <2>6, <2>7 DEF SimulatorInv, OrderInv, Holding, Behind
  <1>8. CurrentInv'
    BY <1>1, <1>3, <1>4, <1>5 DEF SimulatorInv, CurrentInv, Holding
  <1>9. TypeOK'
    BY <1>1, <1>2, <1>5 DEF SimulatorInv, TypeOK
  <1>10. ExecInv' /\ BaseInv' /\ MixInv'
    BY <1>1 DEF SimulatorInv, ExecInv, BaseInv, MixInv
  <1>11. Checked'
    BY <1>1, SnapshotsKept, LastBlockNat DEF SimulatorInv, TypeOK
  <1> QED BY <1>7, <1>8, <1>9, <1>10, <1>11 DEF SimulatorInv

LEMMA NewHeadInv == ASSUME SimulatorInv, NewHead PROVE SimulatorInv'
  <1>1. /\ head < LastBlock /\ head' = head + 1
        /\ UNCHANGED <<produced, inbox, pc, event, initialized, currentBlock, latest, exec,
                       failed, snapshots>>
    BY DEF NewHead
  <1>2. /\ head \in Nat /\ LastBlock \in Nat /\ exec.block \in Nat /\ latest \in Nat
    BY LastBlockNat DEF SimulatorInv, TypeOK
  <1>3. TypeOK'
    BY <1>1, <1>2 DEF SimulatorInv, TypeOK
  <1>4. OrderInv' /\ CurrentInv' /\ BaseInv' /\ MixInv'
    BY <1>1 DEF SimulatorInv, OrderInv, CurrentInv, BaseInv, MixInv, Holding, Behind
  <1>5. ExecInv'
    BY <1>1, <1>2 DEF SimulatorInv, ExecInv
  <1>6. Checked'
    BY <1>1, <1>2, SnapshotsKept
  <1> QED BY <1>3, <1>4, <1>5, <1>6 DEF SimulatorInv

-----------------------------------------------------------------------------
(* The loop.                                                                 *)

\* A step of the loop that leaves the executor and the snapshots alone: what has to be
\* shown is where it leaves the flashblock in hand.
LEMMA LoopStepInv ==
  ASSUME SimulatorInv,
         UNCHANGED <<produced, inbox, head, initialized, currentBlock, latest, exec, snapshots>>,
         failed' = failed \/ failed' = failed \cup {currentBlock},
         pc' \in {"recv", "prepare", "execute"},
         event' = event \/ (event' = << >> /\ pc' = "recv"),
         pc # "recv", pc # "initialize" \/ (pc' = "recv" /\ currentBlock \in failed'),
         pc' = "execute" => initialized /\ currentBlock = event.block,
         pc = "bundle" => pc' = "recv",
         currentBlock \in 0 .. LastBlock
  PROVE  SimulatorInv'
  <1>1. TypeOK'
    BY DEF SimulatorInv, TypeOK
  <1>2. \A e : Behind(e) => Behind(e)'
    BY DEF Behind
  <1>3. OrderInv'
    <2>1. pc' # "recv" => event' = event /\ event \in Events /\ Behind(event)
      BY DEF SimulatorInv, OrderInv, Holding, TypeOK
    <2>2. pc' # "recv" => event' \in Events' /\ Behind(event)'
      BY <2>1 DEF Behind, Events
    <2>3. exec.executed # << >> =>
            /\ Behind(Last(exec.executed))
            /\ pc # "recv" /\ pc # "bundle" => Precedes(Last(exec.executed), event)
      BY DEF SimulatorInv, OrderInv, Holding
    <2> QED BY <1>2, <2>1, <2>2, <2>3 DEF SimulatorInv, OrderInv, Holding, Behind
  <1>4. CurrentInv'
    BY DEF SimulatorInv, CurrentInv, Holding
  <1>5. ExecInv' /\ BaseInv' /\ MixInv'
    BY DEF SimulatorInv, ExecInv, BaseInv, MixInv
  <1>6. Checked'
    BY SnapshotsKept, LastBlockNat DEF SimulatorInv, TypeOK
  <1> QED BY <1>1, <1>3, <1>4, <1>5, <1>6 DEF SimulatorInv

LEMMA PlainLoopInv ==
  ASSUME SimulatorInv,
         LogTransactions \/ KeepState \/ FailInitialize \/ FailExecute \/ SimulateBundle
  PROVE  SimulatorInv'
  <1>1. currentBlock \in 0 .. LastBlock
    BY DEF SimulatorInv, TypeOK
  <1>2. CASE LogTransactions
    BY <1>1, <1>2, LoopStepInv DEF LogTransactions, outside
  <1>3. CASE KeepState
    BY <1>1, <1>3, LoopStepInv DEF KeepState, MustInitialize, outside
  <1>4. CASE FailInitialize
    <2>1. currentBlock = event.block
      BY <1>4 DEF FailInitialize, SimulatorInv, CurrentInv
    <2> QED BY <1>1, <1>4, <2>1, LoopStepInv DEF FailInitialize, Continue, outside
  <1>5. CASE FailExecute
    BY <1>1, <1>5, LoopStepInv DEF FailExecute, Continue, outside
  <1>6. CASE SimulateBundle
    BY <1>1, <1>6, LoopStepInv DEF SimulateBundle, Continue, outside
  <1> QED BY <1>2, <1>3, <1>4, <1>5, <1>6

LEMMA ReceiveInv == ASSUME SimulatorInv, Receive PROVE SimulatorInv'
  <1>1. /\ pc = "recv" /\ inbox # << >> /\ event' = Head(inbox) /\ inbox' = Tail(inbox)
        /\ pc' = "log"
        /\ UNCHANGED <<produced, head, initialized, currentBlock, latest, exec, failed,
                       snapshots>>
    BY DEF Receive
  <1>2. inbox \in Seq(Events) /\ Len(inbox) <= InboxCapacity /\ InboxCapacity \in Nat
    BY SimulatorAssumption DEF SimulatorInv, TypeOK
  <1>3. /\ event' = inbox[1] /\ event' \in Events /\ 1 \in DOMAIN inbox
        /\ inbox' \in Seq(Events) /\ Len(inbox') <= InboxCapacity
        /\ \A i \in DOMAIN inbox' :
             i \in Nat /\ i + 1 \in DOMAIN inbox /\ 1 < i + 1 /\ inbox'[i] = inbox[i + 1]
    BY <1>1, <1>2, HeadTail
  <1>4. /\ \A i, j \in DOMAIN inbox : i < j => Precedes(inbox[i], inbox[j])
        /\ \A i \in DOMAIN inbox : \A k \in (produced + 1) .. Len(Feed) :
             Precedes(inbox[i], Feed[k])
    BY DEF SimulatorInv, OrderInv
  <1>5. Behind(event)'
    BY <1>1, <1>3, <1>4 DEF Behind
  <1>6. \A e : Behind(e) => Behind(e)' /\ Precedes(e, event')
    BY <1>1, <1>3 DEF Behind
  <1>7. \A i, j \in DOMAIN inbox' : i < j => i + 1 < j + 1
    BY <1>3
  <1>8. OrderInv'
    <2>1. exec.executed # << >> => Behind(Last(exec.executed))
      BY DEF SimulatorInv, OrderInv
    <2>2. exec.executed # << >> =>
            Behind(Last(exec.executed))' /\ Precedes(Last(exec.executed), event')
      BY <1>1, <1>6, <2>1
    <2>3. /\ \A i, j \in DOMAIN inbox' : i < j => Precedes(inbox'[i], inbox'[j])
          /\ \A i \in DOMAIN inbox' : \A k \in (produced' + 1) .. Len(Feed) :
               Precedes(inbox'[i], Feed[k])
      BY <1>1, <1>3, <1>4, <1>7
    <2>4. event' \in Events'
      BY <1>3 DEF Events
    <2> QED BY <1>1, <1>5, <2>2, <2>3, <2>4 DEF SimulatorInv, OrderInv, Holding
  <1>9. CurrentInv'
    BY <1>1, <1>3 DEF SimulatorInv, CurrentInv, Holding
  <1>10. TypeOK'
    BY <1>1, <1>3 DEF SimulatorInv, TypeOK
  <1>11. ExecInv' /\ BaseInv' /\ MixInv'
    BY <1>1 DEF SimulatorInv, ExecInv, BaseInv, MixInv
  <1>12. Checked'
    BY <1>1, SnapshotsKept, LastBlockNat DEF SimulatorInv, TypeOK
  <1> QED BY <1>8, <1>9, <1>10, <1>11, <1>12 DEF SimulatorInv

LEMMA ReadLatestStateInv == ASSUME SimulatorInv, ReadLatestState PROVE SimulatorInv'
  <1>1. /\ pc = "prepare" /\ currentBlock' = event.block /\ latest' = head
        /\ pc' = "initialize"
        /\ UNCHANGED <<produced, inbox, head, event, initialized, exec, failed, snapshots>>
    BY DEF ReadLatestState, outside
  <1>2. event \in Events /\ Behind(event) /\ currentBlock <= event.block
    BY <1>1 DEF SimulatorInv, OrderInv, CurrentInv, Holding
  <1>3. /\ event.block \in Nat /\ event.block <= LastBlock /\ LastBlock \in Nat
        /\ head \in Nat /\ currentBlock \in Nat /\ inbox \in Seq(Events)
    BY <1>2, EventTyped DEF SimulatorInv, TypeOK
  <1>4. CurrentInv'
    <2>1. \A i \in DOMAIN inbox : inbox[i] \in Events
      BY <1>3
    <2>2. \A i \in DOMAIN inbox : event.block <= inbox[i].block
      BY <1>2, <1>3, <2>1, EventTyped DEF Behind, Precedes
    <2>3. \A k \in (produced + 1) .. Len(Feed) : Feed[k].block \in Nat
      BY EventOf, FeedAssumption DEF SimulatorInv, TypeOK
    <2>4. \A k \in (produced + 1) .. Len(Feed) : event.block <= Feed[k].block
      BY <1>2, <1>3, <2>3 DEF Behind, Precedes
    <2> QED BY <1>1, <1>3, <2>2, <2>4 DEF CurrentInv, Holding
  <1>5. BaseInv'
    <2> SUFFICES ASSUME NEW n \in snapshots
                 PROVE  n.of.block \in Nat /\ n.of.block < event.block
                        /\ n.state.block_number \in Nat /\ initialized
      BY <1>1, <1>3 DEF BaseInv
    <2>1. /\ n.of.block \in Nat /\ n.of.block <= currentBlock /\ n.state.block_number \in Nat
          /\ initialized
      BY DEF SimulatorInv, BaseInv
    <2>2. event.block # currentBlock
      BY <2>1 DEF ReadLatestState, MustInitialize
    <2> QED BY <1>2, <1>3, <2>1, <2>2
  <1>6. TypeOK'
    <2>1. currentBlock' \in 0 .. LastBlock /\ latest' \in 0 .. LastBlock
      BY <1>1, <1>3 DEF SimulatorInv, TypeOK
    <2> QED BY <1>1, <2>1 DEF SimulatorInv, TypeOK
  <1>7. OrderInv'
    BY <1>1 DEF SimulatorInv, OrderInv, Holding, Behind
  <1>8. ExecInv' /\ MixInv'
    <2>1. latest' <= head'
      BY <1>1, <1>3
    <2> QED BY <1>1, <2>1 DEF SimulatorInv, ExecInv, MixInv
  <1>9. Checked'
    BY <1>1, <1>3, SnapshotsKept
  <1> QED BY <1>4, <1>5, <1>6, <1>7, <1>8, <1>9 DEF SimulatorInv

LEMMA FinishInitializeInv == ASSUME SimulatorInv, FinishInitialize PROVE SimulatorInv'
  <1>1. /\ pc = "initialize" /\ exec' = Initialized(latest, head) /\ initialized' = TRUE
        /\ pc' = "execute"
        /\ UNCHANGED <<produced, inbox, head, event, currentBlock, latest, failed, snapshots>>
    BY DEF FinishInitialize, outside
  <1>2. /\ exec'.ready = TRUE /\ exec'.base = latest /\ exec'.block = head
        /\ exec'.executed = << >>
        /\ exec' = [ready |-> exec'.ready, base |-> exec'.base, block |-> exec'.block,
                    nonces |-> exec'.nonces, executed |-> exec'.executed]
    BY <1>1 DEF Initialized
  <1>3. head \in 0 .. LastBlock /\ latest \in 0 .. LastBlock /\ latest <= head
        /\ LastBlock \in Nat
    BY LastBlockNat DEF SimulatorInv, TypeOK, ExecInv
  <1>4. TypeOK'
    <2>1. exec'.ready \in BOOLEAN /\ initialized' \in BOOLEAN
      BY <1>1, <1>2, Zenon
    <2>2. exec'.executed \in Seq(Events)
      BY <1>2
    <2> QED BY <1>1, <1>2, <1>3, <2>1, <2>2 DEF SimulatorInv, TypeOK
  <1>5. OrderInv'
    BY <1>1, <1>2 DEF SimulatorInv, OrderInv, Holding, Behind, Consecutive
  <1>6. CurrentInv'
    BY <1>1 DEF SimulatorInv, CurrentInv, Holding
  <1>7. ExecInv'
    <2>1. exec'.base <= exec'.block /\ exec'.block <= head' /\ latest' <= head'
      BY <1>1, <1>2, <1>3
    <2> QED BY <1>1, <1>2, <2>1, Zenon DEF ExecInv
  <1>8. BaseInv'
    <2> SUFFICES ASSUME NEW n \in snapshots
                 PROVE  /\ n.of.block \in Nat /\ n.of.block <= currentBlock
                        /\ n.of.block # currentBlock /\ n.state.block_number \in Nat
      BY <1>1 DEF BaseInv
    <2>1. /\ n.of.block \in Nat /\ n.of.block < currentBlock /\ n.state.block_number \in Nat
          /\ currentBlock \in Nat
      BY <1>1, LastBlockNat DEF SimulatorInv, BaseInv, TypeOK
    <2> QED BY <2>1
  <1>9. MixInv'
    BY <1>2 DEF MixInv
  <1>10. Checked'
    BY <1>1, <1>3, SnapshotsKept
  <1> QED BY <1>4, <1>5, <1>6, <1>7, <1>8, <1>9, <1>10 DEF SimulatorInv

\* The overlay after a flashblock, and the snapshot exported from it.
LEMMA ExecuteEffect ==
  ASSUME SimulatorInv, Execute
  PROVE  /\ exec' = [ready |-> exec.ready, base |-> exec.base, block |-> exec.block,
                     nonces |-> exec'.nonces, executed |-> Append(exec.executed, event)]
         /\ exec'.nonces = FoldLeft(Transact, exec.nonces, event.txs)
         /\ \E n : /\ snapshots' = snapshots \cup {n} /\ n.of = event
                  /\ n.state.base = exec.base /\ n.state.block_number = exec.block
                  /\ n.state.executed = Append(exec.executed, event)
                  /\ n.state.nonces = exec'.nonces
  <1>1. /\ exec' = Executed(exec, event)
        /\ snapshots' = snapshots \cup {[of |-> event, state |-> Snapshot(exec', event)]}
    BY DEF Execute
  <1>2. exec = [ready |-> exec.ready, base |-> exec.base, block |-> exec.block,
                nonces |-> exec.nonces, executed |-> exec.executed]
    BY DEF SimulatorInv, ExecInv
  <1>3. exec' = [ready |-> exec.ready, base |-> exec.base, block |-> exec.block,
                 nonces |-> exec'.nonces, executed |-> Append(exec.executed, event)]
        /\ exec'.nonces = FoldLeft(Transact, exec.nonces, event.txs)
    <2> DEFINE u == FoldLeft(Transact, exec.nonces, event.txs)
    <2>1. exec' = [ready |-> exec.ready, base |-> exec.base, block |-> exec.block,
                   nonces |-> u, executed |-> Append(exec.executed, event)]
      BY <1>1, <1>2, ExecutedOf
    <2> HIDE DEF u
    <2>2. exec'.nonces = u
      BY <2>1
    <2> QED BY <2>1, <2>2 DEF u
  <1>4. /\ Snapshot(exec', event).base = exec.base
        /\ Snapshot(exec', event).block_number = exec.block
        /\ Snapshot(exec', event).executed = Append(exec.executed, event)
        /\ Snapshot(exec', event).nonces = exec'.nonces
    BY <1>3 DEF Snapshot
  <1> DEFINE n == [of |-> event, state |-> Snapshot(exec', event)]
  <1>5. /\ snapshots' = snapshots \cup {n} /\ n.of = event
        /\ n.state.base = exec.base /\ n.state.block_number = exec.block
        /\ n.state.executed = Append(exec.executed, event)
        /\ n.state.nonces = exec'.nonces
    BY <1>1, <1>4
  <1> HIDE DEF n
  <1> QED BY <1>3, <1>5

LEMMA ExecuteInv == ASSUME SimulatorInv, Execute PROVE SimulatorInv'
  <1> DEFINE run == Append(exec.executed, event)
  <1>1. /\ pc = "execute" /\ pc' \in {"recv", "bundle"}
        /\ event' = event \/ (event' = << >> /\ pc' = "recv")
        /\ UNCHANGED <<produced, inbox, head, initialized, currentBlock, latest, failed>>
    BY DEF Execute, Continue, outside
  <1>2. /\ event \in Events /\ Behind(event) /\ currentBlock = event.block /\ initialized
        /\ exec.executed # << >> => Precedes(Last(exec.executed), event)
        /\ Consecutive(exec.executed) /\ exec.executed \in Seq(Events)
    BY <1>1 DEF SimulatorInv, TypeOK, OrderInv, CurrentInv, ExecInv, Holding
  <1>3. /\ exec' = [ready |-> exec.ready, base |-> exec.base, block |-> exec.block,
                    nonces |-> exec'.nonces, executed |-> run]
    BY ExecuteEffect
  <1>4. PICK n : /\ snapshots' = snapshots \cup {n} /\ n.of = event
                 /\ n.state.base = exec.base /\ n.state.block_number = exec.block
                 /\ n.state.executed = run
    BY ExecuteEffect
  <1>5. /\ run \in Seq(Events) /\ Len(run) = Len(exec.executed) + 1 /\ Len(exec.executed) \in Nat
        /\ run # << >> /\ Last(run) = event
        /\ DOMAIN run = 1 .. Len(exec.executed) + 1
        /\ \A i \in 1 .. Len(exec.executed) : run[i] = exec.executed[i]
        /\ run[Len(exec.executed) + 1] = event
    BY <1>2, AppendTo
  <1> HIDE DEF run
  <1>6. Consecutive(run)
    <2>3. Len(run) - 1 = Len(exec.executed)
      BY <1>5
    <2> SUFFICES ASSUME NEW i \in 1 .. Len(exec.executed) PROVE Precedes(run[i], run[i + 1])
      BY <2>3 DEF Consecutive
    <2>1. CASE i < Len(exec.executed)
      BY <1>2, <1>5, <2>1 DEF Consecutive
    <2>2. CASE i = Len(exec.executed)
      <3>1. exec.executed # << >> /\ Last(exec.executed) = exec.executed[i]
        BY <1>2, <2>2 DEF Last
      <3> QED BY <1>2, <1>5, <2>2, <3>1
    <2> QED BY <1>5, <2>1, <2>2
  <1>7. exec'.ready = exec.ready /\ exec'.base = exec.base /\ exec'.block = exec.block
        /\ exec'.executed = run
        /\ exec' = [ready |-> exec'.ready, base |-> exec'.base, block |-> exec'.block,
                    nonces |-> exec'.nonces, executed |-> exec'.executed]
    BY <1>3
  <1>8. /\ exec.base \in Nat /\ exec.block \in Nat /\ head \in Nat /\ exec.base <= exec.block
        /\ exec.block <= head /\ event.block \in Nat
    BY <1>2, LastBlockNat, EventTyped DEF SimulatorInv, TypeOK, ExecInv
  <1>9. TypeOK'
    <2>1. exec'.ready \in BOOLEAN
      BY <1>7, Zenon DEF SimulatorInv, TypeOK
    <2> QED BY <1>1, <1>5, <1>7, <2>1 DEF SimulatorInv, TypeOK
  <1>10. OrderInv'
    <2>1. \A i, j \in DOMAIN inbox : i < j => Precedes(inbox[i], inbox[j])
      BY DEF SimulatorInv, OrderInv
    <2>2. \A i \in DOMAIN inbox : \A k \in (produced + 1) .. Len(Feed) : Precedes(inbox[i], Feed[k])
      BY DEF SimulatorInv, OrderInv
    <2>3. Behind(Last(exec.executed))'
      BY <1>1, <1>2, <1>5, <1>7 DEF Behind
    <2>4. pc' # "recv" => event' \in Events' /\ Behind(event)'
      BY <1>1, <1>2 DEF Behind, Events
    <2>5. pc' # "recv" => pc' = "bundle"
      BY <1>1
    <2> QED BY <1>1, <1>6, <1>7, <2>1, <2>2, <2>3, <2>4, <2>5 DEF OrderInv, Holding
  <1>11. CurrentInv'
    BY <1>1 DEF SimulatorInv, CurrentInv, Holding
  <1>12. ExecInv'
    <2>1. latest <= head /\ exec.ready = initialized
      BY DEF SimulatorInv, ExecInv
    <2>2. exec'.base <= exec'.block /\ exec'.block <= head' /\ latest' <= head' /\ pc' # "execute"
      BY <1>1, <1>7, <1>8, <2>1
    <2>3. exec'.ready = initialized'
      BY <1>1, <1>7, <2>1, Zenon
    <2> QED BY <1>7, <2>2, <2>3 DEF ExecInv
  <1>13. \A m \in snapshots : m.of.block = currentBlock =>
           m.state.base = exec.base /\ m.state.block_number = exec.block
    BY DEF SimulatorInv, BaseInv
  <1>14. BaseInv'
    <2>1. initialized' /\ pc' # "initialize"
      BY <1>1, <1>2
    <2>2. \A m \in snapshots : m.of.block \in Nat /\ m.of.block <= currentBlock
                               /\ m.state.block_number \in Nat
      BY DEF SimulatorInv, BaseInv
    <2>3. n.of.block \in Nat /\ n.of.block <= currentBlock /\ n.state.block_number \in Nat
      BY <1>2, <1>4, <1>8
    <2>4. /\ n.state.base = exec'.base /\ n.state.block_number = exec'.block
      BY <1>4, <1>7
    <2> QED BY <1>1, <1>4, <1>7, <1>13, <2>1, <2>2, <2>3, <2>4 DEF BaseInv
  <1>15. currentBlock \in failed \/ \A i \in DOMAIN run : run[i].block = currentBlock
    <2>1. currentBlock \in failed
            \/ \A i \in 1 .. Len(exec.executed) : exec.executed[i].block = currentBlock
      BY <1>1, <1>2 DEF SimulatorInv, MixInv
    <2>2. \A i \in DOMAIN run : i \in 1 .. Len(exec.executed) \/ i = Len(exec.executed) + 1
      BY <1>5
    <2> QED BY <1>2, <1>5, <2>1, <2>2
  <1>16. MixInv'
    BY <1>1, <1>7, <1>15 DEF MixInv
  <1>17. Checked'
    <2>1. ExecutedInOrder'
      BY <1>4, <1>5, <1>6 DEF SimulatorInv, Checked, ExecutedInOrder
    <2>2. BaseNotAheadOfNumber'
      BY <1>1, <1>4, <1>8 DEF SimulatorInv, Checked, BaseNotAheadOfNumber
    <2>3. OneBasePerBlock'
      <3>1. \A l, m \in snapshots : l.of.block = m.of.block =>
              l.state.base = m.state.base /\ l.state.block_number = m.state.block_number
        BY DEF SimulatorInv, Checked, OneBasePerBlock
      <3>2. n.of.block = currentBlock
        BY <1>2, <1>4
      <3> QED BY <1>4, <1>13, <3>1, <3>2 DEF OneBasePerBlock
    <2>4. MixedOnlyAfterFailure'
      <3>1. \A m \in snapshots : OneBlock(m) \/ m.of.block \in failed
        BY DEF SimulatorInv, Checked, MixedOnlyAfterFailure
      <3>2. OneBlock(n) \/ n.of.block \in failed
        BY <1>2, <1>4, <1>5, <1>15 DEF OneBlock
      <3> QED BY <1>1, <1>4, <3>1, <3>2 DEF MixedOnlyAfterFailure
    <2> QED BY <2>1, <2>2, <2>3, <2>4 DEF Checked
  <1> QED BY <1>9, <1>10, <1>11, <1>12, <1>14, <1>16, <1>17 DEF SimulatorInv

-----------------------------------------------------------------------------
LEMMA SimulatorStep == SimulatorInv /\ [Next]_vars => SimulatorInv'
  <1> SUFFICES ASSUME SimulatorInv, [Next]_vars PROVE SimulatorInv'
    OBVIOUS
  <1>1. CASE Arrive \/ Miss
    BY <1>1, ProduceInv DEF Arrive, Miss
  <1>2. CASE NewHead
    BY <1>2, NewHeadInv
  <1>3. CASE Loop
    BY <1>3, ReceiveInv, PlainLoopInv, ReadLatestStateInv, FinishInitializeInv, ExecuteInv
       DEF Loop, Initialize
  <1>4. CASE UNCHANGED vars
    <2>1. UNCHANGED <<produced, inbox, head, pc, event, initialized, currentBlock, latest, exec,
                      failed, snapshots>>
      BY <1>4 DEF vars, outside
    <2>2. TypeOK' /\ OrderInv' /\ CurrentInv' /\ ExecInv' /\ BaseInv' /\ MixInv'
      BY <2>1 DEF SimulatorInv, TypeOK, OrderInv, CurrentInv, ExecInv, BaseInv, MixInv, Holding,
                  Behind
    <2>3. Checked'
      BY <2>1, SnapshotsKept, LastBlockNat DEF SimulatorInv, TypeOK
    <2> QED BY <2>2, <2>3 DEF SimulatorInv
  <1> QED BY <1>1, <1>2, <1>3, <1>4 DEF Next

\* Every reachable state of the simulator is well typed, whatever the feed.
THEOREM SimulatorTypeOK == Spec => []TypeOK
  <1>1. SimulatorInv => TypeOK
    BY DEF SimulatorInv
  <1> QED BY <1>1, SimulatorInit, SimulatorStep, PTL DEF Spec

\* Overlays grow in chain order, nothing twice, whatever was lost or failed.
THEOREM SimulatorInOrder == Spec => []ExecutedInOrder
  <1>1. SimulatorInv => ExecutedInOrder
    BY DEF SimulatorInv, Checked
  <1> QED BY <1>1, SimulatorInit, SimulatorStep, PTL DEF Spec

\* The number of a snapshot is at least that of the state it was read from, although
\* initialize() reads the two one after the other while the node moves on.
THEOREM SimulatorBaseNotAhead == Spec => []BaseNotAheadOfNumber
  <1>1. SimulatorInv => BaseNotAheadOfNumber
    BY DEF SimulatorInv, Checked
  <1> QED BY <1>1, SimulatorInit, SimulatorStep, PTL DEF Spec

\* One base and one number for all the snapshots of a block, on which the handler's
\* claims rest, with failed initialisations and a node that moves on in between.
THEOREM SimulatorOneBase == Spec => []OneBasePerBlock
  <1>1. SimulatorInv => OneBasePerBlock
    BY DEF SimulatorInv, Checked
  <1> QED BY <1>1, SimulatorInit, SimulatorStep, PTL DEF Spec

\* Only a failed initialisation lets the overlay of a block begin with another's.
THEOREM SimulatorMixedOnlyAfterFailure == Spec => []MixedOnlyAfterFailure
  <1>1. SimulatorInv => MixedOnlyAfterFailure
    BY DEF SimulatorInv, Checked
  <1> QED BY <1>1, SimulatorInit, SimulatorStep, PTL DEF Spec

-----------------------------------------------------------------------------
(* Folds.                                                                    *)

\* Induction along an interval: the least number outside S would follow one in S.
LEMMA FiniteInduction ==
  ASSUME NEW n \in Nat, NEW S, 0 \in S, \A k \in 0 .. n - 1 : k \in S => k + 1 \in S
  PROVE  \A k \in 0 .. n : k \in S
  <1> SUFFICES ASSUME NEW x \in 0 .. n, x \notin S PROVE FALSE
    OBVIOUS
  <1> DEFINE T == {0 .. k : k \in {j \in 0 .. n : j \notin S}}
             R == StrictSubsetOrdering(0 .. n)
  <1>1. IsWellFoundedOn(R, SUBSET (0 .. n))
    <2>1. IsFiniteSet(0 .. n)
      BY FS_Interval
    <2> QED BY <2>1, FS_StrictSubsetOrderingWellFounded, FS_FiniteSubsetsOfFinite
  <1>2. T \subseteq SUBSET (0 .. n) /\ T # {}
    OBVIOUS
  <1> HIDE DEF R, T
  <1>3. PICK U \in T : \A V \in T : ~ (<<V, U>> \in R)
    BY <1>1, <1>2, WFMin
  <1>4. PICK k \in 0 .. n : k \notin S /\ U = 0 .. k
    BY <1>3 DEF T
  <1>5. k - 1 \in 0 .. n - 1 /\ k = (k - 1) + 1 /\ k - 1 \in 0 .. n
    BY <1>4
  <1>6. k - 1 \notin S
    BY <1>4, <1>5
  <1>7. 0 .. k - 1 \in T
    BY <1>5, <1>6 DEF T
  <1>8. <<0 .. k - 1, 0 .. k>> \in R
    <2>1. 0 .. k - 1 \subseteq 0 .. k /\ 0 .. k \subseteq 0 .. n /\ k \in 0 .. k
          /\ k \notin 0 .. k - 1
      BY <1>4
    <2> QED BY <2>1 DEF R, StrictSubsetOrdering
  <1> QED BY <1>3, <1>4, <1>7, <1>8

LEMMA MaxOfBounded ==
  ASSUME NEW n \in Nat, NEW S \in SUBSET (1 .. n), S # {}
  PROVE  Max(S) \in S /\ \A y \in S : Max(S) >= y
  <1> DEFINE Good == {k \in 0 .. n : \A P \in SUBSET (1 .. k) :
                        P # {} => \E x \in P : \A y \in P : x >= y}
  <1>1. 0 \in Good
    <2>1. \A P \in SUBSET (1 .. 0) : P = {}
      OBVIOUS
    <2>2. 0 \in 0 .. n
      OBVIOUS
    <2> QED BY <2>1, <2>2
  <1>2. ASSUME NEW k \in 0 .. n - 1, k \in Good PROVE k + 1 \in Good
    <2>1. SUFFICES ASSUME NEW P \in SUBSET (1 .. k + 1), P # {}
                   PROVE  \E x \in P : \A y \in P : x >= y
      OBVIOUS
    <2>2. CASE k + 1 \in P
      BY <2>1, <2>2
    <2>3. CASE k + 1 \notin P
      <3>1. P \in SUBSET (1 .. k)
        BY <2>1, <2>3
      <3> QED BY <1>2, <2>1, <3>1
    <2> QED BY <2>2, <2>3
  <1> HIDE DEF Good
  <1>3. n \in Good
    BY <1>1, <1>2, FiniteInduction
  <1>4. \E x \in S : \A y \in S : x >= y
    BY <1>3 DEF Good
  <1> QED BY <1>4 DEF Max

LEMMA MaxOfUpTo ==
  ASSUME NEW k \in Nat \ {0}, NEW S \in SUBSET (1 .. k), k \in S
  PROVE  Max(S) = k
  <1>1. S # {} /\ k \in Nat /\ \A y \in S : y \in Nat /\ y <= k
    OBVIOUS
  <1>2. Max(S) \in S /\ \A y \in S : Max(S) >= y
    BY <1>1, MaxOfBounded
  <1> DEFINE m == Max(S)
  <1>3. m \in S /\ m >= k
    BY <1>2
  <1> HIDE DEF m
  <1>4. m = k
    BY <1>1, <1>3
  <1> QED BY <1>4 DEF m

\* it folds G along the subsets of 1 .. n, from the least number on.
Folds(it, n, T, b, G) ==
  /\ it \in [SUBSET (1 .. n) -> T]
  /\ \A s \in SUBSET (1 .. n) : it[s] = IF s = {} THEN b ELSE G[Max(s)][it[s \ {Max(s)}]]

\* A fold along 1 .. n of a step that stays within T has its function.
LEMMA FoldExists ==
  ASSUME NEW n \in Nat, NEW T, NEW b \in T, NEW G \in [1 .. n -> [T -> T]]
  PROVE  \E it : Folds(it, n, T, b, G)
  <1> DEFINE Fold(it, k) == \A s \in SUBSET (1 .. k) :
               it[s] = IF s = {} THEN b ELSE G[Max(s)][it[s \ {Max(s)}]]
             Has(k) == \E it \in [SUBSET (1 .. k) -> T] : Fold(it, k)
             Good == {k \in 0 .. n : Has(k)}
  <1>1. Has(0)
    <2> DEFINE it == [s \in SUBSET (1 .. 0) |-> b]
    <2>1. it \in [SUBSET (1 .. 0) -> T] /\ Fold(it, 0)
      <3>1. \A s \in SUBSET (1 .. 0) : s = {}
        OBVIOUS
      <3> QED BY <3>1
    <2> HIDE DEF it
    <2> QED BY <2>1
  <1>2. ASSUME NEW k \in 0 .. n - 1, Has(k) PROVE Has(k + 1)
    <2>1. PICK it \in [SUBSET (1 .. k) -> T] : Fold(it, k)
      BY <1>2
    <2> DEFINE jt == [s \in SUBSET (1 .. k + 1) |->
                        IF k + 1 \in s THEN G[k + 1][it[s \ {k + 1}]] ELSE it[s]]
    <2>2. ASSUME NEW s \in SUBSET (1 .. k + 1)
          PROVE  /\ k + 1 \in s => s \ {k + 1} \in SUBSET (1 .. k)
                 /\ k + 1 \notin s => s \in SUBSET (1 .. k)
      OBVIOUS
    <2>3. jt \in [SUBSET (1 .. k + 1) -> T]
      <3>1. \A s \in SUBSET (1 .. k + 1) : k + 1 \in s => it[s \ {k + 1}] \in T
        BY <2>1, <2>2
      <3>2. G[k + 1] \in [T -> T]
        OBVIOUS
      <3>3. \A s \in SUBSET (1 .. k + 1) : k + 1 \notin s => it[s] \in T
        BY <2>1, <2>2
      <3> QED BY <3>1, <3>2, <3>3
    <2>4. ASSUME NEW s \in SUBSET (1 .. k + 1)
          PROVE  jt[s] = IF s = {} THEN b ELSE G[Max(s)][jt[s \ {Max(s)}]]
      <3>1. CASE k + 1 \in s
        <4>1. Max(s) = k + 1
          BY <3>1, MaxOfUpTo
        <4>2. s \ {k + 1} \in SUBSET (1 .. k + 1) /\ k + 1 \notin s \ {k + 1}
          OBVIOUS
        <4>3. jt[s \ {k + 1}] = it[s \ {k + 1}]
          BY <4>2
        <4>4. jt[s] = G[k + 1][it[s \ {k + 1}]]
          BY <3>1
        <4> HIDE DEF jt
        <4> QED BY <3>1, <4>1, <4>3, <4>4
      <3>2. CASE k + 1 \notin s
        <4>1. s \in SUBSET (1 .. k) /\ s \ {Max(s)} \in SUBSET (1 .. k)
          BY <2>2, <3>2
        <4>2. s \ {Max(s)} \in SUBSET (1 .. k + 1) /\ k + 1 \notin s \ {Max(s)}
          BY <3>2
        <4>3. jt[s] = it[s] /\ jt[s \ {Max(s)}] = it[s \ {Max(s)}]
          BY <3>2, <4>2
        <4>4. it[s] = IF s = {} THEN b ELSE G[Max(s)][it[s \ {Max(s)}]]
          BY <2>1, <4>1
        <4> HIDE DEF jt
        <4> QED BY <4>3, <4>4
      <3> QED BY <3>1, <3>2
    <2> HIDE DEF jt
    <2> QED BY <2>3, <2>4
  <1> HIDE DEF Has
  <1>3. 0 \in Good /\ \A k \in 0 .. n - 1 : k \in Good => k + 1 \in Good
    BY <1>1, <1>2
  <1> HIDE DEF Good
  <1>4. \A k \in 0 .. n : k \in Good
    BY <1>3, FiniteInduction, Zenon
  <1>5. Has(n)
    BY <1>4 DEF Good
  <1> QED BY <1>5 DEF Has, Folds

-----------------------------------------------------------------------------
Nonces == [Senders -> Nat]

\* tr lists the values a fold of Transact, or of PushDecoded, over s goes through.
NonceTrace(tr, b, s, n) ==
  /\ tr \in [0 .. n -> Nonces] /\ tr[0] = b
  /\ \A k \in 1 .. n : tr[k] = Transact(tr[k - 1], s[k])

TxsTrace(tr, b, s, n, T) ==
  /\ tr \in [0 .. n -> T] /\ tr[0] = b
  /\ \A k \in 1 .. n : tr[k] = PushDecoded(tr[k - 1], s[k])

LEMMA TransactTyped ==
  ASSUME NEW x \in Nonces, NEW tx, tx.sender \in Senders
  PROVE  Transact(x, tx) \in Nonces
  BY DEF Transact, Nonces


LEMMA MaxRemoved ==
  ASSUME NEW n \in Nat, NEW t \in SUBSET (1 .. n), t # {}
  PROVE  Max(t) \in 1 .. n /\ t \ {Max(t)} \in SUBSET (1 .. n)
  <1>1. Max(t) \in t
    BY MaxOfBounded
  <1> QED BY <1>1

LEMMA MaxOfInterval ==
  ASSUME NEW n \in Nat, NEW k \in 1 .. n
  PROVE  /\ 1 .. k \in SUBSET (1 .. n) /\ 1 .. k # {}
         /\ Max(1 .. k) = k /\ (1 .. k) \ {k} = 1 .. k - 1
  <1>1. k \in Nat \ {0} /\ k \in 1 .. k
    OBVIOUS
  <1>2. 1 .. k \in SUBSET (1 .. n) /\ (1 .. k) \ {k} = 1 .. k - 1
    OBVIOUS
  <1> QED BY <1>1, <1>2, MaxOfUpTo

LEMMA PushTyped ==
  ASSUME NEW D, NEW x \in Seq(D), NEW tx \in D
  PROVE  PushDecoded(x, tx) \in Seq(D)
  BY DEF PushDecoded

LEMMA FoldTransact ==
  ASSUME NEW s, NEW n \in Nat, DOMAIN s = 1 .. n, NEW b \in Nonces,
         \A k \in 1 .. n : s[k].sender \in Senders
  PROVE  \E tr : NonceTrace(tr, b, s, n) /\ FoldLeft(Transact, b, s) = tr[n]
  <1> DEFINE G == [k \in 1 .. n |-> [x \in Nonces |-> Transact(x, s[k])]]
             Eq(it) == it = [t \in SUBSET (1 .. n) |->
                               IF t = {} THEN b ELSE Transact(it[t \ {Max(t)}], s[Max(t)])]
             F == CHOOSE it : Eq(it)
  <1>1. G \in [1 .. n -> [Nonces -> Nonces]]
    BY TransactTyped
  <1>2. FoldLeft(Transact, b, s) = F[1 .. n]
    BY DEF FoldLeft, MapThenFoldSet
  <1>3. \A k \in 1 .. n : \A x \in Nonces : G[k][x] = Transact(x, s[k])
    OBVIOUS
  <1> HIDE DEF G
  <1>4. PICK it : Folds(it, n, Nonces, b, G)
    BY <1>1, FoldExists
  <1>5. ASSUME NEW t \in SUBSET (1 .. n), t # {}
        PROVE  it[t] = Transact(it[t \ {Max(t)}], s[Max(t)])
    <2>1. Max(t) \in 1 .. n /\ it[t \ {Max(t)}] \in Nonces
      BY <1>4, <1>5, MaxRemoved DEF Folds
    <2> HIDE DEF Max
    <2> QED BY <1>3, <1>4, <1>5, <2>1 DEF Folds
  <1>6. Eq(it)
    <2>1. \A t \in SUBSET (1 .. n) :
            it[t] = IF t = {} THEN b ELSE Transact(it[t \ {Max(t)}], s[Max(t)])
      BY <1>4, <1>5 DEF Folds
    <2> QED BY <1>4, <2>1 DEF Folds
  <1>7. Eq(F)
    <2> HIDE DEF Eq
    <2> QED BY <1>6
  <1> HIDE DEF F
  <1>8. F[1 .. 0] = b
    <2>1. 1 .. 0 \in SUBSET (1 .. n) /\ 1 .. 0 = {}
      OBVIOUS
    <2> QED BY <1>7, <2>1
  <1>9. ASSUME NEW k \in 1 .. n PROVE F[1 .. k] = Transact(F[1 .. k - 1], s[k])
    <2>1. F[1 .. k] = Transact(F[(1 .. k) \ {Max(1 .. k)}], s[Max(1 .. k)])
      BY <1>7, MaxOfInterval
    <2> QED BY <2>1, MaxOfInterval
  <1> DEFINE Good == {k \in 0 .. n : F[1 .. k] \in Nonces}
  <1>10. 0 \in Good
    BY <1>8
  <1>11. ASSUME NEW k \in 0 .. n - 1, k \in Good PROVE k + 1 \in Good
    <2>1. k + 1 \in 1 .. n /\ (k + 1) - 1 = k /\ k + 1 \in 0 .. n
      OBVIOUS
    <2>2. F[1 .. k] \in Nonces
      BY <1>11
    <2>3. F[1 .. k + 1] = Transact(F[1 .. k], s[k + 1])
      BY <1>9, <2>1
    <2> QED BY <2>1, <2>2, <2>3, TransactTyped
  <1> HIDE DEF Good
  <1>12. \A k \in 0 .. n : k \in Good
    BY <1>10, <1>11, FiniteInduction, Zenon
  <1> DEFINE tr == [k \in 0 .. n |-> F[1 .. k]]
  <1>13. /\ tr \in [0 .. n -> Nonces] /\ tr[0] = b /\ tr[n] = F[1 .. n]
         /\ \A k \in 1 .. n : tr[k] = F[1 .. k] /\ tr[k - 1] = F[1 .. k - 1]
    BY <1>8, <1>12 DEF Good
  <1> HIDE DEF tr
  <1>14. NonceTrace(tr, b, s, n)
    BY <1>9, <1>13 DEF NonceTrace
  <1> QED BY <1>2, <1>13, <1>14

LEMMA FoldPushDecoded ==
  ASSUME NEW s, NEW n \in Nat, DOMAIN s = 1 .. n, NEW D,
         \A k \in 1 .. n : s[k] \in D
  PROVE  \E tr : TxsTrace(tr, << >>, s, n, Seq(D)) /\ FoldLeft(PushDecoded, << >>, s) = tr[n]
  <1> DEFINE G == [k \in 1 .. n |-> [x \in Seq(D) |-> PushDecoded(x, s[k])]]
             Eq(it) == it = [t \in SUBSET (1 .. n) |->
                               IF t = {} THEN << >> ELSE PushDecoded(it[t \ {Max(t)}], s[Max(t)])]
             F == CHOOSE it : Eq(it)
  <1>1. G \in [1 .. n -> [Seq(D) -> Seq(D)]]
    BY PushTyped
  <1>2. FoldLeft(PushDecoded, << >>, s) = F[1 .. n]
    BY DEF FoldLeft, MapThenFoldSet
  <1>3. \A k \in 1 .. n : \A x \in Seq(D) : G[k][x] = PushDecoded(x, s[k])
    OBVIOUS
  <1> HIDE DEF G
  <1> DEFINE none == << >>
  <1>0. none \in Seq(D)
    OBVIOUS
  <1> HIDE DEF none
  <1>4. PICK it : Folds(it, n, Seq(D), none, G)
    BY <1>0, <1>1, FoldExists
  <1> USE DEF none
  <1>5. ASSUME NEW t \in SUBSET (1 .. n), t # {}
        PROVE  it[t] = PushDecoded(it[t \ {Max(t)}], s[Max(t)])
    <2>1. Max(t) \in 1 .. n /\ it[t \ {Max(t)}] \in Seq(D)
      BY <1>4, <1>5, MaxRemoved DEF Folds
    <2> HIDE DEF Max
    <2> QED BY <1>3, <1>4, <1>5, <2>1 DEF Folds
  <1>6. Eq(it)
    <2>1. \A t \in SUBSET (1 .. n) :
            it[t] = IF t = {} THEN << >> ELSE PushDecoded(it[t \ {Max(t)}], s[Max(t)])
      BY <1>4, <1>5 DEF Folds
    <2> QED BY <1>4, <2>1 DEF Folds
  <1>7. Eq(F)
    <2> HIDE DEF Eq
    <2> QED BY <1>6
  <1> HIDE DEF F
  <1>8. F[1 .. 0] = << >>
    <2>1. 1 .. 0 \in SUBSET (1 .. n) /\ 1 .. 0 = {}
      OBVIOUS
    <2> QED BY <1>7, <2>1
  <1>9. ASSUME NEW k \in 1 .. n PROVE F[1 .. k] = PushDecoded(F[1 .. k - 1], s[k])
    <2>1. F[1 .. k] = PushDecoded(F[(1 .. k) \ {Max(1 .. k)}], s[Max(1 .. k)])
      BY <1>7, MaxOfInterval
    <2> QED BY <2>1, MaxOfInterval
  <1> DEFINE Good == {k \in 0 .. n : F[1 .. k] \in Seq(D)}
  <1>10. 0 \in Good
    <2>1. F[1 .. 0] \in Seq(D)
      BY <1>0, <1>8, Zenon
    <2>2. 0 \in 0 .. n
      OBVIOUS
    <2> QED BY <2>1, <2>2
  <1>11. ASSUME NEW k \in 0 .. n - 1, k \in Good PROVE k + 1 \in Good
    <2>1. k + 1 \in 1 .. n /\ (k + 1) - 1 = k /\ k + 1 \in 0 .. n
      OBVIOUS
    <2>2. F[1 .. k] \in Seq(D)
      BY <1>11
    <2>3. F[1 .. k + 1] = PushDecoded(F[1 .. k], s[k + 1])
      BY <1>9, <2>1
    <2> QED BY <2>1, <2>2, <2>3, PushTyped
  <1> HIDE DEF Good
  <1>12. \A k \in 0 .. n : k \in Good
    BY <1>10, <1>11, FiniteInduction, Zenon
  <1> DEFINE tr == [k \in 0 .. n |-> F[1 .. k]]
  <1>13. /\ tr \in [0 .. n -> Seq(D)] /\ tr[0] = << >> /\ tr[n] = F[1 .. n]
         /\ \A k \in 1 .. n : tr[k] = F[1 .. k] /\ tr[k - 1] = F[1 .. k - 1]
    BY <1>8, <1>12 DEF Good
  <1> HIDE DEF tr
  <1>14. TxsTrace(tr, << >>, s, n, Seq(D))
    BY <1>9, <1>13 DEF TxsTrace
  <1> QED BY <1>2, <1>13, <1>14

\* Transact over one transaction more.
LEMMA TransactOneMore ==
  ASSUME NEW D, NEW s \in Seq(D), NEW e \in D, NEW b \in Nonces,
         \A x \in D : x.sender \in Senders
  PROVE  /\ FoldLeft(Transact, b, s) \in Nonces
         /\ FoldLeft(Transact, b, Append(s, e)) = Transact(FoldLeft(Transact, b, s), e)
  <1> DEFINE n == Len(s)
             u == Append(s, e)
  <1>1. /\ n \in Nat /\ n + 1 \in Nat /\ DOMAIN s = 1 .. n /\ DOMAIN u = 1 .. n + 1
        /\ \A k \in 1 .. n : s[k] = u[k] /\ s[k] \in D
        /\ u[n + 1] = e /\ \A k \in 1 .. n + 1 : u[k] \in D
    OBVIOUS
  <1> HIDE DEF n, u
  <1>2. PICK tr : NonceTrace(tr, b, s, n) /\ FoldLeft(Transact, b, s) = tr[n]
    BY <1>1, FoldTransact
  <1>3. PICK ur : NonceTrace(ur, b, u, n + 1) /\ FoldLeft(Transact, b, u) = ur[n + 1]
    BY <1>1, FoldTransact
  <1> DEFINE Good == {k \in 0 .. n : tr[k] = ur[k]}
  <1>4. 0 \in Good
    BY <1>1, <1>2, <1>3 DEF NonceTrace
  <1>5. ASSUME NEW k \in 0 .. n - 1, k \in Good PROVE k + 1 \in Good
    <2>1. k + 1 \in 1 .. n /\ k + 1 \in 1 .. n + 1 /\ (k + 1) - 1 = k /\ k + 1 \in 0 .. n
      BY <1>1
    <2>2. tr[k + 1] = Transact(tr[k], s[k + 1]) /\ ur[k + 1] = Transact(ur[k], u[k + 1])
      BY <1>2, <1>3, <2>1 DEF NonceTrace
    <2> QED BY <1>1, <1>5, <2>1, <2>2
  <1> HIDE DEF Good
  <1>6. \A k \in 0 .. n : k \in Good
    BY <1>1, <1>4, <1>5, FiniteInduction, Zenon
  <1>7. tr[n] = ur[n]
    BY <1>1, <1>6 DEF Good
  <1>8. ur[n + 1] = Transact(ur[n], e) /\ tr[n] \in Nonces
    BY <1>1, <1>2, <1>3 DEF NonceTrace
  <1> QED BY <1>2, <1>3, <1>7, <1>8 DEF u

LEMMA TransactNone ==
  ASSUME NEW b \in Nonces
  PROVE  FoldLeft(Transact, b, << >>) = b
  <1>1. DOMAIN << >> = 1 .. 0
    OBVIOUS
  <1>2. PICK tr : NonceTrace(tr, b, << >>, 0) /\ FoldLeft(Transact, b, << >>) = tr[0]
    BY <1>1, FoldTransact
  <1> QED BY <1>2 DEF NonceTrace

-----------------------------------------------------------------------------
(* Counting the transactions of the chain.                                   *)

LEMMA TxsOfFeed ==
  ASSUME NEW i \in 1 .. Len(Feed)
  PROVE  /\ Feed[i].txs \in Seq(Range(Feed[i].txs))
         /\ Len(Feed[i].txs) \in Nat /\ DOMAIN Feed[i].txs = 1 .. Len(Feed[i].txs)
         /\ \A j \in 1 .. Len(Feed[i].txs) : Feed[i].txs[j] \in Range(Feed[i].txs)
         /\ \A tx \in Range(Feed[i].txs) :
              tx.sender \in Senders /\ tx.success \in BOOLEAN /\ tx.decodes \in BOOLEAN
         /\ \A j \in 1 .. Len(Feed[i].txs) :
              Feed[i].txs[j].nonce = Cardinality(SentBefore(Feed[i].txs[j].sender, i, j))
  <1> DEFINE s == Feed[i].txs
  <1>1. s \in Seq(Range(s))
    BY FeedAssumption
  <1>2. \A j \in DOMAIN s :
          s[j].sender \in Senders /\ s[j].success \in BOOLEAN /\ s[j].decodes \in BOOLEAN
    BY FeedAssumption
  <1>3. \A j \in DOMAIN s : s[j].nonce = Cardinality(SentBefore(s[j].sender, i, j))
    BY NonceAssumption
  <1> HIDE DEF s
  <1>4. Len(s) \in Nat /\ DOMAIN s = 1 .. Len(s)
    BY <1>1
  <1>5. \A tx \in Range(s) :
          tx.sender \in Senders /\ tx.success \in BOOLEAN /\ tx.decodes \in BOOLEAN
    BY <1>2 DEF Range
  <1>6. \A j \in 1 .. Len(s) : s[j] \in Range(s)
    BY <1>4 DEF Range
  <1>7. /\ s \in Seq(Range(s)) /\ Len(s) \in Nat /\ DOMAIN s = 1 .. Len(s)
        /\ \A j \in 1 .. Len(s) : s[j] \in Range(s)
        /\ \A tx \in Range(s) :
             tx.sender \in Senders /\ tx.success \in BOOLEAN /\ tx.decodes \in BOOLEAN
        /\ \A j \in 1 .. Len(s) : s[j].nonce = Cardinality(SentBefore(s[j].sender, i, j))
    BY <1>1, <1>3, <1>4, <1>5, <1>6
  <1> QED BY <1>7, Zenon DEF s

LEMMA SentByOne ==
  ASSUME NEW a, NEW i \in 1 .. Len(Feed)
  PROVE  IsFiniteSet(SentBy(a, {i}))
  <1> DEFINE J == {j \in DOMAIN Feed[i].txs : Feed[i].txs[j].sender = a}
  <1> DEFINE n == Len(Feed[i].txs)
  <1>0. n \in Nat /\ DOMAIN Feed[i].txs = 1 .. n
    BY TxsOfFeed
  <1>1. J \in SUBSET (1 .. n)
    BY <1>0
  <1>2. IsFiniteSet(J) /\ IsFiniteSet({i})
    <2> HIDE DEF n, J
    <2>1. IsFiniteSet(1 .. n)
      BY <1>0, FS_Interval
    <2>2. IsFiniteSet(J)
      BY <1>1, <2>1, FS_Subset
    <2>3. IsFiniteSet({i})
      BY FS_Singleton, Zenon
    <2> QED BY <2>2, <2>3
  <1>3. SentBy(a, {i}) = {i} \X J
    BY DEF SentBy
  <1> HIDE DEF J
  <1> QED BY <1>2, <1>3, FS_Product

\* Only finitely many transactions of a sender.
LEMMA SentFinite ==
  ASSUME NEW a, NEW P \in SUBSET (1 .. Len(Feed))
  PROVE  IsFiniteSet(SentBy(a, P))
  <1> DEFINE n == Len(Feed)
             Good == {k \in 0 .. n : IsFiniteSet(SentBy(a, 1 .. k))}
  <1>0. n \in Nat
    BY FeedAssumption
  <1>1. 0 \in Good
    <2>1. SentBy(a, 1 .. 0) = {}
      BY DEF SentBy
    <2> QED BY <1>0, <2>1, FS_EmptySet
  <1>2. ASSUME NEW k \in 0 .. n - 1, k \in Good PROVE k + 1 \in Good
    <2>1. k + 1 \in 1 .. n /\ 1 .. k + 1 = (1 .. k) \cup {k + 1} /\ k + 1 \in 0 .. n
      BY <1>0
    <2>2. SentBy(a, (1 .. k) \cup {k + 1}) = SentBy(a, 1 .. k) \cup SentBy(a, {k + 1})
      BY DEF SentBy
    <2>3. IsFiniteSet(SentBy(a, 1 .. k)) /\ IsFiniteSet(SentBy(a, {k + 1}))
      BY <1>2, <2>1, SentByOne
    <2>4. IsFiniteSet(SentBy(a, 1 .. k) \cup SentBy(a, {k + 1}))
      BY <2>3, FS_Union
    <2> QED BY <2>1, <2>2, <2>4
  <1> HIDE DEF Good
  <1>3. \A k \in 0 .. n : k \in Good
    BY <1>0, <1>1, <1>2, FiniteInduction, Zenon
  <1>4. IsFiniteSet(SentBy(a, 1 .. n))
    BY <1>0, <1>3 DEF Good
  <1>5. SentBy(a, P) \in SUBSET SentBy(a, 1 .. n)
    BY DEF SentBy
  <1> QED BY <1>4, <1>5, FS_Subset

\* What is before a transaction: the earlier flashblocks, then one by one.
LEMMA SentBeforeFirst ==
  ASSUME NEW a, NEW i \in 1 .. Len(Feed)
  PROVE  /\ SentBefore(a, i, 1) = SentBy(a, 1 .. i - 1)
         /\ SentBefore(a, i, Len(Feed[i].txs) + 1) = SentBy(a, 1 .. i)
  <1>1. Len(Feed) \in Nat /\ Len(Feed[i].txs) \in Nat
        /\ DOMAIN Feed[i].txs = 1 .. Len(Feed[i].txs)
    BY FeedAssumption, TxsOfFeed
  <1>2. \A t \in SentBy(a, {i}) : t[2] \in 1 .. Len(Feed[i].txs)
    BY <1>1 DEF SentBy
  <1>3. 1 .. i = (1 .. i - 1) \cup {i}
    BY <1>1
  <1>4. SentBy(a, (1 .. i - 1) \cup {i}) = SentBy(a, 1 .. i - 1) \cup SentBy(a, {i})
    BY DEF SentBy
  <1>5. \A t \in SentBy(a, {i}) : ~(t[2] < 1) /\ t[2] < Len(Feed[i].txs) + 1
    BY <1>1, <1>2
  <1> QED BY <1>3, <1>4, <1>5 DEF SentBefore

LEMMA SentBeforeNext ==
  ASSUME NEW a, NEW i \in 1 .. Len(Feed), NEW k \in 1 .. Len(Feed[i].txs)
  PROVE  /\ IsFiniteSet(SentBefore(a, i, k))
         /\ Cardinality(SentBefore(a, i, k)) \in Nat
         /\ Cardinality(SentBefore(a, i, k + 1)) =
              IF Feed[i].txs[k].sender = a THEN Cardinality(SentBefore(a, i, k)) + 1
                                          ELSE Cardinality(SentBefore(a, i, k))
  <1>1. Len(Feed) \in Nat /\ Len(Feed[i].txs) \in Nat
        /\ DOMAIN Feed[i].txs = 1 .. Len(Feed[i].txs)
    BY FeedAssumption, TxsOfFeed
  <1>2. IsFiniteSet(SentBefore(a, i, k))
    <2>1. 1 .. i \in SUBSET (1 .. Len(Feed))
      BY <1>1
    <2>2. IsFiniteSet(SentBy(a, 1 .. i))
      BY <2>1, SentFinite
    <2>3. SentBefore(a, i, k) \in SUBSET SentBy(a, 1 .. i)
      BY <1>1 DEF SentBefore, SentBy
    <2> QED BY <2>2, <2>3, FS_Subset
  <1>3. <<i, k>> \notin SentBefore(a, i, k)
    BY <1>1 DEF SentBefore, SentBy
  <1>4. \A t \in SentBy(a, {i}) : t = <<i, t[2]>> /\ t[2] \in 1 .. Len(Feed[i].txs)
                                 /\ Feed[i].txs[t[2]].sender = a
    BY <1>1 DEF SentBy
  <1>5. \A t \in SentBy(a, {i}) : t[2] < k + 1 <=> t[2] < k \/ t[2] = k
    BY <1>1, <1>4
  <1>6. CASE Feed[i].txs[k].sender = a
    <2>1. <<i, k>> \in SentBy(a, {i}) /\ <<i, k>>[2] = k
      BY <1>1, <1>6 DEF SentBy
    <2>2. SentBefore(a, i, k + 1) = SentBefore(a, i, k) \cup {<<i, k>>}
      BY <1>4, <1>5, <2>1 DEF SentBefore
    <2> QED BY <1>2, <1>3, <1>6, <2>2, FS_AddElement, FS_CardinalityType
  <1>7. CASE Feed[i].txs[k].sender # a
    <2>1. SentBefore(a, i, k + 1) = SentBefore(a, i, k)
      BY <1>4, <1>5, <1>7 DEF SentBefore
    <2> QED BY <1>2, <1>7, <2>1, FS_CardinalityType
  <1> QED BY <1>6, <1>7

-----------------------------------------------------------------------------
(* Exactness, from transaction to transaction and from flashblock to         *)
(* flashblock.                                                               *)

SkippedIn(Q, a) == \E i \in Q : \E j \in DOMAIN Feed[i].txs : SkippedTx(Feed[i].txs[j], a)

\* Nonces N after the flashblocks at 1 .. k of the chain, those at Q among them on
\* the overlay.
ExactFor(N, Q, k) ==
  /\ N \in Nonces
  /\ \A a \in Senders : IF SkippedIn(Q, a) THEN N[a] < NonceAfter(a, 1 .. k)
                                           ELSE N[a] = NonceAfter(a, 1 .. k)

\* The same within the flashblock at i, after k of its transactions.
SkippedSoFar(Q, i, k, a) ==
  SkippedIn(Q, a) \/ \E j \in 1 .. k : SkippedTx(Feed[i].txs[j], a)

ExactAt(N, Q, i, k) ==
  /\ N \in Nonces
  /\ \A a \in Senders :
       IF SkippedSoFar(Q, i, k, a) THEN N[a] < Cardinality(SentBefore(a, i, k + 1))
                                   ELSE N[a] = Cardinality(SentBefore(a, i, k + 1))

\* What one transaction does to the nonces and to the chain's.
LEMMA ExactNext ==
  ASSUME NEW i \in 1 .. Len(Feed), NEW Q, NEW N, NEW k \in 0 .. Len(Feed[i].txs) - 1,
         ExactAt(N, Q, i, k)
  PROVE  ExactAt(IF Feed[i].txs[k + 1].decodes THEN Transact(N, Feed[i].txs[k + 1]) ELSE N,
                 Q, i, k + 1)
  <1> DEFINE tx == Feed[i].txs[k + 1]
             M == IF tx.decodes THEN Transact(N, tx) ELSE N
             C(a) == Cardinality(SentBefore(a, i, k + 1))
             D(a) == Cardinality(SentBefore(a, i, (k + 1) + 1))
             S(a) == SkippedSoFar(Q, i, k, a)
             W(a) == SkippedSoFar(Q, i, k + 1, a)
  <1>1. /\ k + 1 \in 1 .. Len(Feed[i].txs) /\ k + 1 \in Nat
        /\ \A j \in 1 .. k + 1 : j \in 1 .. k \/ j = k + 1
        /\ \A j \in 1 .. k : j \in 1 .. k + 1
        /\ k + 1 \in 1 .. k + 1
    BY TxsOfFeed
  <1>2. tx.sender \in Senders /\ tx.success \in BOOLEAN /\ tx.decodes \in BOOLEAN
        /\ tx.nonce = C(tx.sender)
    BY <1>1, TxsOfFeed
  <1>3. ASSUME NEW a
        PROVE  C(a) \in Nat /\ D(a) = IF tx.sender = a THEN C(a) + 1 ELSE C(a)
    BY <1>1, SentBeforeNext
  <1>4. ASSUME NEW a PROVE W(a) <=> S(a) \/ SkippedTx(tx, a)
    BY <1>1 DEF SkippedSoFar
  <1>5. N \in Nonces /\ \A a \in Senders : IF S(a) THEN N[a] < C(a) ELSE N[a] = C(a)
    BY DEF ExactAt
  <1> HIDE DEF tx, C, D, S, W
  <1>6. M \in Nonces
    BY <1>2, <1>5, TransactTyped
  <1>7. ASSUME NEW a \in Senders PROVE IF W(a) THEN M[a] < D(a) ELSE M[a] = D(a)
    <2>1. N[a] \in Nat /\ M[a] \in Nat
      BY <1>5, <1>6 DEF Nonces
    <2>2. CASE tx.sender # a
      <3>1. M[a] = N[a]
        BY <1>5, <2>2 DEF Transact, Nonces
      <3>2. W(a) <=> S(a)
        BY <1>4, <2>2 DEF SkippedTx
      <3> QED BY <1>3, <1>5, <2>2, <3>1, <3>2
    <2>3. CASE tx.sender = a
      <3>1. N[a] <= C(a) /\ C(a) \in Nat /\ D(a) = C(a) + 1 /\ tx.nonce = C(a)
        BY <1>2, <1>3, <1>5, <2>1, <2>3
      <3>2. CASE tx.success /\ tx.decodes
        <4>1. W(a) <=> S(a)
          BY <1>4, <3>2 DEF SkippedTx
        <4>2. M[a] = IF C(a) = N[a] THEN N[a] + 1 ELSE N[a]
          BY <1>5, <2>3, <3>1, <3>2 DEF Transact, Nonces
        <4> QED BY <1>5, <2>1, <3>1, <4>1, <4>2
      <3>3. CASE ~(tx.success /\ tx.decodes)
        <4>1. W(a)
          BY <1>4, <2>3, <3>3 DEF SkippedTx
        <4>2. M[a] = N[a]
          BY <3>3 DEF Transact
        <4> QED BY <2>1, <3>1, <4>1, <4>2
      <3> QED BY <3>2, <3>3
    <2> QED BY <2>2, <2>3
  <1> HIDE DEF M
  <1>8. ExactAt(M, Q, i, k + 1)
    BY <1>6, <1>7 DEF ExactAt, D, W
  <1> QED BY <1>8 DEF M, tx

\* The transactions of an event are those of its flashblock that decode.
LEMMA EventTxs ==
  ASSUME NEW i \in 1 .. Len(Feed)
  PROVE  Event(Feed[i]).txs = FoldLeft(PushDecoded, << >>, Feed[i].txs)
  <1> DEFINE f == Feed[i]
             t == FoldLeft(PushDecoded, << >>, f.txs)
  <1>1. f = [block |-> f.block, index |-> f.index, txs |-> f.txs]
    BY FeedAssumption
  <1>2. Event(f) = [f EXCEPT !.txs = t]
    BY DEF Event
  <1> HIDE DEF f, t
  <1>3. Event(f).txs = t
    BY <1>1, <1>2
  <1> QED BY <1>3 DEF f, t

\* From exact nonces below a flashblock to exact nonces after it.
LEMMA FlashblockExact ==
  ASSUME NEW i \in 1 .. Len(Feed), NEW Q, NEW N, ExactFor(N, Q, i - 1)
  PROVE  ExactFor(FoldLeft(Transact, N, Event(Feed[i]).txs), Q \cup {i}, i)
  <1> DEFINE s == Feed[i].txs
             n == Len(s)
             D == Range(s)
  <1>1. /\ n \in Nat /\ DOMAIN s = 1 .. n /\ \A k \in 1 .. n : s[k] \in D
        /\ \A x \in D : x.sender \in Senders
    BY TxsOfFeed
  <1>2. N \in Nonces
    BY DEF ExactFor
  <1>3. ExactAt(N, Q, i, 0)
    <2>1. \A a : SkippedSoFar(Q, i, 0, a) <=> SkippedIn(Q, a)
      BY DEF SkippedSoFar
    <2>2. \A a : SentBefore(a, i, 0 + 1) = SentBy(a, 1 .. i - 1)
      BY SentBeforeFirst
    <2> QED BY <2>1, <2>2 DEF ExactAt, ExactFor, NonceAfter
  <1>4. ASSUME NEW k \in 0 .. n - 1, NEW P, ExactAt(P, Q, i, k)
        PROVE  ExactAt(IF s[k + 1].decodes THEN Transact(P, s[k + 1]) ELSE P, Q, i, k + 1)
    BY <1>4, ExactNext
  <1>5. Event(Feed[i]).txs = FoldLeft(PushDecoded, << >>, s)
    BY EventTxs
  <1>6. \A a \in Senders : SkippedSoFar(Q, i, n, a) <=> SkippedIn(Q \cup {i}, a)
    BY <1>1 DEF SkippedSoFar, SkippedIn
  <1>7. \A a : SentBefore(a, i, n + 1) = SentBy(a, 1 .. i)
    BY SentBeforeFirst
  <1> HIDE DEF s, n, D
  <1>8. PICK tr : TxsTrace(tr, << >>, s, n, Seq(D)) /\ FoldLeft(PushDecoded, << >>, s) = tr[n]
    BY <1>1, FoldPushDecoded
  <1> DEFINE h(k) == FoldLeft(Transact, N, tr[k])
             Good == {k \in 0 .. n : ExactAt(h(k), Q, i, k)}
  <1>9. h(0) = N
    BY <1>2, <1>8, TransactNone DEF TxsTrace
  <1>10. ASSUME NEW k \in 0 .. n - 1
         PROVE  h(k + 1) = IF s[k + 1].decodes THEN Transact(h(k), s[k + 1]) ELSE h(k)
    <2>1. k + 1 \in 1 .. n /\ (k + 1) - 1 = k /\ k \in 0 .. n
      BY <1>1
    <2>2. tr[k + 1] = PushDecoded(tr[k], s[k + 1]) /\ tr[k] \in Seq(D) /\ s[k + 1] \in D
      BY <1>1, <1>8, <2>1 DEF TxsTrace
    <2>3. FoldLeft(Transact, N, Append(tr[k], s[k + 1]))
            = Transact(FoldLeft(Transact, N, tr[k]), s[k + 1])
      BY <1>1, <1>2, <2>2, TransactOneMore
    <2> QED BY <2>2, <2>3 DEF PushDecoded
  <1>11. 0 \in Good
    BY <1>1, <1>3, <1>9
  <1> HIDE DEF h
  <1>12. ASSUME NEW k \in 0 .. n - 1, k \in Good PROVE k + 1 \in Good
    <2>1. ExactAt(h(k + 1), Q, i, k + 1)
      BY <1>4, <1>10, <1>12
    <2>2. k + 1 \in 0 .. n
      BY <1>1
    <2> QED BY <2>1, <2>2
  <1> HIDE DEF Good
  <1>13. \A k \in 0 .. n : k \in Good
    BY <1>1, <1>11, <1>12, FiniteInduction, Zenon
  <1>14. ExactAt(h(n), Q, i, n)
    BY <1>1, <1>13 DEF Good
  <1>15. h(n) = FoldLeft(Transact, N, Event(Feed[i]).txs)
    BY <1>5, <1>8 DEF h
  <1>16. ExactFor(h(n), Q \cup {i}, i)
    BY <1>6, <1>7, <1>14 DEF ExactAt, ExactFor, NonceAfter
  <1> QED BY <1>15, <1>16

-----------------------------------------------------------------------------
(* The feed along its positions.                                             *)

LEMMA EventBefore ==
  ASSUME NEW i \in 1 .. Len(Feed), NEW k \in 1 .. Len(Feed)
  PROVE  /\ Precedes(Event(Feed[i]), Event(Feed[k])) <=> i < k
         /\ Event(Feed[i]) = Event(Feed[k]) => i = k
  <1>1. i < k => Precedes(Feed[i], Feed[k])
    BY FeedAssumption
  <1>2. k < i => Precedes(Feed[k], Feed[i])
    BY FeedAssumption
  <1>3. /\ Feed[i].block \in Nat /\ Feed[i].index \in Nat
        /\ Feed[k].block \in Nat /\ Feed[k].index \in Nat
        /\ Event(Feed[i]).block = Feed[i].block /\ Event(Feed[i]).index = Feed[i].index
        /\ Event(Feed[k]).block = Feed[k].block /\ Event(Feed[k]).index = Feed[k].index
        /\ i \in Nat /\ k \in Nat
    BY EventOf, FeedAssumption
  <1> HIDE DEF Event
  <1> QED BY <1>1, <1>2, <1>3 DEF Precedes

\* The chain up to a flashblock, and the part of it in its block.
LEMMA UpToPosition ==
  ASSUME NEW i \in 1 .. Len(Feed)
  PROVE  /\ UpTo(Feed[i]) = 1 .. i /\ UpTo(Event(Feed[i])) = 1 .. i
         /\ SoFarOfBlock(Feed[i]) = {k \in 1 .. i : Feed[k].block = Feed[i].block}
         /\ SoFarOfBlock(Event(Feed[i])) = SoFarOfBlock(Feed[i])
         /\ 1 .. i = UpToBlock(Feed[i].block - 1) \cup SoFarOfBlock(Feed[i])
         /\ UpToBlock(Feed[i].block - 1) \in SUBSET (1 .. i)
  <1> DEFINE n == Len(Feed)
             B == Feed[i].block
  <1>1. /\ n \in Nat /\ i \in 1 .. n
        /\ \A k \in 1 .. n : Feed[k].block \in Nat \ {0} /\ Feed[k].index \in Nat
        /\ Event(Feed[i]).block = Feed[i].block /\ Event(Feed[i]).index = Feed[i].index
    BY EventOf, FeedAssumption
  <1>2. \A k \in 1 .. n : /\ k < i => Precedes(Feed[k], Feed[i])
                          /\ i < k => Precedes(Feed[i], Feed[k])
    BY FeedAssumption
  <1> HIDE DEF n
  <1>3. \A k \in 1 .. n :
          (Feed[k].block < B \/ (Feed[k].block = B /\ Feed[k].index <= Feed[i].index)) <=> k <= i
    BY <1>1, <1>2 DEF Precedes
  <1>4. UpTo(Feed[i]) = 1 .. i
    BY <1>1, <1>3 DEF UpTo, n
  <1>5. UpTo(Event(Feed[i])) = 1 .. i
    BY <1>1, <1>4 DEF UpTo
  <1>6. \A k \in 1 .. i : k \in 1 .. n /\ (Feed[k].block <= B - 1 <=> Feed[k].block # B)
    BY <1>1, <1>3
  <1>7. UpToBlock(B - 1) = {k \in 1 .. i : Feed[k].block # B}
    <2>1. \A k \in 1 .. n : Feed[k].block <= B - 1 => k \in 1 .. i
      BY <1>1, <1>3
    <2> QED BY <1>6, <2>1 DEF UpToBlock, n
  <1>8. SoFarOfBlock(Feed[i]) = {k \in 1 .. i : Feed[k].block = B}
    BY <1>4, <1>7 DEF SoFarOfBlock
  <1>9. SoFarOfBlock(Event(Feed[i])) = SoFarOfBlock(Feed[i])
    BY <1>1, <1>4, <1>5 DEF SoFarOfBlock
  <1> QED BY <1>4, <1>5, <1>7, <1>8, <1>9

LEMMA CommittedTyped == \A b : CommittedNonces(b) \in Nonces
  <1> TAKE b
  <1>1. UpToBlock(b) \in SUBSET (1 .. Len(Feed))
    BY DEF UpToBlock
  <1>2. \A a : Cardinality(SentBy(a, UpToBlock(b))) \in Nat
    BY <1>1, SentFinite, FS_CardinalityType
  <1> QED BY <1>2 DEF CommittedNonces, Nonces, NonceAfter

-----------------------------------------------------------------------------
(* The overlay's nonces.                                                     *)

\* s is empty or ends with the last of its flashblocks on the chain.
EndsIn(s) == \A k \in DOMAIN s : s[k] = Last(s) \/ Precedes(s[k], Last(s))

\* What the overlay holds: the chain's nonces below it as long as it is empty, and
\* exact ones when it is whole and stands on the parent.
NonceInv ==
  /\ exec.nonces \in Nonces
  /\ EndsIn(exec.executed)
  /\ exec.ready /\ exec.executed = << >> => exec.nonces = CommittedNonces(exec.base)
  /\ \A i \in 1 .. Len(Feed) :
       /\ exec.executed # << >> /\ Last(exec.executed) = Event(Feed[i])
       /\ exec.base = Feed[i].block - 1 /\ Whole(exec.executed)
       => ExactFor(exec.nonces, SoFarOfBlock(Feed[i]), i)

ExactInv == SimulatorInv /\ NonceInv /\ ExactUnlessSkipped

\* A whole overlay with a flashblock more was whole before, or empty.
LEMMA WholeBefore ==
  ASSUME NEW E \in Seq(Events), NEW i \in 1 .. Len(Feed), EndsIn(E),
         E # << >> => Precedes(Last(E), Event(Feed[i])),
         Whole(Append(E, Event(Feed[i])))
  PROVE  \/ E = << >> /\ SoFarOfBlock(Feed[i]) = {i}
         \/ /\ E # << >> /\ i - 1 \in 1 .. Len(Feed)
            /\ Last(E) = Event(Feed[i - 1]) /\ Whole(E)
            /\ Feed[i - 1].block = Feed[i].block
            /\ SoFarOfBlock(Feed[i]) = SoFarOfBlock(Feed[i - 1]) \cup {i}
  <1> DEFINE e == Event(Feed[i])
             u == Append(E, e)
             S == SoFarOfBlock(Feed[i])
  <1>1. e \in Events /\ Len(Feed) \in Nat
    BY FeedAssumption DEF Events
  <1>2. Last(u) = e /\ Range(u) = Range(E) \cup {e}
    <2>1. /\ DOMAIN u = 1 .. Len(E) + 1 /\ DOMAIN E = 1 .. Len(E) /\ Len(E) \in Nat
          /\ \A k \in DOMAIN E : u[k] = E[k]
          /\ u[Len(E) + 1] = e /\ Last(u) = e
      BY <1>1, AppendTo
    <2>2. \A k \in 1 .. Len(E) + 1 : k \in 1 .. Len(E) \/ k = Len(E) + 1
      BY <2>1
    <2> HIDE DEF u
    <2> QED BY <2>1, <2>2 DEF Range
  <1>3. Range(E) \cup {e} = {Event(Feed[k]) : k \in S}
    <2>1. SoFarOfBlock(e) = S
      BY UpToPosition
    <2> QED BY <1>2, <2>1 DEF Whole
  <1>4. S = {k \in 1 .. i : Feed[k].block = Feed[i].block} /\ S \subseteq 1 .. Len(Feed) /\ i \in S
    <2>1. S = {k \in 1 .. i : Feed[k].block = Feed[i].block}
      BY UpToPosition
    <2> HIDE DEF S
    <2>2. 1 .. i \subseteq 1 .. Len(Feed) /\ i \in 1 .. i
      BY <1>1
    <2> QED BY <2>1, <2>2
  <1>5. ASSUME NEW k \in S, NEW l \in S
        PROVE  (Precedes(Event(Feed[k]), Event(Feed[l])) <=> k < l)
               /\ (Event(Feed[k]) = Event(Feed[l]) => k = l)
    BY <1>4, EventBefore
  <1> HIDE DEF S, u
  <1>6. CASE E = << >>
    <2>1. Range(E) = {}
      BY <1>6 DEF Range
    <2>2. \A k \in S : Event(Feed[k]) = e
      BY <1>3, <2>1
    <2>3. S = {i}
      BY <1>4, <1>5, <2>2
    <2> QED BY <1>6, <2>3 DEF S
  <1>7. CASE E # << >>
    <2>1. Last(E) \in Range(E) /\ Len(E) \in DOMAIN E
      BY <1>7 DEF Last, Range
    <2>2. PICK k \in S : Last(E) = Event(Feed[k])
      BY <1>3, <2>1
    <2>3. k < i /\ i \in Nat /\ k \in Nat /\ k >= 1
      BY <1>1, <1>4, <1>5, <1>7, <2>2
    <2>4. \A x \in Range(E) : x = Event(Feed[k]) \/ Precedes(x, Event(Feed[k]))
      BY <2>2 DEF EndsIn, Range
    <2>5. ASSUME NEW l \in S, l # i PROVE Event(Feed[l]) \in Range(E)
      BY <1>3, <1>4, <1>5, <2>5
    <2>6. ASSUME NEW l \in S, Event(Feed[l]) \in Range(E) PROVE l <= k /\ l # i
      <3>1. l = k \/ l < k
        BY <1>5, <2>4, <2>6
      <3> QED BY <2>3, <3>1
    <2>7. k = i - 1
      <3>1. i - 1 \in S
        <4>1. i - 1 \in 1 .. i /\ i - 1 \in 1 .. Len(Feed) /\ Feed[k].block = Feed[i].block
          BY <1>1, <1>4, <2>3
        <4>2. k <= i - 1
          BY <2>3
        <4>3. Feed[k].block <= Feed[i - 1].block /\ Feed[i - 1].block <= Feed[i].block
          <5>1. k < i - 1 => Precedes(Feed[k], Feed[i - 1])
            <6>1. k \in 1 .. Len(Feed)
              BY <1>4
            <6> QED BY <4>1, <6>1, FeedAssumption
          <5>2. Precedes(Feed[i - 1], Feed[i])
            BY <2>3, <4>1, FeedAssumption
          <5>3. Feed[k].block \in Nat /\ Feed[i - 1].block \in Nat /\ Feed[i].block \in Nat
            BY <1>4, <4>1, EventOf
          <5> QED BY <2>3, <4>2, <5>1, <5>2, <5>3 DEF Precedes
        <4>4. Feed[k].block \in Nat /\ Feed[i - 1].block \in Nat
          BY <1>4, <4>1, EventOf
        <4> QED BY <1>4, <4>1, <4>3, <4>4
      <3>2. i - 1 <= k
        BY <2>3, <2>5, <2>6, <3>1
      <3> QED BY <2>3, <3>2
    <2>8. i - 1 \in 1 .. Len(Feed) /\ Feed[i - 1].block = Feed[i].block
      BY <1>4, <2>3, <2>7
    <2>9. SoFarOfBlock(Feed[i - 1]) = {l \in 1 .. i - 1 : Feed[l].block = Feed[i - 1].block}
      BY <2>8, UpToPosition
    <2>10. S = SoFarOfBlock(Feed[i - 1]) \cup {i} /\ i \notin SoFarOfBlock(Feed[i - 1])
      BY <1>4, <2>3, <2>8, <2>9
    <2>11. Range(E) = {Event(Feed[l]) : l \in SoFarOfBlock(Feed[i - 1])}
      <3>1. \A l \in SoFarOfBlock(Feed[i - 1]) : l \in S /\ l # i
        BY <2>10
      <3>2. \A l \in SoFarOfBlock(Feed[i - 1]) : Event(Feed[l]) \in Range(E)
        BY <2>5, <3>1
      <3>3. ASSUME NEW x \in Range(E)
            PROVE  \E l \in SoFarOfBlock(Feed[i - 1]) : x = Event(Feed[l])
        <4>1. PICK l \in S : x = Event(Feed[l])
          BY <1>3
        <4>2. l # i
          BY <2>6, <4>1
        <4> QED BY <2>10, <4>1, <4>2
      <3> QED BY <3>2, <3>3
    <2>12. Whole(E)
      <3>1. SoFarOfBlock(Last(E)) = SoFarOfBlock(Feed[i - 1])
        BY <2>2, <2>7, <2>8, UpToPosition
      <3> QED BY <2>11, <3>1 DEF Whole
    <2> QED BY <1>7, <2>2, <2>7, <2>8, <2>10, <2>12 DEF S
  <1> QED BY <1>6, <1>7

LEMMA ExactInit == Init => NonceInv /\ ExactUnlessSkipped
  <1> SUFFICES ASSUME Init PROVE NonceInv /\ ExactUnlessSkipped
    OBVIOUS
  <1>1. exec.ready = FALSE /\ exec.nonces = CommittedNonces(0) /\ exec.executed = << >>
    BY DEF Init, NotReady
  <1>2. NonceInv
    BY <1>1, CommittedTyped DEF NonceInv, EndsIn
  <1> QED BY <1>2 DEF Init, ExactUnlessSkipped

\* One more flashblock on the overlay: exact again if the overlay is whole.
LEMMA ExecuteExact ==
  ASSUME SimulatorInv, NonceInv, NEW i \in 1 .. Len(Feed), event = Event(Feed[i]),
         exec.ready, exec.base = Feed[i].block - 1, Whole(Append(exec.executed, event)),
         exec.executed # << >> => Precedes(Last(exec.executed), event)
  PROVE  ExactFor(FoldLeft(Transact, exec.nonces, event.txs), SoFarOfBlock(Feed[i]), i)
  <1> DEFINE E == exec.executed
             S == SoFarOfBlock(Feed[i])
  <1>1. E \in Seq(Events) /\ EndsIn(E) /\ exec.nonces \in Nonces
    BY DEF SimulatorInv, TypeOK, NonceInv
  <1>2. \/ E = << >> /\ S = {i}
        \/ /\ E # << >> /\ i - 1 \in 1 .. Len(Feed)
           /\ Last(E) = Event(Feed[i - 1]) /\ Whole(E)
           /\ Feed[i - 1].block = Feed[i].block
           /\ S = SoFarOfBlock(Feed[i - 1]) \cup {i}
    BY <1>1, WholeBefore
  <1>3. \E Q : ExactFor(exec.nonces, Q, i - 1) /\ S = Q \cup {i}
    <2>1. CASE E = << >>
      <3>1. S = {i} /\ exec.nonces = CommittedNonces(Feed[i].block - 1)
        BY <1>2, <2>1 DEF NonceInv
      <3>2. UpToBlock(Feed[i].block - 1) = 1 .. i - 1
        <4>1. /\ 1 .. i = UpToBlock(Feed[i].block - 1) \cup S
              /\ UpToBlock(Feed[i].block - 1) \in SUBSET (1 .. i)
          BY UpToPosition
        <4>2. i \notin UpToBlock(Feed[i].block - 1)
          <5>1. Feed[i].block \in Nat
            BY EventOf
          <5> QED BY <5>1 DEF UpToBlock
        <4>3. i \in Nat /\ 1 .. i - 1 = (1 .. i) \ {i}
          BY FeedAssumption
        <4> HIDE DEF S
        <4> QED BY <3>1, <4>1, <4>2, <4>3
      <3>3. ExactFor(exec.nonces, {}, i - 1)
        BY <1>1, <3>1, <3>2 DEF ExactFor, SkippedIn, CommittedNonces
      <3> QED BY <3>1, <3>3
    <2>2. CASE E # << >>
      <3>1. ExactFor(exec.nonces, SoFarOfBlock(Feed[i - 1]), i - 1)
        BY <1>2, <2>2 DEF NonceInv
      <3> QED BY <1>2, <2>2, <3>1
    <2> QED BY <2>1, <2>2
  <1> HIDE DEF S
  <1>4. PICK Q : ExactFor(exec.nonces, Q, i - 1) /\ S = Q \cup {i}
    BY <1>3
  <1>5. ExactFor(FoldLeft(Transact, exec.nonces, Event(Feed[i]).txs), Q \cup {i}, i)
    BY <1>4, FlashblockExact
  <1> QED BY <1>4, <1>5 DEF S

\* Executing keeps the nonces numbers, whatever the overlay.
LEMMA ExecuteTyped ==
  ASSUME NEW N \in Nonces, NEW e \in Events
  PROVE  FoldLeft(Transact, N, e.txs) \in Nonces
  <1>1. PICK i \in 1 .. Len(Feed) : e = Event(Feed[i])
    BY DEF Events
  <1> DEFINE s == Feed[i].txs
             n == Len(s)
             D == Range(s)
  <1>2. /\ n \in Nat /\ DOMAIN s = 1 .. n /\ \A k \in 1 .. n : s[k] \in D
        /\ \A x \in D : x.sender \in Senders
    BY TxsOfFeed
  <1>3. e.txs = FoldLeft(PushDecoded, << >>, s)
    BY <1>1, EventTxs
  <1> HIDE DEF s, n, D
  <1>4. PICK tr : TxsTrace(tr, << >>, s, n, Seq(D)) /\ FoldLeft(PushDecoded, << >>, s) = tr[n]
    BY <1>2, FoldPushDecoded
  <1>5. e.txs \in Seq(D)
    BY <1>2, <1>3, <1>4 DEF TxsTrace
  <1> DEFINE u == e.txs
             m == Len(u)
  <1>6. m \in Nat /\ DOMAIN u = 1 .. m /\ \A k \in 1 .. m : u[k].sender \in Senders
    BY <1>2, <1>5
  <1> HIDE DEF u, m
  <1>7. PICK ur : NonceTrace(ur, N, u, m) /\ FoldLeft(Transact, N, u) = ur[m]
    BY <1>6, FoldTransact
  <1>8. FoldLeft(Transact, N, u) \in Nonces
    BY <1>6, <1>7 DEF NonceTrace
  <1> QED BY <1>8 DEF u

LEMMA EndsInAppend ==
  ASSUME NEW E \in Seq(Events), NEW e \in Events, EndsIn(E),
         E # << >> => Precedes(Last(E), e)
  PROVE  EndsIn(Append(E, e))
  <1> DEFINE u == Append(E, e)
  <1>1. /\ DOMAIN u = 1 .. Len(E) + 1 /\ DOMAIN E = 1 .. Len(E) /\ Len(E) \in Nat
        /\ \A k \in DOMAIN E : u[k] = E[k]
        /\ u[Len(E) + 1] = e /\ Last(u) = e
    BY AppendTo
  <1> HIDE DEF u
  <1>2. ASSUME NEW k \in 1 .. Len(E) PROVE Precedes(E[k], e)
    <2>1. E # << >> /\ E[k] \in Events /\ Last(E) \in Events
      BY <1>1 DEF Last
    <2>2. E[k] = Last(E) \/ Precedes(E[k], Last(E))
      BY <1>1 DEF EndsIn
    <2>3. /\ E[k].block \in Nat /\ E[k].index \in Nat /\ Last(E).block \in Nat
          /\ Last(E).index \in Nat /\ e.block \in Nat /\ e.index \in Nat
      BY <2>1, EventTyped
    <2> QED BY <2>1, <2>2, <2>3 DEF Precedes
  <1>3. \A k \in 1 .. Len(E) + 1 : k \in 1 .. Len(E) \/ k = Len(E) + 1
    BY <1>1
  <1>4. \A k \in 1 .. Len(E) + 1 : u[k] = e \/ Precedes(u[k], e)
    BY <1>1, <1>2, <1>3
  <1>5. EndsIn(u)
    BY <1>1, <1>4 DEF EndsIn
  <1> QED BY <1>5 DEF u

LEMMA ExecuteExactInv ==
  ASSUME ExactInv, Execute PROVE NonceInv' /\ ExactUnlessSkipped'
  <1> DEFINE run == Append(exec.executed, event)
             N == FoldLeft(Transact, exec.nonces, event.txs)
  <1>1. SimulatorInv /\ NonceInv /\ ExactUnlessSkipped
    BY DEF ExactInv
  <1>2. /\ event \in Events /\ exec.ready /\ exec.executed \in Seq(Events)
        /\ exec.executed # << >> => Precedes(Last(exec.executed), event)
    BY <1>1 DEF Execute, CanExecute, SimulatorInv, TypeOK, OrderInv, Holding
  <1>3. PICK i \in 1 .. Len(Feed) : event = Event(Feed[i])
    BY <1>2 DEF Events
  <1>4. /\ exec'.ready = exec.ready /\ exec'.base = exec.base /\ exec'.executed = run
        /\ exec'.nonces = N
    BY <1>1, ExecuteEffect
  <1>5. PICK n : /\ snapshots' = snapshots \cup {n} /\ n.of = event
                 /\ n.state.base = exec.base /\ n.state.executed = run
                 /\ n.state.nonces = N
    BY <1>1, ExecuteEffect
  <1>6. run # << >> /\ Last(run) = event
    BY <1>2, AppendTo
  <1>7. exec.base = Feed[i].block - 1 /\ Whole(run) => ExactFor(N, SoFarOfBlock(Feed[i]), i)
    BY <1>1, <1>2, <1>3, ExecuteExact
  <1>8. N \in Nonces
    BY <1>1, <1>2, ExecuteTyped DEF NonceInv
  <1>9. EndsIn(run)
    BY <1>1, <1>2, EndsInAppend DEF NonceInv
  <1> HIDE DEF run, N
  <1>10. NonceInv'
    <2>1. ASSUME NEW k \in 1 .. Len(Feed), Last(run) = Event(Feed[k]),
                 exec.base = Feed[k].block - 1, Whole(run)
          PROVE  ExactFor(N, SoFarOfBlock(Feed[k]), k)
      <3>1. k = i
        BY <1>3, <1>6, <2>1, EventBefore
      <3> QED BY <1>7, <2>1, <3>1
    <2> QED BY <1>4, <1>6, <1>8, <1>9, <2>1 DEF NonceInv
  <1>11. ASSUME OnParent(n), NEW a \in Senders
         PROVE  IF Skipped(n.of, a) THEN n.state.nonces[a] < ChainNonces(n.of)[a]
                                    ELSE n.state.nonces[a] = ChainNonces(n.of)[a]
    <2>1. event.block = Feed[i].block
      BY <1>3, EventOf
    <2>2. ExactFor(N, SoFarOfBlock(Feed[i]), i)
      BY <1>5, <1>7, <1>11, <2>1 DEF OnParent
    <2>3. Skipped(n.of, a) <=> SkippedIn(SoFarOfBlock(Feed[i]), a)
      BY <1>3, <1>5, UpToPosition DEF Skipped, SkippedIn
    <2>4. ChainNonces(n.of)[a] = NonceAfter(a, 1 .. i)
      BY <1>3, <1>5, UpToPosition DEF ChainNonces
    <2> QED BY <1>5, <2>2, <2>3, <2>4 DEF ExactFor
  <1>12. ExactUnlessSkipped'
    BY <1>1, <1>5, <1>11 DEF ExactUnlessSkipped
  <1> QED BY <1>10, <1>12

LEMMA ExactStep == ExactInv /\ [Next]_vars => ExactInv'
  <1> SUFFICES ASSUME ExactInv, [Next]_vars PROVE ExactInv'
    OBVIOUS
  <1>1. SimulatorInv' /\ NonceInv /\ ExactUnlessSkipped
    BY SimulatorStep DEF ExactInv
  <1>2. CASE UNCHANGED <<exec, snapshots>>
    BY <1>1, <1>2 DEF ExactInv, NonceInv, ExactUnlessSkipped
  <1>3. CASE FinishInitialize
    <2>1. exec' = Initialized(latest, head) /\ UNCHANGED snapshots
      BY <1>3 DEF FinishInitialize
    <2>2. exec'.nonces = CommittedNonces(exec'.base) /\ exec'.executed = << >>
      BY <2>1 DEF Initialized
    <2>3. NonceInv'
      BY <2>2, CommittedTyped DEF NonceInv, EndsIn
    <2> QED BY <1>1, <2>1, <2>3 DEF ExactInv, ExactUnlessSkipped
  <1>4. CASE Execute
    BY <1>1, <1>4, ExecuteExactInv DEF ExactInv
  <1>5. Next => FinishInitialize \/ Execute \/ UNCHANGED <<exec, snapshots>>
    BY DEF Next, Arrive, Miss, Produce, NewHead, Loop, Receive, LogTransactions, KeepState,
           Initialize, ReadLatestState, FailInitialize, FailExecute, SimulateBundle
  <1>6. UNCHANGED vars => UNCHANGED <<exec, snapshots>>
    BY DEF vars
  <1> QED BY <1>2, <1>3, <1>4, <1>5, <1>6

\* The snapshot of a flashblock, when its block is whole on the overlay and the state
\* below is the parent's, has the nonces the chain has after that flashblock; only the
\* senders of a transaction that reverted or did not decode are behind.  For every
\* feed of valid blocks, whatever is lost and whenever the node moves on.
THEOREM SimulatorExactUnlessSkipped == Spec => []ExactUnlessSkipped
  <1>1. Init => ExactInv
    BY SimulatorInit, ExactInit DEF ExactInv
  <1>2. ExactInv => ExactUnlessSkipped
    BY DEF ExactInv
  <1> QED BY <1>1, <1>2, ExactStep, PTL DEF Spec
=============================================================================
