-------------------------- MODULE FlashblockExecutor --------------------------
(***************************************************************************)
(* RevmFlashblockExecutor as operators on its state.  Of the EVM state the  *)
(* nonces of the senders are kept: they decide which transactions of a      *)
(* flashblock can execute at all, and so what the exported snapshot holds.  *)
(*                                                                          *)
(* A flashblock is [block, index, txs]; a transaction is [sender, nonce,    *)
(* success, signed, decodes]: whether the EVM ends it with Success, whether *)
(* its signer can be recovered, and whether the client can read it: it      *)
(* reads neither deposits (0x7e) nor bytes that are no TxEnvelope.          *)
(***************************************************************************)
EXTENDS Naturals, Sequences, FiniteSets, SequencesExt

CONSTANTS
  Feed,       \* the flashblocks of the chain, in order
  Senders

\* The order of the chain.
Precedes(f, g) == f.block < g.block \/ (f.block = g.block /\ f.index < g.index)

ASSUME FeedAssumption ==
  /\ Senders # {}
  /\ Len(Feed) \in Nat \ {0}
  /\ \A i, j \in 1 .. Len(Feed) : i < j => Precedes(Feed[i], Feed[j])
  /\ \A i \in 1 .. Len(Feed) :
       /\ Feed[i] = [block |-> Feed[i].block, index |-> Feed[i].index, txs |-> Feed[i].txs]
       /\ Feed[i].block \in Nat \ {0} /\ Feed[i].index \in Nat
       /\ Feed[i].txs \in Seq(Range(Feed[i].txs))
       /\ \A j \in DOMAIN Feed[i].txs :
            /\ Feed[i].txs[j].sender \in Senders
            /\ Feed[i].txs[j].success \in BOOLEAN /\ Feed[i].txs[j].decodes \in BOOLEAN

\* The transactions of s in the flashblocks at the positions P, as <<flashblock,
\* transaction>>, and those before the transaction at <<i, j>>.
SentBy(s, P) == UNION {{i} \X {j \in DOMAIN Feed[i].txs : Feed[i].txs[j].sender = s} : i \in P}

SentBefore(s, i, j) ==
  SentBy(s, 1 .. i - 1) \cup {t \in SentBy(s, {i}) : t[2] < j}

\* The account nonce of s on the chain after the flashblocks at the positions P: a
\* transaction of a flashblock consumes its nonce whether it succeeds or reverts.
NonceAfter(s, P) == Cardinality(SentBy(s, P))

\* The sequencer builds valid blocks: a transaction has the nonce of its sender.
ASSUME NonceAssumption ==
  \A i \in 1 .. Len(Feed) : \A j \in DOMAIN Feed[i].txs :
    LET tx == Feed[i].txs[j] IN tx.nonce = Cardinality(SentBefore(tx.sender, i, j))

UpToBlock(n) == {i \in 1 .. Len(Feed) : Feed[i].block <= n}
UpTo(g) ==
  {i \in 1 .. Len(Feed) : \/ Feed[i].block < g.block
                          \/ Feed[i].block = g.block /\ Feed[i].index <= g.index}

CommittedNonces(n) == [s \in Senders |-> NonceAfter(s, UpToBlock(n))]
ChainNonces(g)     == [s \in Senders |-> NonceAfter(s, UpTo(g))]

\* Faulty variant: deposits are taken like any other transaction.
EventOfAll(f) == f

\* process_payload(): the event of a flashblock holds the transactions that decode,
\* pushed one after the other.
PushDecoded(txs, tx) == IF tx.decodes THEN Append(txs, tx) ELSE txs

Event(f) == [f EXCEPT !.txs = FoldLeft(PushDecoded, << >>, @)]

\* cache_db: None, evm_env: None, current_block: None.
NotReady == [ready |-> FALSE, base |-> 0, block |-> 0,
             nonces |-> CommittedNonces(0), executed |-> << >>]

\* initialize(): an empty overlay over the state the provider returned, and the
\* number the provider named afterwards.  `base` and `executed` are what the cache
\* was built from: the code keeps them only as the contents of the cache.
Initialized(base, number) ==
  [ready |-> TRUE, base |-> base, block |-> number,
   nonces |-> CommittedNonces(base), executed |-> << >>]

\* One transaction: the EVM refuses a nonce that is not the account's, and only
\* the state of a successful execution is committed.
Transact(nonces, tx) ==
  IF tx.nonce = nonces[tx.sender] /\ tx.success
    THEN [nonces EXCEPT ![tx.sender] = @ + 1]
    ELSE nonces

\* execute_flashblock() converts every transaction before it executes the first.
Convertible(f) == \A j \in 1 .. Len(f.txs) : f.txs[j].signed

CanExecute(x, f) == x.ready /\ Convertible(f)

\* Faulty variant: the overlay of the earlier flashblocks is not kept.
ExecutedAlone(x, f) ==
  [x EXCEPT !.nonces = FoldLeft(Transact, CommittedNonces(x.base), f.txs),
            !.executed = Append(@, f)]

Executed(x, f) ==
  [x EXCEPT !.nonces = FoldLeft(Transact, @, f.txs),
            !.executed = Append(@, f)]

\* export_state_snapshot().
Snapshot(x, f) ==
  [block_number |-> x.block, flashblock_index |-> f.index,
   nonces |-> x.nonces, transactions |-> f.txs,
   base |-> x.base, executed |-> x.executed]
=============================================================================
