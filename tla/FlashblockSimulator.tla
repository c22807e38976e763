------------------------- MODULE FlashblockSimulator --------------------------
(***************************************************************************)
(* The flashblock simulator task of main.rs: it takes flashblocks from its  *)
(* channel, re-initialises the executor when the block changes, executes,   *)
(* exports a snapshot and hands it to the search workers.                   *)
(***************************************************************************)
EXTENDS FlashblockExecutor

CONSTANTS
  InboxCapacity,    \* flashblock channel, 100 in main.rs
  Losses            \* whether the feed may miss flashblocks (reconnects, lag)

ASSUME SimulatorAssumption == InboxCapacity \in Nat \ {0} /\ Losses \in BOOLEAN

VARIABLES
  produced,     \* how many flashblocks of Feed the sequencer has made
  inbox,        \* flashblock_rx
  head,         \* the block the node's provider is at
  pc,           \* where the simulator loop is
  event,        \* the flashblock in hand, << >> for none
  initialized,  \* revm_initialized
  currentBlock, \* current_block of the loop
  latest,       \* the block whose state initialize() has read
  exec,         \* revm_executor
  failed,       \* the blocks for which initialize() has failed
  snapshots     \* the snapshots handed to the workers, with their flashblock

outside == <<produced, inbox, head>>
vars == <<outside, pc, event, initialized, currentBlock, latest, exec, failed, snapshots>>

Events == {Event(Feed[i]) : i \in 1 .. Len(Feed)}
LastBlock == Feed[Len(Feed)].block

TypeOK ==
  /\ produced \in 0 .. Len(Feed)
  /\ inbox \in Seq(Events) /\ Len(inbox) <= InboxCapacity
  /\ head \in 0 .. LastBlock
  /\ pc \in {"recv", "log", "prepare", "initialize", "execute", "bundle"}
  /\ event \in Events \cup {<< >>}
  /\ initialized \in BOOLEAN
  /\ currentBlock \in 0 .. LastBlock /\ latest \in 0 .. LastBlock
  /\ exec.ready \in BOOLEAN /\ exec.base \in 0 .. LastBlock /\ exec.block \in 0 .. LastBlock
  /\ exec.executed \in Seq(Events)
  /\ failed \subseteq 0 .. LastBlock

Init ==
  /\ produced = 0 /\ inbox = << >> /\ head = 0
  /\ pc = "recv" /\ event = << >>
  /\ initialized = FALSE /\ currentBlock = 0 /\ latest = 0
  /\ exec = NotReady
  /\ failed = {} /\ snapshots = {}

-----------------------------------------------------------------------------
(* The feed and the node.                                                    *)

Produce ==
  /\ produced < Len(Feed)
  /\ produced' = produced + 1
  /\ UNCHANGED <<head, pc, event, initialized, currentBlock, latest, exec, failed, snapshots>>

\* Faulty variant: the channel has no bound.
ArriveUnbounded == Produce /\ inbox' = Append(inbox, Event(Feed[produced + 1]))

\* The forwarder's send waits while the channel is full.
Arrive ==
  /\ Produce
  /\ Len(inbox) < InboxCapacity
  /\ inbox' = Append(inbox, Event(Feed[produced + 1]))

Miss == Losses /\ Produce /\ UNCHANGED inbox

\* The node imports a block when the sequencer has made all of it.
NewHead ==
  /\ head < LastBlock
  /\ \A i \in (produced + 1) .. Len(Feed) : Feed[i].block > head + 1
  /\ head' = head + 1
  /\ UNCHANGED <<produced, inbox, pc, event, initialized, currentBlock, latest, exec,
                 failed, snapshots>>

-----------------------------------------------------------------------------
(* The loop.                                                                 *)

\* Faulty variant: the newest flashblock first.
ReceiveNewest ==
  /\ pc = "recv" /\ inbox # << >>
  /\ event' = Last(inbox) /\ inbox' = Front(inbox)
  /\ pc' = "log"
  /\ UNCHANGED <<produced, head, initialized, currentBlock, latest, exec, failed, snapshots>>

Receive ==
  /\ pc = "recv" /\ inbox # << >>
  /\ event' = Head(inbox) /\ inbox' = Tail(inbox)
  /\ pc' = "log"
  /\ UNCHANGED <<produced, head, initialized, currentBlock, latest, exec, failed, snapshots>>

\* Waits for the timing tracker and for the database channel; an error is logged.
LogTransactions ==
  /\ pc = "log"
  /\ pc' = "prepare"
  /\ UNCHANGED <<outside, event, initialized, currentBlock, latest, exec, failed, snapshots>>

Continue == pc' = "recv" /\ event' = << >>

\* Faulty variants: only the first flashblock, or every one, initialises.
MustInitializeOnce == ~initialized
MustInitializeAlways == TRUE

MustInitialize == ~initialized \/ event.block # currentBlock

KeepState ==
  /\ pc = "prepare" /\ ~MustInitialize
  /\ pc' = "execute"
  /\ UNCHANGED <<outside, event, initialized, currentBlock, latest, exec, failed, snapshots>>

\* current_block moves before initialize() is called; its first read is the latest
\* state.
ReadLatestState ==
  /\ pc = "prepare" /\ MustInitialize
  /\ currentBlock' = event.block
  /\ latest' = head
  /\ pc' = "initialize"
  /\ UNCHANGED <<outside, event, initialized, exec, failed, snapshots>>

\* Faulty variant: the number is read before the state.
FinishInitializeSwapped ==
  /\ pc = "initialize"
  /\ exec' = Initialized(head, latest)
  /\ initialized' = TRUE
  /\ pc' = "execute"
  /\ UNCHANGED <<outside, event, currentBlock, latest, failed, snapshots>>

\* Its second read names the best block, which may be a later one by now.
FinishInitialize ==
  /\ pc = "initialize"
  /\ exec' = Initialized(latest, head)
  /\ initialized' = TRUE
  /\ pc' = "execute"
  /\ UNCHANGED <<outside, event, currentBlock, latest, failed, snapshots>>

\* latest(), best_block_number() or the header fails: the flashblock is skipped, the
\* executor and revm_initialized stay what they were.
FailInitialize ==
  /\ pc = "initialize"
  /\ Continue
  /\ failed' = failed \cup {event.block}
  /\ UNCHANGED <<outside, initialized, currentBlock, latest, exec, snapshots>>

\* Execution, export and the spawning of the workers do not wait for anything.
Execute ==
  /\ pc = "execute" /\ CanExecute(exec, event)
  /\ exec' = Executed(exec, event)
  /\ snapshots' = snapshots \cup {[of |-> event, state |-> Snapshot(exec', event)]}
  /\ IF event.index = 10 /\ event.txs # << >>
       THEN pc' = "bundle" /\ UNCHANGED event
       ELSE Continue
  /\ UNCHANGED <<outside, initialized, currentBlock, latest, failed>>

FailExecute ==
  /\ pc = "execute" /\ ~CanExecute(exec, event)
  /\ Continue
  /\ UNCHANGED <<outside, initialized, currentBlock, latest, exec, failed, snapshots>>

\* simulate_bundle() on the last flashblock commits nothing.
SimulateBundle ==
  /\ pc = "bundle"
  /\ Continue
  /\ UNCHANGED <<outside, initialized, currentBlock, latest, exec, failed, snapshots>>

-----------------------------------------------------------------------------
Initialize == ReadLatestState \/ FinishInitialize \/ FailInitialize

Loop ==
  Receive \/ LogTransactions \/ KeepState \/ Initialize \/ Execute \/ FailExecute
    \/ SimulateBundle

Next == Arrive \/ Miss \/ NewHead \/ Loop

Spec == Init /\ [][Next]_vars

-----------------------------------------------------------------------------
(* Properties.                                                               *)

Consecutive(s) == \A i \in 1 .. Len(s) - 1 : Precedes(s[i], s[i + 1])

\* The overlay is built from flashblocks in chain order, none twice, and ends with
\* the one the snapshot is exported for, whatever was lost or failed on the way.
ExecutedInOrder ==
  \A n \in snapshots :
    /\ Consecutive(n.state.executed)
    /\ Last(n.state.executed) = n.of

\* The two reads of initialize() are not atomic, but a snapshot never claims a block
\* older than the state under it, nor one the node had not reached.
BaseNotAheadOfNumber ==
  \A n \in snapshots :
    n.state.base <= n.state.block_number /\ n.state.block_number <= head

\* When every flashblock of the block arrived and the state below it was that of
\* its parent, the snapshot has the chain's own nonces after that flashblock, but
\* for the senders one of whose transactions reverted or was not decoded: they stay
\* behind, because what they sent later no longer has the nonce of the account, and
\* nobody else is disturbed.
SoFarOfBlock(f) == UpTo(f) \ UpToBlock(f.block - 1)

Whole(s) == Range(s) = {Event(Feed[i]) : i \in SoFarOfBlock(Last(s))}

OnParent(n) == n.state.base = n.of.block - 1 /\ Whole(n.state.executed)

SkippedTx(tx, a) == tx.sender = a /\ ~(tx.success /\ tx.decodes)

Skipped(of, a) ==
  \E i \in SoFarOfBlock(of) : \E j \in DOMAIN Feed[i].txs : SkippedTx(Feed[i].txs[j], a)

ExactUnlessSkipped ==
  \A n \in snapshots : OnParent(n) =>
    \A a \in Senders :
      IF Skipped(n.of, a)
        THEN n.state.nonces[a] < ChainNonces(n.of)[a]
        ELSE n.state.nonces[a] = ChainNonces(n.of)[a]

\* All the snapshots of a block stand on one state and carry one number, also when
\* the node moves on in the middle of it or an initialisation failed: the handler's
\* claims, keyed by that number, do not start afresh within a block.
OneBasePerBlock ==
  \A m, n \in snapshots : m.of.block = n.of.block =>
    m.state.base = n.state.base /\ m.state.block_number = n.state.block_number

OneBlock(n) ==
  \A i \in 1 .. Len(n.state.executed) : n.state.executed[i].block = n.of.block

\* An overlay mixes two blocks only when the initialisation of its block failed
\* before: nothing else, neither losses nor a node that moves on, carries the
\* state of one block into the next.
MixedOnlyAfterFailure == \A n \in snapshots : OneBlock(n) \/ n.of.block \in failed

\* main.rs:461 "Re-initialize for new block if needed": the overlay of a snapshot
\* holds flashblocks of one block only.
OneBlockPerOverlay == \A n \in snapshots : OneBlock(n)
=============================================================================
