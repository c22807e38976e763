---------------------------- MODULE MevTaskWorker ----------------------------
(***************************************************************************)
(* The search workers.  After every flashblock the simulator exports a      *)
(* snapshot of the accounts its overlay holds, picks the backrun            *)
(* configurations the snapshot triggers, and spawns one worker for each.    *)
(* A worker opens a state provider of its own on the node's latest state,   *)
(* lays the snapshot over it, searches, and sends what it finds to the      *)
(* opportunity handler.                                                     *)
(*                                                                         *)
(* The state of an address is abstracted to the position in the feed of the *)
(* flashblock that wrote it last, 0 if none did.  The simulator is that of  *)
(* FlashblockSimulator, with its losses and failures, as far as the workers *)
(* see it: its channel and the steps that nobody observes are left out, and  *)
(* a flashblock touches the same accounts on any overlay: the transactions   *)
(* that an overlay makes invalid are FlashblockSimulator's subject.          *)
(***************************************************************************)
EXTENDS Naturals, Sequences, FiniteSets, FiniteSetsExt

CONSTANTS
  Feed,             \* the flashblocks: [block, index, reads, writes, oracle]
  Addresses,
  Watches,          \* the accounts and tokens of each backrun configuration
  Checked,          \* the configurations with a check_balance_of
  Gases,            \* what a simulation may cost
  Balances,         \* what a balance check may return
  Profits,          \* the deltas an optimizer may report
  BotAccounts,      \* what the node may know of the bot's account
  ChannelCapacity   \* mev_result channel, 1000 in main.rs

Configs   == DOMAIN Watches
Positions == DOMAIN Feed
Workers   == Positions \X Configs
LastBlock == Feed[Len(Feed)].block

ASSUME WorkerAssumption ==
  /\ Feed \in Seq(Range(Feed)) /\ Feed # << >>
  /\ \A p, q \in Positions : p <= q => Feed[p].block <= Feed[q].block
  /\ \A p \in Positions : /\ Feed[p].block \in Nat \ {0}
                          /\ Feed[p].reads \cup Feed[p].writes \subseteq Addresses
                          /\ Feed[p].oracle \in BOOLEAN
  /\ \A c \in Configs : Watches[c] \subseteq Addresses
  /\ Checked \subseteq Configs
  /\ Gases \subseteq Nat /\ Balances \subseteq Nat /\ Profits \subseteq Nat \ {0}
  /\ BotAccounts \subseteq {"missing", "poor", "rich"}
  /\ ChannelCapacity \in Nat \ {0}

VARIABLES
  head,       \* provider.best_block_number(), and the block of provider.latest()
  bot,        \* the bot's account in the node's state
  position,   \* flashblocks that are behind the simulator, lost ones included
  initialized,    \* revm_initialized
  currentBlock,   \* current_block of its loop
  initializing,   \* initialize() has read the latest state, not yet the best block
  latest,     \* the block of that state
  exec,       \* its executor
  snapshot,   \* the snapshot it exported for each flashblock
  stage,      \* where each worker is
  seen,       \* the block of the latest state each worker has open, or 0
  holding,    \* the opportunity each worker is sending
  channel     \* mev_result channel to the handler

node      == <<head, bot>>
simulator == <<position, initialized, currentBlock, initializing, latest, exec, snapshot>>
workers   == <<stage, seen, holding>>
vars == <<node, simulator, workers, channel>>

Stages == {"none", "spawned", "searching", "sending", "ended"}
Opportunity(w, p, g, v) ==
  [worker |-> w, block |-> snapshot[w[1]].number, strategy |-> w[2], profit |-> p,
   gas |-> g, value |-> v]

-----------------------------------------------------------------------------
(* States of the chain.                                                      *)

LastWrite(a, Q) == Max({q \in Q : a \in Feed[q].writes} \cup {0})

\* The node's state after block h, and the state after the flashblock at p.
Committed(h) == [a \in Addresses |-> LastWrite(a, {q \in Positions : Feed[q].block <= h})]
Exact(p)     == [a \in Addresses |-> LastWrite(a, 1 .. p)]

\* Faulty variant: the node's state hides what the snapshot holds.
OverlaidUnderneath(changes, h) ==
  [a \in Addresses |-> IF Committed(h)[a] > 0 \/ a \notin DOMAIN changes
                         THEN Committed(h)[a] ELSE changes[a]]

\* apply_state_snapshot(): a CacheDB answers from its accounts first.
Overlaid(changes, h) ==
  [a \in Addresses |-> IF a \in DOMAIN changes THEN changes[a] ELSE Committed(h)[a]]

-----------------------------------------------------------------------------
(* The simulator.                                                            *)

NewHead ==
  /\ head < LastBlock
  /\ head' = head + 1
  /\ UNCHANGED <<bot, simulator, workers, channel>>

Touched(p) == Feed[p].reads \cup Feed[p].writes

\* Faulty variant: oracle updates are not looked for.
TriggeredWithoutOracle(p, affected) == {c \in Configs : Watches[c] \cap affected # {}}

\* analyze_state_for_backrun(): a configuration with a watched address among the
\* accounts of the snapshot, or every one after an oracle update.
Triggered(p, affected) ==
  IF Feed[p].oracle THEN Configs ELSE {c \in Configs : Watches[c] \cap affected # {}}

\* The flashblock the simulator is at.
Coming == position + 1

\* initialize(): an empty CacheDB over the state read, and the number read after it.
\* `executed` are the flashblocks the overlay holds.
Initialized(state, best) == [base |-> state, number |-> best, changes |-> << >>, executed |-> {}]

MustInitialize == ~initialized \/ Feed[Coming].block # currentBlock

\* A flashblock is lost between the sequencer and the simulator.
Miss ==
  /\ Coming \in Positions /\ ~initializing
  /\ position' = Coming
  /\ UNCHANGED <<node, initialized, currentBlock, initializing, latest, exec, snapshot,
                 workers, channel>>

\* initialize() reads the latest state first, and the best block afterwards.
ReadLatestState ==
  /\ Coming \in Positions /\ MustInitialize /\ ~initializing
  /\ currentBlock' = Feed[Coming].block
  /\ initializing' = TRUE /\ latest' = head
  /\ UNCHANGED <<node, position, initialized, exec, snapshot, workers, channel>>

\* A read of initialize() fails: the flashblock is skipped, the executor stays.
FailInitialize ==
  /\ initializing
  /\ initializing' = FALSE /\ position' = Coming
  /\ UNCHANGED <<node, initialized, currentBlock, latest, exec, snapshot, workers, channel>>

\* The executor for the flashblock.
Ready ==
  /\ Coming \in Positions /\ (MustInitialize => initializing)
  /\ initializing' = FALSE /\ initialized' = TRUE /\ position' = Coming
  /\ UNCHANGED <<node, currentBlock, latest, seen, holding, channel>>

Executor == IF initializing THEN Initialized(latest, head) ELSE exec

\* A transaction cannot be converted: nothing is executed, no snapshot is exported.
FailExecute == Ready /\ exec' = Executor /\ UNCHANGED <<snapshot, stage>>

\* The overlay keeps every account it loaded.
Executed(x, p) ==
  [base |-> x.base, number |-> x.number, executed |-> x.executed \cup {p},
   changes |-> [a \in Touched(p) \cup DOMAIN x.changes |->
                  IF a \in Feed[p].writes THEN p ELSE Overlaid(x.changes, x.base)[a]]]

\* The flashblock is executed, the snapshot takes all accounts of the overlay, and one
\* worker is spawned per configuration that it triggers.
Execute ==
  /\ Ready
  /\ exec' = Executed(Executor, Coming)
  /\ snapshot' = [snapshot EXCEPT ![Coming] = exec']
  /\ stage' = [w \in Workers |->
                 IF w[1] = Coming /\ w[2] \in Triggered(Coming, DOMAIN exec'.changes)
                   THEN "spawned" ELSE stage[w]]

-----------------------------------------------------------------------------
(* A worker w = <<p, c>> searches the snapshot at p for the configuration c. *)

Goto(w, s) == stage' = [stage EXCEPT ![w] = s]
DropState(w) == seen' = [seen EXCEPT ![w] = 0]

\* provider.latest(), which holds one read transaction until the worker ends; the
\* header of the best block is then read for its presence only.
OpenLatest(w) ==
  /\ stage[w] = "spawned"
  /\ Goto(w, "searching")
  /\ seen' = [seen EXCEPT ![w] = head]
  /\ UNCHANGED <<node, simulator, holding, channel>>

\* Any `?` of execute(): no state, no header, or the contract cannot be read.
Fail(w) ==
  /\ stage[w] \in {"spawned", "searching"}
  /\ Goto(w, "ended") /\ DropState(w)
  /\ UNCHANGED <<node, simulator, holding, channel>>

\* No contract, a contract without code, no profit, or an optimizer error.
FindNothing(w) ==
  /\ stage[w] = "searching"
  /\ Goto(w, "ended") /\ DropState(w)
  /\ UNCHANGED <<node, simulator, holding, channel>>

DefaultGas   == 200000
DefaultBribe == 500

\* simulate_transaction() with value 0: a missing sender is funded, an existing
\* one is not, whatever its balance, and a poor one cannot pay gas_limit * gas_price.
GasUsed == IF bot = "poor" THEN {DefaultGas} ELSE Gases \cup {DefaultGas}

\* The bottom 16 bits of the checked balance, 500 without a check or on an error.
BribeRates(c) ==
  {DefaultBribe} \cup (IF c \in Checked THEN {b % 65536 : b \in Balances} ELSE {})

\* ((gas_cost / 10) << 16) | bribe_rate
EncodeTransactionValue(gas, rate) == (gas \div 10) * 65536 + rate

\* The opportunities w can make of its snapshot.
Finds(w) ==
  {Opportunity(w, p, g, EncodeTransactionValue(g, r)) :
     p \in Profits, g \in GasUsed, r \in BribeRates(w[2])}

\* Faulty variant: the opportunity is numbered by the state the worker opened.
FindNumberedByLatest(w) ==
  /\ stage[w] = "searching"
  /\ \E o \in Finds(w) : holding' = [holding EXCEPT ![w] = {[o EXCEPT !.block = seen[w]]}]
  /\ Goto(w, "sending") /\ DropState(w)
  /\ UNCHANGED <<node, simulator, channel>>

\* Faulty variant: the opportunity is numbered by the block of the flashblock.
FindNumberedByFeed(w) ==
  /\ stage[w] = "searching"
  /\ \E o \in Finds(w) : holding' = [holding EXCEPT ![w] = {[o EXCEPT !.block = Feed[w[1]].block]}]
  /\ Goto(w, "sending") /\ DropState(w)
  /\ UNCHANGED <<node, simulator, channel>>

\* A positive delta: gas and balance are measured and the bundle is made.
Find(w) ==
  /\ stage[w] = "searching"
  /\ \E o \in Finds(w) : holding' = [holding EXCEPT ![w] = {o}]
  /\ Goto(w, "sending") /\ DropState(w)
  /\ UNCHANGED <<node, simulator, channel>>

\* Faulty variants: a send that never waits, and one that leaves a slot free.
SendUnbounded(w) ==
  /\ stage[w] = "sending"
  /\ \E o \in holding[w] : channel' = Append(channel, o)
  /\ holding' = [holding EXCEPT ![w] = {}]
  /\ Goto(w, "ended")
  /\ UNCHANGED <<node, simulator, seen>>
SendLeavingOneFree(w) ==
  /\ stage[w] = "sending"
  /\ Len(channel) + 1 < ChannelCapacity
  /\ \E o \in holding[w] : channel' = Append(channel, o)
  /\ holding' = [holding EXCEPT ![w] = {}]
  /\ Goto(w, "ended")
  /\ UNCHANGED <<node, simulator, seen>>

\* result_tx.send(opportunity).await
Send(w) ==
  /\ stage[w] = "sending"
  /\ Len(channel) < ChannelCapacity
  /\ \E o \in holding[w] : channel' = Append(channel, o)
  /\ holding' = [holding EXCEPT ![w] = {}]
  /\ Goto(w, "ended")
  /\ UNCHANGED <<node, simulator, seen>>

-----------------------------------------------------------------------------

Init ==
  /\ head \in 0 .. 1
  /\ bot \in BotAccounts
  /\ position = 0 /\ initialized = FALSE /\ currentBlock = 0
  /\ initializing = FALSE /\ latest = 0
  /\ exec = Initialized(0, 0) /\ snapshot = [p \in Positions |-> Initialized(0, 0)]
  /\ stage = [w \in Workers |-> "none"]
  /\ seen = [w \in Workers |-> 0]
  /\ holding = [w \in Workers |-> {}]
  /\ channel = << >>

-----------------------------------------------------------------------------
(* What a worker may rely on.                                                *)

Opened(w) == stage[w] = "searching"
View(w)   == Overlaid(snapshot[w[1]].changes, seen[w])
Numbers   == 0 .. LastBlock

\* Variables have their types, and the channel keeps to its capacity.
TypeOK ==
  /\ head \in Numbers
  /\ bot \in BotAccounts
  /\ position \in 0 .. Len(Feed)
  /\ initialized \in BOOLEAN /\ initializing \in BOOLEAN
  /\ currentBlock \in Numbers /\ latest \in Numbers
  /\ exec.base \in Numbers /\ exec.number \in Numbers
  /\ DOMAIN exec.changes \subseteq Addresses /\ exec.executed \subseteq Positions
  /\ stage \in [Workers -> Stages]
  /\ seen \in [Workers -> Numbers]
  /\ \A w \in Workers : Cardinality(holding[w]) = (IF stage[w] = "sending" THEN 1 ELSE 0)
  /\ Len(channel) <= ChannelCapacity

\* The flashblocks of a block up to the one at p.
SoFarOfBlock(p) == {q \in 1 .. p : Feed[q].block = Feed[p].block}

\* A worker searches the state after its flashblock: provided that all of its block
\* was executed and that the node had the parent block when initialize() read its state
\* (the number the snapshot carries is read later and does not tell), no address is
\* older than that, and one is newer only if the node has imported the block itself
\* meanwhile (apply_state_snapshot over a later provider.latest()).
OnParent(p) ==
  snapshot[p].base + 1 >= Feed[p].block /\ SoFarOfBlock(p) \subseteq snapshot[p].executed

ViewIsExactOrNewer ==
  \A w \in Workers : Opened(w) /\ OnParent(w[1]) =>
    \A a \in Addresses :
      /\ View(w)[a] >= Exact(w[1])[a]
      /\ View(w)[a] # Exact(w[1])[a] => seen[w] >= Feed[w[1]].block

\* A configuration is searched after a flashblock exactly if the flashblock was
\* executed and updates an oracle, or if one that the overlay holds touched a watched
\* address: nothing that was executed since the overlay was set up is forgotten.
SearchedWhenTouched ==
  \A w \in Workers :
    LET overlaid == snapshot[w[1]].executed
    IN stage[w] # "none" <=> \/ Feed[w[1]].oracle /\ w[1] \in overlaid
                             \/ \E q \in overlaid : Watches[w[2]] \cap Touched(q) # {}
=============================================================================
