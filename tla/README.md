# Verification of mev-base

mev-base is a Base (OP-stack) node with a searcher inside: it listens to the sequencer's
flashblocks, executes them ahead of the block, looks for backruns in the resulting state,
and submits the best ones to the sequencer.  This directory models that pipeline in TLA+,
checks it with TLC on small instances, and proves part of it with TLAPS for every instance.

All paths below are relative to `src/crates/mev-base/src/`.

## 1. The system

```
 sequencer ==WebSocket==> FlashblocksClient --mailbox 100--> actor --broadcast 4096--> forwarder
                                                                                     |  channel 100
                          PostgreSQL <--actor-- channel 1000 <--- simulator task <---+
                                                                 |  executor (CacheDB overlay)
                                                                 |  snapshot
                                                                 v
                                       one search worker per triggered configuration
                                                                 |  mev_result channel 1000
                                                                 v
                              opportunity handler: claim set, semaphore of 5, timeout 10 s
                                                                 |  one task per opportunity
                                                                 v
                        TransactionService -> WalletService, SequencerService -> sequencer (HTTP)
                                                                              -> Redis (detached)
```

Everything runs as tokio tasks of one process.  Nothing but the transaction log is persisted.

| component | state | operations | hard behaviour | what makes it correct |
|---|---|---|---|---|
| Opportunity handler (`main.rs` 263-393) | `submitted_txs`, semaphore, loop and tasks | receive, staleness, claim, threshold, spawn; the task's three arms | tasks give keys back while the loop claims; the timeout races the answer; the loop waits for a permit | one attempt per (block, processor) at a time, none after a success; permits conserved; every opportunity decided |
| Transaction service (`transaction_service.rs`) | configuration | `process_opportunity` | concurrent calls read one nonce | sends at most once; Ok means answered; one pending transaction per wallet |
| Wallet service (`wallet_service.rs`) | `wallet_index` | `get_next_wallet` | concurrent round robin | the index stays in range (type invariant) |
| Sequencer service (`sequencer_service.rs`) | `redis_conn` behind a lock | `send_transaction` and its detached broadcast | a hanging publish holds the lock; `?` leaves the broadcast behind; "already known" is success | calls and broadcasts end |
| Flashblock executor (`revm_flashblock_executor.rs`) | CacheDB overlay, `current_block` | `initialize`, `execute_flashblock`, `simulate_bundle`, `export_state_snapshot` | two reads of the node that are not atomic; reverted, undecodable and unrecoverable transactions | the snapshot equals the chain's state unless something was skipped |
| Simulator task (`main.rs` 395-582) | `current_block`, `revm_initialized` | one iteration per flashblock | failed initialisation, lost flashblocks, a node that moves on | one base and one number per block; order |
| Client and forwarder (`flashblocks.rs`, `main.rs` 138-161) | socket, mailbox, broadcast ring, channel | connect, back off, read, publish, forward | disconnects, lag of the ring | order; no gap after the broadcast; orderly end |
| Search workers (`mev_task_worker.rs`) | one provider and overlay each | open, overlay, search, measure, send | they run at any time while the node moves | the state searched is that of the flashblock or newer; one submission per block and strategy |
| Strategy analysis (`backrun_analyzer.rs`, `mev_search_worker.rs`) | configurations | which ones a snapshot triggers | account changes accumulate within a block | searched exactly when touched |
| Fast gradient optimizer (`gradient_descent_fast.rs`) | bounds, windows, budget, best | `optimize_quantity` | truncating divisions at the bounds, word widths | within bounds and budget; the result is one the contract stated |
| Full and parallel optimizers (`gradient_descent.rs`, `gradient_descent_parallel.rs`) | grid, hotspots, window, budget, best | `optimize_quantity` and its batches | windows that turn inside out, threads that return in any order | quantities fit in the calldata; the search ends; the result is one the contract stated |
| Database service (`database_service.rs`) | channel, pool, transaction | `log_transactions`, the actor | backpressure, failure between rows, replays | atomic ordered batches; no duplicates |
| Start-up (`main.rs` 60-260) | - | configuration, spawning | order of fallible steps | not modelled |

The components interact by four channels (flashblocks, mailbox, results, database), one
broadcast ring, shared memory (`submitted_txs`, `wallet_index`, `redis_conn`) and by
reading the node through `provider.latest()` and `best_block_number()`, which are separate
reads of something that moves.

## 2. Modules and how they correspond to the code

| module | models | state | notes |
|---|---|---|---|
| `OpportunityHandler` | the handler loop and its tasks | `channel` = `mev_result_rx`, `submitted`, `permits`, `task` per opportunity, `pc`/`current` the loop, `network`/`delivered` what left and what arrived | each action ends where another task may interleave: the awaits of `recv`, `acquire_owned` and `process_opportunity`, and the shared set |
| `ClaimLedger` | abstract: what the claim set promises | `holder`, `spent` | implemented by `OpportunityHandler` (`ImplementsLedger`) |
| `Submission` | abstract: what one `process_opportunity` promises | `call`, `sent`, `arrived` | implemented by `TransactionService`, relied on by `OpportunityHandler` (`UsesSubmission`): the two are composed through it |
| `TransactionService` | concurrent `process_opportunity` calls, wallet choice, `send_transaction`, Redis lock, with the chain's nonces and the sequencer's pool as the outside world | `stage`, `wallet`, `nonce`, `walletIndex`, `queue` of the lock, `broadcast`, `mined`, `pool` | fees, gas and signatures are left out |
| `FlashblockExecutor` | the executor as operators on a record | account nonces per sender, the blocks it was built from | nonces stand for the EVM state: they decide what executes |
| `FlashblockSimulator` | the simulator loop over the executor (EXTENDS it) | `inbox`, `currentBlock`, `initialized`, `latest`, `exec`, `snapshots` | `latest` is the value read before the second read of `initialize()` |
| `FlashblocksFeed` | socket, reconnect, mailbox, ring, forwarder | `link`, `backoff`, `socket`, `mailbox`, `published`/`cursor`, `hand`, `inbox` | the lag of the ring is the distance from `cursor` |
| `MevTaskWorker` | strategy analysis and the search workers, behind the simulator that feeds them | `position`, `initialized`, `currentBlock`, `initializing`, `latest`, `exec`, `snapshot` of the simulator; `stage`, `seen`, `holding` of each worker; `channel` | the state of an address is which flashblock wrote it last; what the EVM computes is nondeterministic; the simulator loses flashblocks, fails to initialise and fails to execute, and its `initialize()` reads the node twice |
| `MevPipeline` | the composition of `MevTaskWorker` (EXTENDS) with `OpportunityHandler` (INSTANCE) | both states, sharing the channel and the node's head | the environment the handler assumes (`SendOpportunity`, `NewBlock`, `CloseChannel`) is replaced by the workers, the node and the end of the simulator; `found` is the handler's history of what was sent |
| `MevSystem` | the composition of `MevPipeline` (EXTENDS) with `TransactionService` (INSTANCE) | all of the above, and the service's state with `call` as its `stage` | the call a task awaits runs in the place of what the handler assumes of it; a step of the call is a step of its task |
| `QuantitySearch` | abstract: what an optimizer promises | `landscape`, `best` | implemented by both optimizer modules (`ImplementsSearch`) |
| `FastGradientOptimizer` | the optimizer the workers use, one action per test or phase change | `point`, `promising`, `regions`, `left`/`right`, `iterations`, `best` | the contract is a CONSTANT operator `Output` |
| `GridOptimizer` | the full and the parallel optimizer as one module, `variant` telling which | `cell`, `batch` of threads, `hotspots`, `left`/`right`, `steps`, `iterations`, `best` | `U256` arithmetic on windows wraps; `Finish` is a thread's return, in any order |
| `DatabaseService` | channel, actor, batches row by row in a transaction | `channel`, `worker`, `pool`, `working`, `table` | `committed` is a history variable |
| `...Proofs` | theorems of the module before the suffix | - | section 5 |
| `MC...` | instances for TLC | - | - |

The actions named "Faulty variant" in the modules belong to no specification.  Each is a
plausible mistake in the code above it (a dropped guard, an inverted order, a missing
reset) with the property it would break listed in `PROJECT.json` under `mutants`:
replacing the faithful action by it makes TLC report that property.

Code outside `src/` (the node, the sequencer, PostgreSQL, the network) is modelled from how
the code uses it, and as little obliging as possible: answers are lost or late, Redis and
the database hang, reads fail.

## 3. Runs

| run | question | instance and why it is enough |
|---|---|---|
| `Handler` | claims, permits, the promise of the service and the ledger with its fairness, in every mode of the service | three rivals for one key, one of them below the threshold, and another key; two permits, so that tasks run side by side while the loop waits; a channel of two that fills; the chain grows past the staleness limit. About 150 000 states |
| `HandlerBurntKey` | does a claimed key mean a submission? | violated, see findings |
| `Pipeline` | the state a worker sees, triggers, one submission per block, that the workers are an environment the handler's specification allows, and that every find is decided | two blocks, three flashblocks (the first updates an oracle and touches nothing watched, the second touches what the configuration watches, the third does not), one configuration; any flashblock may be lost, any initialisation and any execution may fail, the node imports blocks at any moment, also between the two reads of `initialize()`; one permit and one channel slot, so that workers wait on a handler that waits on a silent sequencer. About 264 000 states |
| `Service` | shared nonces, termination of calls and broadcasts, the Submission promise | two calls, two wallets, every strategy but the random one, every mode; an account mines one transaction, so that a nonce gets used up between a read and a send |
| `ServiceKnown` | is a "known" success backed by a broadcast? | violated, see findings |
| `Simulator` | order, base and number of snapshots, nonces, failed initialisation | three blocks, two senders: index 10 with the bundle, a revert before a later transaction of its sender, an unrecoverable signer, a transaction that does not decode; losses; a channel of two |
| `SimulatorFailedInit` | does an overlay hold one block only? | violated, see findings |
| `Feed` | order, gaps, orderly end | six messages, one malformed, through queues of 2, 1 and 1 and a ring of 2, so that each fills, the ring laps and messages are lost |
| `FeedLagged` | does every published flashblock reach the simulator? | violated, see findings |
| `Database` | atomicity, order, duplicates, backpressure | four batches (one empty, one replayed, two sharing a hash), a queue of two, another writer, failure at any row, a hang at any time |
| `Gradient` | bounds, and that the fast optimizer implements `QuantitySearch` | thirteen landscapes with optima at both ends, in the middle and off the grid, losses, halts and short outputs, profits wider than the result word; default values from 1 to 167772, whose upper bound is just below the three-byte limit; words of ten bits instead of 256 |
| `Grid` | encodable quantities, windows inside out, termination, and `QuantitySearch` again, for the serial and the parallel search | twelve landscapes times four ranges (a wide one, one from the smallest quantity on, one whose windows reach below its lower bound, one with fewer quantities than cells); 12 iterations instead of 250, batches of two threads, six-bit calldata, eight-bit words. About 111 000 states |

`MCMevSystem` with `System.cfg` is an instance of the whole system, from flashblock to mined
transaction, which is not among the runs of `PROJECT.json`.  With one block of two
flashblocks, one wallet and one nonce it took five and a quarter minutes with an earlier
simulator, in which nothing fails (1.3 million states): `CallsWithinPermits`, `OneCallPerBlock`,
`OnePendingPerWallet`, `BlockSubmittedOnce` and the two refinements held.  What is relied
on of `MevSystem` is proved (section 5).

`CHECK_DEADLOCK FALSE` is set where the system may stop: all opportunities are decided, all
calls have ended, the simulator has had its flashblocks, the search has returned.  Only the
client never stops (it reconnects for ever), and in `Feed` deadlock is checked.

Bounds with a name: `MaxBlock`, `MaxNonce`, `MaxMessages`, `SocketCapacity`,
and the lengths of `Feed` and `Batches`.  The capacities of the code (5 permits, channels
of 100, 1000 and 4096) are constants shrunk to 1 or 2: every property concerns what
happens when a queue is full, empty or in between, which one or two slots already show.

### Fairness

Only weak fairness is assumed, and only of what tokio schedules: a woken task is polled,
timers fire.  The workers, the chain, the sequencer, Redis and PostgreSQL owe nothing, with
one exception, stated in the module: in `FlashblocksFeed` the simulator keeps taking
events (however slowly) and connection attempts come to an end.  That the handler keeps
receiving is no assumption: in `FairPipelineSpec` only the workers' own steps, the loop and the
tasks are fair, and `EveryFindIsDecided` follows.  The liveness of the handler and of the calls rests on `tokio::time::timeout`: without the
`Timeout` actions a silent sequencer would hold a permit for ever.

## 4. Findings

The code and its own comments disagree at four places; `PROJECT.json` quotes the lines.

* `HandlerBurntKey`: the key is inserted before the profit is compared with the threshold,
  so an opportunity below it blocks a profitable one of the same block and processor,
  although nothing was submitted.
* `ServiceKnown`: `redis_result.is_ok()` tells that the broadcast task was joined, not that
  it published; an "already known" answer becomes a success without any broadcast.
* `SimulatorFailedInit`: `current_block` moves before `initialize()` is called; if that
  fails, the rest of the block runs on the overlay of the previous one.  The passing
  property `MixedOnlyAfterFailure` says that nothing else mixes blocks.
* `FeedLagged`: `while let Ok(event)` takes `Lagged` for the end of the feed: one lag stops
  the forwarder and with it the simulator.

## 5. Theorems

Each of the eight proof modules is about the module before its suffix, for every value of its
constants that its named assumption admits; `MevPipelineProofs` is about `MevSystem` too.  Forty-two theorems are listed in
`PROJECT.json`; the lemmas under them state what one group of actions does to the invariant.

**`OpportunityHandlerProofs`**, from `HandlerAssumption`, for every set of opportunities,
every threshold, any number of permits and any channel capacity: `HandlerTypeOK`,
`HandlerPermits`, `HandlerExclusiveClaim`, `HandlerClaimAccounted` (invariants of the run
`Handler`), `HandlerGivesBackOnlyAfterFailure` (its action property on the claim set),
`HandlerImplementsLedger` (the safety part of `ClaimLedger`) and `HandlerUsesSubmission` (its
tasks take no step that `Submission` does not allow a call).  The inductive invariant is
`HandlerInv == TypeOK /\ OnePlaceAtATime /\ ExclusiveClaim /\ PermitConservation`.
Exclusivity and the permit count are not inductive alone: nothing in them keeps an
opportunity with a task from being in the channel too; the loop would receive it again, and
`Spawn` would take a second permit for the same task.  `OnePlaceAtATime` (queued, in hand or
spawned, each once) closes that hole.  The permit count needs `BusyCount`, a lemma on how one
task's change of state moves the cardinality of the busy tasks.  `HandlerStep` states the
step of the inductive invariant on its own, for use where the handler runs among other components.  In the refinement claiming
maps to `Take` or, below the threshold, to `Close`; the failure arm to `GiveBack`; success to
`Close`; everything else to a stutter.

**`MevPipelineProofs`**, from the assumptions of both parts.

*Submissions.*  `PipelineServesHandler` (the pipeline implements the handler's specification:
a worker's send is the environment's, the node's new head is its new block) and
`PipelineSubmitsOnce`, which instantiates the handler's proofs and combines
`HandlerExclusiveClaim` with one number per block.  That all snapshots of a block carry one
number is not obvious in a simulator that fails: after a failed initialisation the rest of
the block runs on the executor of an earlier one, and a later initialisation could number
the block anew.  It cannot, because `current_block` has moved already and only a new block
moves it again; and as long as nothing was ever initialised no snapshot is exported.
`PlaceInv` and `ExportInv` say so, and `WorkerInv` that what a worker holds or has sent is
its own and made of its snapshot, so that a send is always of something new.
`FoundValueDecodes` shows that gas and bribe rate come back out of the 256-bit value unmixed
for every gas and every balance; the checked instance has one rate and one gas only.

*Views.*  `PipelineTypes`, `PipelineSearchedWhenTouched` and `PipelineViewIsExactOrNewer` are
about what a worker is given, for every feed in block order, whatever is lost or fails.
Their invariant is `SearchInv`: the overlay holds exactly the accounts that the flashblocks
executed on it touched, each as they last wrote it or, if they only read it, as it was in the
block the overlay was initialised on (`Contents`); and a worker opens the node's state no
earlier than that block.  A watched address is in the snapshot exactly if something the
overlay holds touched it.  The view is stated for overlays that stand on the parent and hold
all of their block so far.  Such an overlay holds nothing else (`OverlayInv`): an executor
that survived a failed initialisation has missed the flashblock at which it failed.  An
address the block wrote is then exact because no later block precedes the flashblock in the
feed; any other comes from a state at least as new as the parent, so it can differ from the
exact one only by a write of the block itself or a later one, which the node must have
imported.  `LastWriteIsLast` needs a greatest element of a bounded set, taken from the
well-founded order of its subsets (`MaxOfBounded`).

*The whole system.*  `SystemRunsService` and `SystemServesPipeline`: `MevSystem` implements
`TransactionService` and `MevPipeline` with its promise in place, so each part has in the
system the environment it was proved in.  It follows that whatever was proved of the parts
holds of the whole: `SystemSubmitsOnce`, and `SystemOnePending` (one pending transaction per
wallet however the handler retries).  Two theorems are of the system only:
`SystemCallsWithinPermits` and `SystemOneCall`, which carries one submission per block and
strategy through to the calls of `process_opportunity`.  Their invariant is `JoinInv`: a task
is where its call is, and what left the task is what the call sent.  With it go
the invariants of the handler and of the service (`HandlerStep`, `ServiceInvariant`), because
that a task starts with an idle call is a fact about the handler (no opportunity is spawned
twice).  The assumption of `TransactionService` appears as a hypothesis of all of these
but `SystemRunsService`, which is a fact about how the steps fit together.

**`TransactionServiceProofs`**, from `ServiceAssumption`: `ServiceTypeOK`,
`ServiceOnePending`, `ServiceImplementsSubmission`, for any number of calls and wallets.  The
invariant orders the stages (nothing is sent before it is signed, nothing answered that did
not arrive) and says that a signed nonce is never ahead of its account (`NonceInv`).  That is
why the pool never holds two transactions of one wallet: what is pending is the account's
next, and two for one nonce replace each other.  `Submission` sees `funded` and `signed` as
running and `answered` as posted.  `ServiceInvariant` is the invariant itself, for the system.

**`FlashblockSimulatorProofs`**, from `FeedAssumption` (a nonempty feed in chain order) and
`SimulatorAssumption`: `SimulatorTypeOK`, `SimulatorInOrder`, `SimulatorBaseNotAhead`, `SimulatorOneBase`,
`SimulatorMixedOnlyAfterFailure`, for every feed, every loss and every moment at which the
node moves on.  The invariant `SimulatorInv` adds that everything in the channel and to come
lies behind what is held (`Behind`), that no block before the current one returns
(`CurrentInv`), that the state read first is no newer than the number read second
(`ExecInv`), and that the block being set up has no snapshot yet (`BaseInv`).

`SimulatorExactUnlessSkipped` states what the snapshot is worth: over the parent's state, with
no flashblock lost, every account has the nonce of the chain, but for the senders one of
whose transactions reverted or did not decode.  It also uses `NonceAssumption`: the sequencer
builds valid blocks, in which a transaction has the nonce of its account.  `NonceInv` says
that an empty overlay has the nonces of its base, and one that stands on the parent and
holds all of its block has exact ones, in the same sense, after its last flashblock;
`WholeBefore`, that an overlay that is whole with a flashblock was whole without it; and
`FlashblockExact` is one flashblock: a sender nothing of whom was skipped goes on with the
chain, and one that fell behind stays behind, since no later transaction has its nonce.  The
sums over the flashblocks of a chain are cardinalities of sets of <<flashblock,
transaction>>, and the induction over the transactions of a flashblock is one over a bounded
interval (`FiniteInduction`), taken from the well-founded order of its subsets.

**`FlashblocksFeedProofs`**, from `FeedAssumption`, for all capacities and any number of
reconnects: `FeedTypeOK`, `FeedNoGap`, `FeedOrderKept`.  `PassedInv` lays the simulator's
events, its channel and the forwarder's hand end to end over the beginning of what was
published; `ComingInv` puts the ring, the mailbox and the socket one above the other, each
below the number sent.

**`DatabaseServiceProofs`**, from `DatabaseAssumption`: `DatabaseTypeOK` and
`DatabaseTableIsCommitted`.  `RowsHeld` says that the open transaction holds exactly the rows
executed so far, each equal to an upsert of what is in the table (others wait for those
rows, so nobody has changed them); `InOrder` that a batch comes after every committed one.  Hence a
commit appends a source at most once and behind every earlier one (`CommitRecords`), and
another writer changes only its own source (`OtherRecords`).

**`FastGradientOptimizerProofs`**, from `OptimizerAssumption` (default values whose
hundredfold fits in the calldata) for every contract, landscape and random numbers:
`OptimizerWithinBounds`, `OptimizerBudget` (at most thirty tests), `OptimizerTypeOK`, and
`OptimizerImplementsSearch`, which also assumes `WordsFit`: the contract answers with machine
words.  The invariant `IInv` adds the position of the window and what each phase may have
spent.  The interesting lemma is `Bounds`: half a coarse step is at least the lower bound.
The code clips the left end of a window only if the center is not larger than the radius;
that this keeps the window above the lower bound is a fact about the worker's bounds, not
about the optimizer.

**`GridOptimizerProofs`**, from `GridAssumption`, for both searches, every contract, range,
batch size and budget: `GridTypeOK`, `GridEncodable`, `GridImplementsSearch`,
`GridInsideOut`.  In `GridInv` the two ends of a window lie between 1 and the upper bound, in
whichever order: that, and not the lower bound or an ordered window, is what keeps every
tested quantity within three bytes.  `GridStepsBounded` is the part of `SearchEnds` that is a
safety property: a number (`Left`) that begins at a known value and that every step makes
smaller bounds the steps of a search, however its windows turn and whenever its threads
return.  That a search is not stuck before its end is the other part.

Model-checked only: the liveness properties (`EveryCallEnds`, `EveryBroadcastEnds`,
`EveryFindIsDecided`, `SimulatorNotHeldUp`, `QueueDrains`, `SearchEnds`, `ExitDrains`) and the
fairness of `ImplementsLedger`, because TLAPS does not do ENABLED.
Every invariant and every safety part of a refinement that a run checks has a theorem.

## 6. What is not modelled

* In `MevTaskWorker`, that a transaction may not execute on an overlay that misses another:
  there a flashblock touches the same accounts on any overlay.  Which transactions execute
  is the subject of `FlashblockSimulator`.
* The EVM: gas, storage and code.  What a transaction or a search computes is a constant, a
  chosen outcome, or an arbitrary function.
* Fees and gas limits (`transaction_service.rs` 153-216): arithmetic on one call's arguments,
  which no other state depends on.  Its comment calls 5 000 wei "0.005 gwei"; it is a
  thousandth of that.
* Signatures, ABI and RLP, JSON, logging, metrics, timing.
* Start-up (`main.rs` 60-260): straight-line code that runs once before any task does; what
  it leaves behind is in the initial states (modes, strategies, wallets, capacities).  One
  path of it contradicts its own warning: without wallets it goes on with an empty wallet
  service and unwraps (listed as a hazard).
* `MevSearchSystem` and the mock worker (never constructed, and the worker does nothing with
  a task), the benchmark, the batch simulation, and the ExEx block subscriber, whose
  installation is commented out.
* The command line tools, which take no part in the node.
* That an opportunity submitted late is still worth submitting: staleness is tested before
  the wait for a permit and never again, and the code states no bound.
* That gas is measured right for a bot account that exists and is poor: modelled
  (`GasUsed`), but the code promises nothing about it.

## 7. Plan

Done: handler and its ledger, transaction service and its promise, simulator and executor,
feed, workers, database, all three optimizers and their promise, the composition of workers,
handler and transaction service, and a proof module for each; the workers are proved about
inside the composition.

Next, most important first:

1. A specification of where snapshots come from (position, executor, the two reads, losses
   and failures, without contents) that `MevTaskWorker` extends by its data and that
   `FlashblockSimulator` implements.  The two models of the simulator have the same steps
   today, but nothing checked says so; the composition is too large for TLC and
   should be a proof, as `SystemServesPipeline` is.
2. `GasPricing`: the priority fee from profit and gas, with the cut to one 64-bit limb and
   the division by zero guard, against a reference over wide numbers.
3. An abstract specification of a worker's view as a function of the snapshot, with its
   refinement.
4. The number of configurations that `backrun_analyzer.rs` builds and that its test
   expects.
