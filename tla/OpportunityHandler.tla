-------------------------- MODULE OpportunityHandler --------------------------
(***************************************************************************)
(* The MEV opportunity handler spawned by main.rs: one loop that receives   *)
(* opportunities from the search workers, drops stale and already claimed   *)
(* ones, and one task per remaining opportunity that runs                   *)
(* TransactionService::process_opportunity under a semaphore permit and a   *)
(* timeout.  process_opportunity is abstracted to what the handler can tell *)
(* apart: it ends before anything left the process, or it POSTs the signed  *)
(* transaction and the answer is Ok, Err, or too late.  TransactionService  *)
(* models it in full.                                                       *)
(***************************************************************************)
EXTENDS Naturals, Sequences, FiniteSets

CONSTANTS
  Opportunities,    \* what the workers will find; each is found at most once
  None,             \* the handler has no opportunity in hand
  Threshold,        \* min_profit_threshold
  MaxConcurrent,    \* MAX_CONCURRENT_OPPORTUNITIES
  MaxStaleness,     \* MAX_BLOCK_STALENESS
  ChannelCapacity,  \* mev_result channel, 1000 in main.rs
  MaxBlock,         \* bound: the chain stops growing here
  Modes             \* what the environment may make of the transaction service

ASSUME HandlerAssumption ==
  /\ IsFiniteSet(Opportunities)
  /\ \A o \in Opportunities : o.block \in Nat /\ o.profit \in Nat
  /\ None \notin Opportunities
  /\ Threshold \in Nat /\ MaxStaleness \in Nat /\ MaxBlock \in Nat
  /\ MaxConcurrent \in Nat \ {0} /\ ChannelCapacity \in Nat \ {0}
  /\ Modes \subseteq {"disabled", "dry_run", "submit"}

VARIABLES
  mode,       \* config.enabled and config.dry_run of the transaction service
  best,       \* provider.best_block_number()
  found,      \* the opportunities sent to the handler so far
  channel,    \* mev_result_rx
  closed,     \* every sender of the channel is gone
  pc,         \* where the handler loop is
  current,    \* the opportunity it has in hand
  submitted,  \* submitted_txs: DashSet<(u64, String)>
  permits,    \* free permits of the semaphore
  task,       \* the task of each opportunity
  network,    \* the signed transactions that left the process
  delivered   \* those the sequencer received

env       == <<mode, best, found, closed>>
loop      == <<pc, current>>
transport == <<network, delivered>>
vars == <<env, channel, loop, submitted, permits, task, transport>>

Key(o)    == <<o.block, o.strategy>>
Keys      == {Key(o) : o \in Opportunities}
Rivals(o) == {p \in Opportunities : Key(p) = Key(o)}

\* running -> posted -> ok -> kept, or -> failed -> unclaimed -> dropped; a task
\* holds its permit in every state but the first and the two last ones.
Busy       == {"running", "posted", "ok", "failed", "unclaimed"}
TaskStates == Busy \cup {"none", "kept", "dropped"}
LoopStates == {"recv", "check", "claim", "acquire", "exited"}

TypeOK ==
  /\ mode \in Modes
  /\ best \in 0 .. MaxBlock
  /\ found \subseteq Opportunities
  /\ channel \in Seq(Opportunities)
  /\ closed \in BOOLEAN
  /\ pc \in LoopStates
  /\ current \in Opportunities \cup {None}
  /\ submitted \subseteq Keys
  /\ permits \in 0 .. MaxConcurrent
  /\ task \in [Opportunities -> TaskStates]
  /\ network \subseteq Opportunities
  /\ delivered \subseteq network

Init ==
  /\ mode \in Modes
  /\ best = 0
  /\ found = {} /\ channel = << >> /\ closed = FALSE
  /\ pc = "recv" /\ current = None
  /\ submitted = {}
  /\ permits = MaxConcurrent
  /\ task = [o \in Opportunities |-> "none"]
  /\ network = {} /\ delivered = {}

-----------------------------------------------------------------------------
(* The environment: the chain, the search workers and the network.           *)

NewBlock ==
  /\ best < MaxBlock
  /\ best' = best + 1
  /\ UNCHANGED <<mode, found, closed, channel, loop, submitted, permits, task, transport>>

\* A worker's `result_tx.send(opportunity).await`, which waits while the
\* channel is full.  The snapshot it searched carries a block number the node
\* had reached.
SendOpportunity(o) ==
  /\ o \notin found /\ o.block <= best
  /\ ~closed
  /\ Len(channel) < ChannelCapacity
  /\ channel' = Append(channel, o)
  /\ found' = found \cup {o}
  /\ UNCHANGED <<mode, best, closed, loop, submitted, permits, task, transport>>

\* The simulator task left its loop and the last worker ended.
CloseChannel ==
  /\ ~closed
  /\ closed' = TRUE
  /\ UNCHANGED <<mode, best, found, channel, loop, submitted, permits, task, transport>>

\* Bytes on the wire reach the sequencer even when the request future that
\* wrote them has been dropped.
Deliver(o) ==
  /\ o \in network \ delivered
  /\ delivered' = delivered \cup {o}
  /\ UNCHANGED <<env, channel, loop, submitted, permits, task, network>>

-----------------------------------------------------------------------------
(* The handler loop.  Each action ends where another task can interleave.    *)

NextIteration == pc' = "recv" /\ current' = None

Receive ==
  /\ pc = "recv"
  /\ channel # << >>
  /\ current' = Head(channel)
  /\ channel' = Tail(channel)
  /\ pc' = "check"
  /\ UNCHANGED <<env, submitted, permits, task, transport>>

\* recv() returns None once the channel is closed and drained.
Exit ==
  /\ pc = "recv"
  /\ channel = << >> /\ closed
  /\ pc' = "exited"
  /\ UNCHANGED <<env, channel, current, submitted, permits, task, transport>>

Stale(o) == o.block + MaxStaleness < best

\* best_block_number() may fail, which drops the opportunity too.
CheckStaleness ==
  /\ pc = "check"
  /\ \/ NextIteration
     \/ ~Stale(current) /\ pc' = "claim" /\ UNCHANGED current
  /\ UNCHANGED <<env, channel, submitted, permits, task, transport>>

SkipClaimed ==
  /\ pc = "claim"
  /\ Key(current) \in submitted
  /\ NextIteration
  /\ UNCHANGED <<env, channel, submitted, permits, task, transport>>

Profitable(o) == o.profit > Threshold

\* Faulty variant: the result of `insert` is ignored.
ClaimUnchecked ==
  /\ pc = "claim"
  /\ submitted' = submitted \cup {Key(current)}
  /\ IF Profitable(current)
       THEN pc' = "acquire" /\ UNCHANGED current
       ELSE NextIteration
  /\ UNCHANGED <<env, channel, permits, task, transport>>

\* `insert` claims the key before the profit is compared with the threshold:
\* an opportunity below it leaves its key in the set.
Claim ==
  /\ pc = "claim"
  /\ Key(current) \notin submitted
  /\ submitted' = submitted \cup {Key(current)}
  /\ IF Profitable(current)
       THEN pc' = "acquire" /\ UNCHANGED current
       ELSE NextIteration
  /\ UNCHANGED <<env, channel, permits, task, transport>>

\* The loop itself waits for a permit: nothing is received meanwhile.
Spawn ==
  /\ pc = "acquire"
  /\ permits > 0
  /\ permits' = permits - 1
  /\ task' = [task EXCEPT ![current] = "running"]
  /\ NextIteration
  /\ UNCHANGED <<env, channel, submitted, transport>>

-----------------------------------------------------------------------------
(* The task of opportunity o.                                                *)

\* process_opportunity returns before it posts: Ok when the service is disabled
\* or in dry-run mode, Err from the wallet, the provider, the bundle or the
\* signer, none of which a disabled service reaches.
ReturnUnposted(o) ==
  /\ task[o] = "running"
  /\ \/ mode # "submit" /\ task' = [task EXCEPT ![o] = "ok"]
     \/ mode # "disabled" /\ task' = [task EXCEPT ![o] = "failed"]
  /\ UNCHANGED <<env, channel, loop, submitted, permits, transport>>

\* Faulty variant: dry-run mode is not looked at.
PostInDryRun(o) ==
  /\ task[o] = "running" /\ mode # "disabled"
  /\ task' = [task EXCEPT ![o] = "posted"]
  /\ network' = network \cup {o}
  /\ UNCHANGED <<env, channel, loop, submitted, permits, delivered>>

Post(o) ==
  /\ task[o] = "running" /\ mode = "submit"
  /\ task' = [task EXCEPT ![o] = "posted"]
  /\ network' = network \cup {o}
  /\ UNCHANGED <<env, channel, loop, submitted, permits, delivered>>

\* Ok takes an answer of the sequencer; an Err may be its own, a lost answer
\* or a request that never arrived.
ReturnPosted(o) ==
  /\ task[o] = "posted"
  /\ \/ o \in delivered /\ task' = [task EXCEPT ![o] = "ok"]
     \/ task' = [task EXCEPT ![o] = "failed"]
  /\ UNCHANGED <<env, channel, loop, submitted, permits, transport>>

\* Faulty variant: the timeout covers the choice of the wallet only.
TimeoutBeforePost(o) ==
  /\ task[o] = "running" /\ mode # "disabled"
  /\ task' = [task EXCEPT ![o] = "failed"]
  /\ UNCHANGED <<env, channel, loop, submitted, permits, transport>>

\* tokio::time::timeout drops process_opportunity where it waits: for the wallet
\* index, for the sequencer or for the Redis broadcast.
Timeout(o) ==
  /\ task[o] \in {"running", "posted"} /\ mode # "disabled"
  /\ task' = [task EXCEPT ![o] = "failed"]
  /\ UNCHANGED <<env, channel, loop, submitted, permits, transport>>

\* Faulty variant: the failure arm forgets the key.
RemoveClaimForgotten(o) ==
  /\ task[o] = "failed"
  /\ task' = [task EXCEPT ![o] = "unclaimed"]
  /\ UNCHANGED <<env, channel, loop, submitted, permits, transport>>

\* Faulty variant: every arm of the match removes the key.
RemoveClaimAlways(o) ==
  /\ task[o] \in {"failed", "ok"}
  /\ submitted' = submitted \ {Key(o)}
  /\ task' = [task EXCEPT ![o] = "unclaimed"]
  /\ UNCHANGED <<env, channel, loop, permits, transport>>

\* The Err and timeout arms: another flashblock may try again.
RemoveClaim(o) ==
  /\ task[o] = "failed"
  /\ submitted' = submitted \ {Key(o)}
  /\ task' = [task EXCEPT ![o] = "unclaimed"]
  /\ UNCHANGED <<env, channel, loop, permits, transport>>

\* Faulty variant: the permit comes back only after a success.
EndTaskLeaking(o) ==
  /\ task[o] \in {"ok", "unclaimed"}
  /\ task' = [task EXCEPT ![o] = IF task[o] = "ok" THEN "kept" ELSE "dropped"]
  /\ permits' = IF task[o] = "ok" THEN permits + 1 ELSE permits
  /\ UNCHANGED <<env, channel, loop, submitted, transport>>

\* Faulty variant: the permit is given back by hand and by its drop.
EndTaskTwice(o) ==
  /\ task[o] \in {"ok", "unclaimed"}
  /\ task' = [task EXCEPT ![o] = IF task[o] = "ok" THEN "kept" ELSE "dropped"]
  /\ permits' = permits + 2
  /\ UNCHANGED <<env, channel, loop, submitted, transport>>

\* The task ends and drops `_permit`; after Ok the key stays where it is.
EndTask(o) ==
  /\ task[o] \in {"ok", "unclaimed"}
  /\ task' = [task EXCEPT ![o] = IF task[o] = "ok" THEN "kept" ELSE "dropped"]
  /\ permits' = permits + 1
  /\ UNCHANGED <<env, channel, loop, submitted, transport>>

-----------------------------------------------------------------------------
Environment ==
  \/ NewBlock \/ CloseChannel
  \/ \E o \in Opportunities : SendOpportunity(o) \/ Deliver(o)

Loop == Receive \/ Exit \/ CheckStaleness \/ SkipClaimed \/ Claim \/ Spawn

Task(o) ==
  ReturnUnposted(o) \/ Post(o) \/ ReturnPosted(o) \/ Timeout(o)
    \/ RemoveClaim(o) \/ EndTask(o)

Next == Environment \/ Loop \/ \E o \in Opportunities : Task(o)

Spec == Init /\ [][Next]_vars

\* The runtime polls a woken loop and a woken task, and the timer fires; the
\* provider, the sequencer, the network and the workers owe nothing, so a task gets
\* on by itself only when it is disabled, timed out, or past process_opportunity.
Owed(o) ==
  (mode = "disabled" /\ ReturnUnposted(o)) \/ Timeout(o) \/ RemoveClaim(o) \/ EndTask(o)

Fairness ==
  /\ WF_vars(Loop)
  /\ \A o \in Opportunities : WF_vars(Owed(o))

FairSpec == Spec /\ Fairness

-----------------------------------------------------------------------------
(* Properties.                                                               *)

InHand(o)  == pc = "acquire" /\ current = o
Working(o) == task[o] \in {"running", "posted", "failed"}
Acked(o)   == task[o] \in {"ok", "kept"}
Holds(o)   == InHand(o) \/ Working(o) \/ Acked(o)

\* Whatever the interleaving of the loop and the tasks that give keys back, the
\* opportunities of one (block, processor) pair are tried one at a time, never
\* again after one was acknowledged, and a key is in the set while one is.
ExclusiveClaim ==
  \A o \in Opportunities : Holds(o) =>
    /\ Key(o) \in submitted
    /\ \A p \in Rivals(o) : Holds(p) => p = o

\* A permit is lost on no path of a task, and none is given back twice.
PermitConservation ==
  permits + Cardinality({o \in Opportunities : task[o] \in Busy}) = MaxConcurrent

\* Every claimed key is accounted for: somebody is trying it, it succeeded, or
\* an opportunity below the threshold took it.
ClaimAccounted ==
  \A k \in submitted :
    \E o \in Opportunities :
      Key(o) = k /\ (Holds(o) \/ (o \in found /\ ~Profitable(o)))

\* Between receiving and deciding an opportunity, and only then, the loop has it in
\* hand, and no task was spawned for it yet.
InHandOnce ==
  /\ pc \in {"check", "claim", "acquire"} <=> current \in Opportunities
  /\ current \in Opportunities => current \in found /\ task[current] = "none"

\* The channel holds opportunities nobody has looked at, each once.
QueuedOnce ==
  /\ \A i \in 1 .. Len(channel) :
       /\ channel[i] \in found /\ channel[i] # current
       /\ task[channel[i]] = "none"
  /\ \A i, j \in 1 .. Len(channel) : channel[i] = channel[j] => i = j

\* An opportunity is in one place at a time, from the worker's send to the end of
\* its task: none is tried twice, and the permit count below rests on it.
OnePlaceAtATime ==
  /\ InHandOnce /\ QueuedOnce
  /\ \A o \in Opportunities : task[o] # "none" => o \in found

\* A key is given back only when the attempt on it failed, and never while
\* another attempt on the same key runs.
GiveBackOnlyAfterFailure ==
  [][\A k \in submitted \ submitted' :
       \E o \in Opportunities :
         /\ Key(o) = k /\ task[o] = "failed" /\ task'[o] = "unclaimed"
         /\ \A p \in Rivals(o) : ~Acked(p) /\ (p # o => ~Holds(p))]_vars

Settled(o) ==
  /\ task[o] \notin Busy
  /\ current # o
  /\ \A i \in 1 .. Len(channel) : channel[i] # o

\* The refinement: a key is held by the opportunity in hand or at work on it, and
\* spent when it is in the set without one.
Held(k) == {o \in Opportunities : Key(o) = k /\ (InHand(o) \/ Working(o))}

Ledger == INSTANCE ClaimLedger WITH
  Holders <- Opportunities,
  holder  <- [k \in Keys |-> Held(k)],
  spent   <- {k \in submitted : Held(k) = {}}

\* Implementation of the abstract ledger, its fairness included: no claim is held
\* for ever, because the timeout ends every attempt.
ImplementsLedger == Ledger!LedgerSpec

\* What the handler assumes of process_opportunity is the promise of Submission,
\* which TransactionService is shown to keep.
Process == INSTANCE Submission WITH
  Calls   <- Opportunities,
  submits <- mode = "submit",
  call    <- [o \in Opportunities |->
                CASE task[o] = "none" -> "idle"
                  [] task[o] = "kept" -> "ok"
                  [] task[o] \in {"unclaimed", "dropped"} -> "failed"
                  [] OTHER -> task[o]],
  sent    <- network,
  arrived <- delivered

UsesSubmission == Process!SubmissionSpec

-----------------------------------------------------------------------------
(* What the comments of main.rs say and the code does not do.                *)

\* main.rs:300 "Check if we already submitted a transaction for this block and
\* processor": a key that makes later opportunities skipped is one for which a
\* transaction was, or may still be, submitted.
ClaimedMeansSubmitted ==
  \A k \in submitted :
    \E o \in Opportunities : Key(o) = k /\ (Holds(o) \/ o \in network)
=============================================================================
