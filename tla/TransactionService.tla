-------------------------- MODULE TransactionService --------------------------
(***************************************************************************)
(* Concurrent calls of TransactionService::process_opportunity, down to     *)
(* SequencerService::send_transaction with its detached Redis broadcast and *)
(* the connection lock, the wallet index, and, as the outside world, the    *)
(* account nonces of the chain, the sequencer's pool and the nodes that     *)
(* listen on the Redis channel.  Fees, gas limits and signatures are left   *)
(* out: nothing here depends on their values.                               *)
(***************************************************************************)
EXTENDS Naturals, Sequences, FiniteSets

CONSTANTS
  Calls,          \* the calls of process_opportunity, one per spawned task
  WalletCount,    \* wallets of the WalletService, numbered from 0
  Strategies,     \* what the environment may make of config.wallet_strategy
  Modes,          \* and of config.enabled and config.dry_run
  MaxNonce        \* bound: an account mines this many transactions

ASSUME ServiceAssumption ==
  /\ WalletCount \in Nat \ {0} /\ MaxNonce \in Nat
  /\ Strategies \subseteq {"default", "round_robin", "random"}
  /\ Modes \subseteq {"disabled", "dry_run", "submit"}

Wallets == 0 .. WalletCount - 1
NoWallet == WalletCount

VARIABLES
  mode,         \* of the service, settled when it is made
  strategy,     \* WalletStrategy, likewise
  stage,        \* how far each call is
  wallet,       \* the wallet it signs with
  nonce,        \* the nonce it signs
  walletIndex,  \* wallet_index: RwLock<usize>
  answer,       \* what the sequencer answered to the call's POST
  arrived,      \* the POSTs the sequencer received
  redis,        \* redis_conn: being made, there, there and hanging, or given up
  queue,        \* broadcasts at the write lock of redis_conn; the head has it
  broadcast,    \* the detached broadcast task of each call
  mined,        \* account nonce of each wallet in the latest state
  pool          \* the transactions pending at the sequencer

config  == <<mode, strategy>>
local   == <<stage, wallet, nonce, walletIndex>>
channel == <<redis, queue, broadcast>>
world   == <<mined, pool>>
vars == <<config, local, answer, arrived, channel, world>>

Stages == {"idle", "running", "funded", "signed", "posted", "answered", "ok", "failed"}
Answers == {"none", "result", "known", "rejected", "empty", "unusable"}
Broadcasts == {"none", "spawned", "waiting", "publishing", "published", "skipped", "failed"}

Sent == {c \in Calls : broadcast[c] # "none"}
BroadcastOver(c) == broadcast[c] \in {"published", "skipped", "failed"}

TypeOK ==
  /\ mode \in Modes /\ strategy \in Strategies
  /\ stage \in [Calls -> Stages]
  /\ wallet \in [Calls -> Wallets \cup {NoWallet}]
  /\ nonce \in [Calls -> 0 .. MaxNonce]
  /\ walletIndex \in Wallets
  /\ answer \in [Calls -> Answers]
  /\ arrived \subseteq Calls
  /\ redis \in {"connecting", "connected", "hung", "unavailable"}
  /\ queue \in Seq(Calls)
  /\ broadcast \in [Calls -> Broadcasts]
  /\ mined \in [Wallets -> 0 .. MaxNonce]
  /\ pool \subseteq Calls

Init ==
  /\ mode \in Modes /\ strategy \in Strategies
  /\ stage = [c \in Calls |-> "idle"]
  /\ wallet = [c \in Calls |-> NoWallet]
  /\ nonce = [c \in Calls |-> 0]
  /\ walletIndex = 0
  /\ answer = [c \in Calls |-> "none"]
  /\ arrived = {}
  /\ redis = "connecting" /\ queue = << >>
  /\ broadcast = [c \in Calls |-> "none"]
  /\ mined = [w \in Wallets |-> 0]
  /\ pool = {}

-----------------------------------------------------------------------------
(* process_opportunity.                                                      *)

Goto(c, s) == stage' = [stage EXCEPT ![c] = s]

\* A disabled service returns Ok at once.
Begin(c) ==
  /\ stage[c] = "idle"
  /\ Goto(c, IF mode = "disabled" THEN "ok" ELSE "running")
  /\ UNCHANGED <<config, wallet, nonce, walletIndex, answer, arrived, channel, world>>

\* Faulty variant: the index runs past the last wallet.
GetNextWalletUnbounded(c) ==
  /\ stage[c] = "running"
  /\ wallet' = [wallet EXCEPT ![c] = walletIndex % WalletCount]
  /\ walletIndex' = IF strategy = "round_robin" THEN walletIndex + 1 ELSE walletIndex
  /\ Goto(c, "funded")
  /\ UNCHANGED <<config, nonce, answer, arrived, channel, world>>

\* get_next_wallet: round robin reads and advances the index under its lock.
GetNextWallet(c) ==
  /\ stage[c] = "running"
  /\ \E w \in Wallets :
       /\ CASE strategy = "default"     -> w = 0
            [] strategy = "round_robin" -> w = walletIndex
            [] OTHER                    -> TRUE
       /\ wallet' = [wallet EXCEPT ![c] = w]
  /\ walletIndex' = IF strategy = "round_robin"
                      THEN (walletIndex + 1) % WalletCount ELSE walletIndex
  /\ Goto(c, "funded")
  /\ UNCHANGED <<config, nonce, answer, arrived, channel, world>>

\* Faulty variant: pending transactions count.
SignAfterPending(c) ==
  /\ stage[c] = "funded"
  /\ nonce' = [nonce EXCEPT ![c] =
                 mined[wallet[c]] + Cardinality({d \in pool : wallet[d] = wallet[c]})]
  /\ Goto(c, IF mode = "dry_run" THEN "ok" ELSE "signed")
  /\ UNCHANGED <<config, wallet, walletIndex, answer, arrived, channel, world>>

\* The nonce is the account's in the latest state: transactions that are still
\* pending do not count.
Sign(c) ==
  /\ stage[c] = "funded"
  /\ nonce' = [nonce EXCEPT ![c] = mined[wallet[c]]]
  /\ Goto(c, IF mode = "dry_run" THEN "ok" ELSE "signed")
  /\ UNCHANGED <<config, wallet, walletIndex, answer, arrived, channel, world>>

\* No state, no header, an empty bundle or one without a recipient, no signature.
FailUnsent(c) ==
  /\ stage[c] = "funded"
  /\ Goto(c, "failed")
  /\ UNCHANGED <<config, wallet, nonce, walletIndex, answer, arrived, channel, world>>

-----------------------------------------------------------------------------
(* send_transaction.                                                         *)

\* The broadcast task is spawned before the request is written.
Send(c) ==
  /\ stage[c] = "signed"
  /\ Goto(c, "posted")
  /\ broadcast' = [broadcast EXCEPT ![c] = "spawned"]
  /\ UNCHANGED <<config, wallet, nonce, walletIndex, answer, arrived, redis, queue, world>>

\* Faulty variant: a failed request is sent again.
FailPostRetrying(c) ==
  /\ stage[c] = "posted"
  /\ Goto(c, "signed")
  /\ UNCHANGED <<config, wallet, nonce, walletIndex, answer, arrived, channel, world>>

\* The request fails or times out, before or after it arrived: the `?` returns
\* without waiting for the broadcast.
FailPost(c) ==
  /\ stage[c] = "posted"
  /\ Goto(c, "failed")
  /\ UNCHANGED <<config, wallet, nonce, walletIndex, answer, arrived, channel, world>>

\* An error status or a body that is not JSON also returns at once.
ReadAnswer(c) ==
  /\ stage[c] = "posted" /\ answer[c] # "none"
  /\ Goto(c, IF answer[c] = "unusable" THEN "failed" ELSE "answered")
  /\ UNCHANGED <<config, wallet, nonce, walletIndex, answer, arrived, channel, world>>

\* `redis_task.await`, whose is_ok() says that the task was joined, not that it
\* published.  "Already known" and its like count as success.
Join(c) ==
  /\ stage[c] = "answered" /\ BroadcastOver(c)
  /\ Goto(c, IF answer[c] \in {"result", "known"} THEN "ok" ELSE "failed")
  /\ UNCHANGED <<config, wallet, nonce, walletIndex, answer, arrived, channel, world>>

\* Faulty variant: the timeout covers the request only, not the join.
TimeoutOfRequest(c) ==
  /\ stage[c] \in {"running", "posted"}
  /\ Goto(c, "failed")
  /\ UNCHANGED <<config, wallet, nonce, walletIndex, answer, arrived, channel, world>>

\* The handler's timeout drops the call where it waits: for the wallet index, the
\* sequencer, or the broadcast, which goes on without it.
Timeout(c) ==
  /\ stage[c] \in {"running", "posted", "answered"}
  /\ Goto(c, "failed")
  /\ UNCHANGED <<config, wallet, nonce, walletIndex, answer, arrived, channel, world>>

-----------------------------------------------------------------------------
(* The broadcast task: waits for the write lock, and holds it to the end.    *)

SetBroadcast(c, b) == broadcast' = [broadcast EXCEPT ![c] = b]

WaitForConnection(c) ==
  /\ broadcast[c] = "spawned"
  /\ SetBroadcast(c, "waiting")
  /\ queue' = Append(queue, c)
  /\ UNCHANGED <<config, local, answer, arrived, redis, world>>

StartBroadcast(c) ==
  /\ queue # << >> /\ Head(queue) = c /\ broadcast[c] = "waiting"
  /\ IF redis \in {"connected", "hung"}
       THEN SetBroadcast(c, "publishing") /\ UNCHANGED queue
       ELSE SetBroadcast(c, "skipped") /\ queue' = Tail(queue)
  /\ UNCHANGED <<config, local, answer, arrived, redis, world>>

\* Faulty variant: a failed publish leaves the lock taken.
FinishBroadcastKeepingLock(c) ==
  /\ broadcast[c] = "publishing" /\ redis # "hung"
  /\ \/ SetBroadcast(c, "published") /\ queue' = Tail(queue)
     \/ SetBroadcast(c, "failed") /\ UNCHANGED queue
  /\ UNCHANGED <<config, local, answer, arrived, redis, world>>

FinishBroadcast(c) ==
  /\ broadcast[c] = "publishing" /\ redis # "hung"
  /\ \E b \in {"published", "failed"} : SetBroadcast(c, b)
  /\ queue' = Tail(queue)
  /\ UNCHANGED <<config, local, answer, arrived, redis, world>>

\* The init task stores the connection under the same lock, or gives up for good.
InitRedis ==
  /\ redis = "connecting"
  /\ \/ queue = << >> /\ redis' = "connected"
     \/ redis' = "unavailable"
  /\ UNCHANGED <<config, local, answer, arrived, queue, broadcast, world>>

-----------------------------------------------------------------------------
(* The outside world.                                                        *)

Slot(c) == <<wallet[c], nonce[c]>>
Conflicts(c) == {d \in pool \ {c} : Slot(d) = Slot(c)}

\* The sequencer pools a transaction whose nonce the account has not used, a later
\* one until its turn comes; one for the same nonce replaces another or is refused
\* as an underpriced replacement.  A transaction that is in the pool, or whose nonce
\* is used up, and everything else that comes with code -32000, is answered in a way
\* the service takes for "known".
Judge(c) ==
  /\ c \in Sent \ arrived
  /\ arrived' = arrived \cup {c}
  /\ \/ /\ nonce[c] >= mined[wallet[c]] /\ c \notin pool
        /\ pool' = (pool \ Conflicts(c)) \cup {c}
        /\ \E a \in {"result", "empty", "unusable"} : answer' = [answer EXCEPT ![c] = a]
     \/ /\ answer' = [answer EXCEPT ![c] = "known"]
        /\ UNCHANGED pool
     \/ /\ \E a \in {"rejected", "unusable"} : answer' = [answer EXCEPT ![c] = a]
        /\ UNCHANGED pool
  /\ UNCHANGED <<config, local, channel, mined>>

\* The server behind the connection stops answering: a publish under way, and
\* every later one, never returns.
RedisHangs ==
  /\ redis = "connected"
  /\ redis' = "hung"
  /\ UNCHANGED <<config, local, answer, arrived, queue, broadcast, world>>

\* A node on the Redis channel passes a published transaction on.
PeerSubmits(c) ==
  /\ broadcast[c] = "published"
  /\ nonce[c] >= mined[wallet[c]] /\ c \notin pool /\ Conflicts(c) = {}
  /\ pool' = pool \cup {c}
  /\ UNCHANGED <<config, local, answer, arrived, channel, mined>>

Mine(c) ==
  /\ c \in pool /\ nonce[c] = mined[wallet[c]] /\ mined[wallet[c]] < MaxNonce
  /\ mined' = [mined EXCEPT ![wallet[c]] = @ + 1]
  /\ pool' = pool \ ({c} \cup Conflicts(c))
  /\ UNCHANGED <<config, local, answer, arrived, channel>>

-----------------------------------------------------------------------------
Call(c) ==
  Begin(c) \/ GetNextWallet(c) \/ Sign(c) \/ FailUnsent(c) \/ Send(c) \/ FailPost(c)
    \/ ReadAnswer(c) \/ Join(c) \/ Timeout(c)

Broadcast(c) == WaitForConnection(c) \/ StartBroadcast(c) \/ FinishBroadcast(c)

World(c) == Judge(c) \/ PeerSubmits(c) \/ Mine(c)

Next == InitRedis \/ RedisHangs \/ \E c \in Calls : Call(c) \/ Broadcast(c) \/ World(c)

Spec == Init /\ [][Next]_vars

\* The runtime polls the calls and the broadcasts, and the timeout bounds the
\* calls.  The sequencer, the chain and Redis owe nothing: no request has to fail.
Owed(c) ==
  GetNextWallet(c) \/ Sign(c) \/ Send(c) \/ ReadAnswer(c) \/ Join(c) \/ Timeout(c)

FairSpec == Spec /\ \A c \in Calls : WF_vars(Owed(c)) /\ WF_vars(Broadcast(c))

-----------------------------------------------------------------------------
(* Properties.                                                               *)

\* Calls that run at once sign the same nonce and cost each other a submission, but
\* no transaction ever waits for another: what the sequencer has pending is the next
\* of its account, and so at most one per wallet.
OnePendingPerWallet ==
  \A c \in pool :
    /\ nonce[c] = mined[wallet[c]]
    /\ \A d \in pool : wallet[d] = wallet[c] => d = c

\* The timeout ends every call that picked a wallet, whatever the sequencer and
\* Redis do: a publish that never returns holds the lock and every later call.
EveryCallEnds ==
  \A c \in Calls : stage[c] # "idle" ~> stage[c] \in {"ok", "failed"}

\* A broadcast is detached: it comes to its end also when the call that spawned it
\* failed or was dropped, unless Redis stops answering.
EveryBroadcastEnds ==
  \A c \in Calls : c \in Sent ~> (BroadcastOver(c) \/ redis = "hung")

\* A call keeps the promise its caller relies on.
Promise == INSTANCE Submission WITH
  submits <- mode = "submit",
  call    <- [c \in Calls |->
                IF stage[c] \in {"funded", "signed"} THEN "running"
                ELSE IF stage[c] = "answered" THEN "posted"
                ELSE stage[c]],
  sent    <- Sent

ImplementsSubmission == Promise!SubmissionSpec

\* sequencer_service.rs:251 "If Redis broadcast succeeded and sequencer says already
\* known" and 261 "Transaction broadcast via Redis": the success that a "known"
\* answer is turned into rests on a broadcast that succeeded.
KnownMeansBroadcast ==
  mode = "submit" =>
    \A c \in Calls : stage[c] = "ok" /\ answer[c] = "known" =>
      broadcast[c] = "published"
=============================================================================
