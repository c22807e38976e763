---------------------- MODULE TransactionServiceProofs ----------------------
(***************************************************************************)
(* Concurrent calls of the transaction service never leave a wallet with two *)
(* pending transactions, and each keeps the promise of Submission, for every *)
(* number of calls and wallets and whatever the sequencer, the chain and     *)
(* Redis do.                                                                 *)
(***************************************************************************)
EXTENDS TransactionService, TLAPS

\* A service that does not send never gets that far.
ModeInv ==
  \A c \in Calls :
    /\ mode = "disabled" => stage[c] \in {"idle", "ok"}
    /\ mode # "submit" => stage[c] \notin {"signed", "posted", "answered"}

\* Nothing leaves the process before it is signed, and an answer was given to a
\* request that arrived.
OrderInv ==
  \A c \in Calls :
    /\ stage[c] \in {"idle", "running", "funded", "signed"} => broadcast[c] = "none"
    /\ stage[c] = "answered" => answer[c] # "none"
    /\ answer[c] # "none" => c \in arrived
    /\ c \in arrived \/ c \in pool => broadcast[c] # "none"

\* What was signed is the next transaction of its account, or one the account has
\* passed: the chain moves on, and nothing is signed ahead of it.
NonceInv ==
  \A c \in Calls :
    /\ stage[c] = "funded" => wallet[c] \in Wallets
    /\ stage[c] = "signed" \/ broadcast[c] # "none" =>
         wallet[c] \in Wallets /\ nonce[c] <= mined[wallet[c]]

\* Who publishes has the lock.
LockInv ==
  \A c \in Calls : broadcast[c] = "publishing" => queue # << >> /\ Head(queue) = c

ServiceInv == TypeOK /\ ModeInv /\ OrderInv /\ NonceInv /\ LockInv /\ OnePendingPerWallet

\* The state of the calls as their caller sees it.
Seen == [c \in Calls |->
           IF stage[c] \in {"funded", "signed"} THEN "running"
           ELSE IF stage[c] = "answered" THEN "posted"
           ELSE stage[c]]

-----------------------------------------------------------------------------
LEMMA HeadTail ==
  ASSUME NEW S, NEW s \in Seq(S), s # << >>
  PROVE  Head(s) \in S /\ Tail(s) \in Seq(S)
  OBVIOUS

LEMMA AppendHead ==
  ASSUME NEW S, NEW s \in Seq(S), NEW e \in S
  PROVE  /\ Append(s, e) \in Seq(S) /\ Append(s, e) # << >>
         /\ s # << >> => Head(Append(s, e)) = Head(s)
  <1>1. Append(s, e) \in Seq(S) /\ Len(Append(s, e)) = Len(s) + 1 /\ Len(s) \in Nat
    OBVIOUS
  <1>2. Append(s, e) # << >>
    BY <1>1
  <1>3. ASSUME s # << >> PROVE Head(Append(s, e)) = Head(s)
    <2>1. Len(s) >= 1
      BY <1>3
    <2>2. Append(s, e)[1] = s[1]
      BY <1>1, <2>1
    <2> QED BY <1>1, <1>2, <1>3, <2>2
  <1> QED BY <1>1, <1>2, <1>3

LEMMA ServiceInit == Init => ServiceInv
  <1> SUFFICES ASSUME Init PROVE ServiceInv
    OBVIOUS
  <1>1. WalletCount \in Nat /\ 0 \in Wallets /\ 0 \in 0 .. MaxNonce
    BY ServiceAssumption DEF Wallets
  <1>2. TypeOK
    BY <1>1 DEF Init, TypeOK, Stages, Answers, Broadcasts
  <1> QED BY <1>2 DEF Init, ServiceInv, ModeInv, OrderInv, NonceInv, LockInv,
                      OnePendingPerWallet

-----------------------------------------------------------------------------
(* The calls.                                                                *)

\* A step of a call that sends nothing, and takes it where a call that has sent, or
\* has not, may be.
LEMMA MoveInv ==
  ASSUME ServiceInv, NEW c \in Calls, NEW s \in Stages, Goto(c, s),
         UNCHANGED <<config, wallet, nonce, walletIndex, answer, arrived, channel, world>>,
         s \in {"idle", "running", "funded", "signed"} => broadcast[c] = "none",
         s = "answered" => answer[c] # "none",
         s = "funded" => wallet[c] \in Wallets,
         s = "signed" => wallet[c] \in Wallets /\ nonce[c] <= mined[wallet[c]],
         mode = "disabled" => s \in {"idle", "ok"},
         mode # "submit" => s \notin {"signed", "posted", "answered"}
  PROVE  ServiceInv'
  <1>1. /\ stage' = [stage EXCEPT ![c] = s] /\ stage \in [Calls -> Stages]
        /\ UNCHANGED <<mode, strategy, wallet, nonce, walletIndex, answer, arrived, redis, queue,
                       broadcast, mined, pool>>
    BY DEF Goto, ServiceInv, TypeOK, config, channel, world
  <1>2. /\ stage' \in [Calls -> Stages] /\ stage'[c] = s
        /\ \A d \in Calls \ {c} : stage'[d] = stage[d]
    BY <1>1
  <1>3. TypeOK'
    BY <1>1, <1>2 DEF ServiceInv, TypeOK
  <1>4. ModeInv'
    BY <1>1, <1>2 DEF ServiceInv, ModeInv
  <1>5. OrderInv'
    BY <1>1, <1>2 DEF ServiceInv, OrderInv
  <1>6. NonceInv'
    BY <1>1, <1>2 DEF ServiceInv, NonceInv
  <1>7. LockInv' /\ OnePendingPerWallet'
    BY <1>1 DEF ServiceInv, LockInv, OnePendingPerWallet
  <1> QED BY <1>3, <1>4, <1>5, <1>6, <1>7 DEF ServiceInv

LEMMA GetNextWalletInv ==
  ASSUME ServiceInv, NEW c \in Calls, GetNextWallet(c) PROVE ServiceInv'
  <1>1. PICK w \in Wallets : wallet' = [wallet EXCEPT ![c] = w]
    BY DEF GetNextWallet
  <1>2. /\ stage[c] = "running" /\ stage' = [stage EXCEPT ![c] = "funded"]
        /\ walletIndex' = IF strategy = "round_robin"
                            THEN (walletIndex + 1) % WalletCount ELSE walletIndex
        /\ UNCHANGED <<mode, strategy, nonce, answer, arrived, redis, queue, broadcast, mined,
                       pool>>
    BY DEF GetNextWallet, Goto, config, channel, world
  <1>3. /\ stage \in [Calls -> Stages] /\ wallet \in [Calls -> Wallets \cup {NoWallet}]
        /\ walletIndex \in Wallets
    BY DEF ServiceInv, TypeOK
  <1>4. /\ stage'[c] = "funded" /\ wallet'[c] = w
        /\ \A d \in Calls \ {c} : stage'[d] = stage[d] /\ wallet'[d] = wallet[d]
    BY <1>1, <1>2, <1>3
  <1>5. broadcast[c] = "none" /\ c \notin pool
    BY <1>2 DEF ServiceInv, OrderInv
  <1>6. walletIndex' \in Wallets
    BY <1>2, <1>3, ServiceAssumption DEF Wallets
  <1>7. TypeOK'
    BY <1>1, <1>2, <1>3, <1>6 DEF ServiceInv, TypeOK, Stages
  <1>8. ModeInv'
    BY <1>2, <1>4 DEF ServiceInv, ModeInv
  <1>9. OrderInv'
    BY <1>2, <1>4, <1>5 DEF ServiceInv, OrderInv
  <1>10. NonceInv'
    BY <1>2, <1>4, <1>5 DEF ServiceInv, NonceInv
  <1>11. LockInv'
    BY <1>2 DEF ServiceInv, LockInv
  <1>12. OnePendingPerWallet'
    <2>1. \A d \in pool : wallet'[d] = wallet[d]
      BY <1>4, <1>5 DEF ServiceInv, TypeOK
    <2> QED BY <1>2, <2>1 DEF ServiceInv, OnePendingPerWallet
  <1> QED BY <1>7, <1>8, <1>9, <1>10, <1>11, <1>12 DEF ServiceInv

LEMMA SignInv ==
  ASSUME ServiceInv, NEW c \in Calls, Sign(c) PROVE ServiceInv'
  <1> DEFINE s == IF mode = "dry_run" THEN "ok" ELSE "signed"
  <1>1. /\ stage[c] = "funded" /\ stage' = [stage EXCEPT ![c] = s]
        /\ nonce' = [nonce EXCEPT ![c] = mined[wallet[c]]]
        /\ UNCHANGED <<mode, strategy, wallet, walletIndex, answer, arrived, redis, queue,
                       broadcast, mined, pool>>
    BY DEF Sign, Goto, config, channel, world
  <1>2. /\ stage \in [Calls -> Stages] /\ nonce \in [Calls -> 0 .. MaxNonce]
        /\ mined \in [Wallets -> 0 .. MaxNonce] /\ MaxNonce \in Nat
        /\ mode \in {"disabled", "dry_run", "submit"}
    BY ServiceAssumption DEF ServiceInv, TypeOK
  <1>3. wallet[c] \in Wallets /\ broadcast[c] = "none" /\ c \notin pool /\ mode # "disabled"
    BY <1>1 DEF ServiceInv, OrderInv, NonceInv, ModeInv
  <1>4. mined[wallet[c]] \in 0 .. MaxNonce
    BY <1>2, <1>3
  <1>5. s \in {"ok", "signed"} /\ (s = "signed" => mode = "submit") /\ s \in Stages
    BY <1>2, <1>3 DEF Stages
  <1> HIDE DEF s
  <1>6. /\ stage'[c] = s /\ nonce'[c] = mined[wallet[c]]
        /\ \A d \in Calls \ {c} : stage'[d] = stage[d] /\ nonce'[d] = nonce[d]
    BY <1>1, <1>2
  <1>7. stage' \in [Calls -> Stages] /\ nonce' \in [Calls -> 0 .. MaxNonce]
    BY <1>1, <1>2, <1>4, <1>5
  <1>8. TypeOK'
    BY <1>1, <1>7 DEF ServiceInv, TypeOK
  <1>9. ModeInv'
    BY <1>1, <1>3, <1>5, <1>6 DEF ServiceInv, ModeInv
  <1>10. OrderInv'
    BY <1>1, <1>3, <1>5, <1>6 DEF ServiceInv, OrderInv
  <1>11. NonceInv'
    BY <1>1, <1>3, <1>4, <1>5, <1>6 DEF ServiceInv, NonceInv
  <1>12. LockInv'
    BY <1>1 DEF ServiceInv, LockInv
  <1>13. OnePendingPerWallet'
    BY <1>1, <1>3, <1>6 DEF ServiceInv, TypeOK, OnePendingPerWallet
  <1> QED BY <1>8, <1>9, <1>10, <1>11, <1>12, <1>13 DEF ServiceInv

LEMMA SendInv ==
  ASSUME ServiceInv, NEW c \in Calls, Send(c) PROVE ServiceInv'
  <1>1. /\ stage[c] = "signed" /\ stage' = [stage EXCEPT ![c] = "posted"]
        /\ broadcast' = [broadcast EXCEPT ![c] = "spawned"]
        /\ UNCHANGED <<mode, strategy, wallet, nonce, walletIndex, answer, arrived, redis, queue,
                       mined, pool>>
    BY DEF Send, Goto, config, world
  <1>2. stage \in [Calls -> Stages] /\ broadcast \in [Calls -> Broadcasts]
    BY DEF ServiceInv, TypeOK
  <1>3. /\ stage'[c] = "posted" /\ broadcast'[c] = "spawned"
        /\ \A d \in Calls \ {c} : stage'[d] = stage[d] /\ broadcast'[d] = broadcast[d]
    BY <1>1, <1>2
  <1>4. wallet[c] \in Wallets /\ nonce[c] <= mined[wallet[c]] /\ mode = "submit"
    BY <1>1 DEF ServiceInv, NonceInv, ModeInv
  <1>5. stage' \in [Calls -> Stages] /\ broadcast' \in [Calls -> Broadcasts]
    BY <1>1, <1>2 DEF Stages, Broadcasts
  <1>6. TypeOK'
    BY <1>1, <1>5 DEF ServiceInv, TypeOK
  <1>7. ModeInv'
    BY <1>1, <1>3, <1>4 DEF ServiceInv, ModeInv
  <1>8. OrderInv'
    BY <1>1, <1>3 DEF ServiceInv, OrderInv
  <1>9. NonceInv'
    BY <1>1, <1>3, <1>4 DEF ServiceInv, NonceInv
  <1>10. LockInv'
    BY <1>1, <1>3 DEF ServiceInv, LockInv
  <1>11. OnePendingPerWallet'
    BY <1>1 DEF ServiceInv, OnePendingPerWallet
  <1> QED BY <1>6, <1>7, <1>8, <1>9, <1>10, <1>11 DEF ServiceInv

\* The steps that only move a call on.
LEMMA PlainStepInv ==
  ASSUME ServiceInv, NEW c \in Calls,
         Begin(c) \/ FailUnsent(c) \/ FailPost(c) \/ ReadAnswer(c) \/ Join(c) \/ Timeout(c)
  PROVE  ServiceInv'
  <1>1. mode \in {"disabled", "dry_run", "submit"} /\ \A s \in {"running", "answered", "ok",
          "failed"} : s \in Stages
    BY ServiceAssumption DEF ServiceInv, TypeOK, Stages
  <1>2. UNCHANGED <<config, wallet, nonce, walletIndex, answer, arrived, channel, world>>
    BY DEF Begin, FailUnsent, FailPost, ReadAnswer, Join, Timeout
  <1>3. /\ stage[c] # "idle" => mode # "disabled" \/ stage[c] = "ok"
        /\ stage[c] \in {"posted", "answered"} => mode = "submit"
        /\ stage[c] = "idle" => broadcast[c] = "none"
    BY DEF ServiceInv, ModeInv, OrderInv
  <1>4. CASE Begin(c)
    <2>1. CASE mode = "disabled"
      BY <1>1, <1>2, <1>4, <2>1, MoveInv DEF Begin
    <2>2. CASE mode # "disabled"
      BY <1>1, <1>2, <1>3, <1>4, <2>2, MoveInv DEF Begin
    <2> QED BY <2>1, <2>2
  <1>5. CASE FailUnsent(c) \/ FailPost(c) \/ Timeout(c)
    <2>1. stage[c] \notin {"idle", "ok"} /\ Goto(c, "failed")
      BY <1>5 DEF FailUnsent, FailPost, Timeout
    <2> QED BY <1>1, <1>2, <1>3, <2>1, MoveInv
  <1>6. CASE ReadAnswer(c)
    <2>1. stage[c] = "posted" /\ answer[c] # "none" /\ mode = "submit"
      BY <1>3, <1>6 DEF ReadAnswer
    <2>2. CASE answer[c] = "unusable"
      BY <1>1, <1>2, <1>6, <2>1, <2>2, MoveInv DEF ReadAnswer
    <2>3. CASE answer[c] # "unusable"
      BY <1>1, <1>2, <1>6, <2>1, <2>3, MoveInv DEF ReadAnswer
    <2> QED BY <2>2, <2>3
  <1>7. CASE Join(c)
    <2>1. mode = "submit" /\ (Goto(c, "ok") \/ Goto(c, "failed"))
      BY <1>3, <1>7 DEF Join
    <2> QED BY <1>1, <1>2, <2>1, MoveInv
  <1> QED BY <1>4, <1>5, <1>6, <1>7

-----------------------------------------------------------------------------
(* The broadcasts.                                                           *)

\* A step of a broadcast that has been spawned.
LEMMA BroadcastMoveInv ==
  ASSUME ServiceInv, NEW c \in Calls, broadcast[c] # "none",
         NEW b \in Broadcasts \ {"none"}, SetBroadcast(c, b),
         UNCHANGED <<config, local, answer, arrived, redis, world>>,
         queue' \in Seq(Calls), LockInv'
  PROVE  ServiceInv'
  <1>1. /\ broadcast' = [broadcast EXCEPT ![c] = b] /\ broadcast \in [Calls -> Broadcasts]
        /\ UNCHANGED <<mode, strategy, stage, wallet, nonce, walletIndex, answer, arrived, redis,
                       mined, pool>>
    BY DEF SetBroadcast, ServiceInv, TypeOK, config, local, world
  <1>2. /\ broadcast' \in [Calls -> Broadcasts]
        /\ \A d \in Calls : broadcast'[d] = "none" <=> broadcast[d] = "none"
    BY <1>1
  <1>3. TypeOK'
    BY <1>1, <1>2 DEF ServiceInv, TypeOK
  <1>4. ModeInv' /\ OrderInv' /\ NonceInv' /\ OnePendingPerWallet'
    BY <1>1, <1>2 DEF ServiceInv, ModeInv, OrderInv, NonceInv, OnePendingPerWallet
  <1> QED BY <1>3, <1>4 DEF ServiceInv

LEMMA BroadcastInv ==
  ASSUME ServiceInv, NEW c \in Calls, Broadcast(c) PROVE ServiceInv'
  <1>1. queue \in Seq(Calls) /\ broadcast \in [Calls -> Broadcasts] /\ LockInv
    BY DEF ServiceInv, TypeOK
  <1>2. CASE WaitForConnection(c)
    <2>1. /\ broadcast[c] = "spawned" /\ SetBroadcast(c, "waiting")
          /\ queue' = Append(queue, c)
          /\ UNCHANGED <<config, local, answer, arrived, redis, world>>
      BY <1>2 DEF WaitForConnection
    <2>2. queue' \in Seq(Calls) /\ LockInv'
      BY <1>1, <2>1, AppendHead DEF LockInv, SetBroadcast
    <2> QED BY <2>1, <2>2, BroadcastMoveInv DEF Broadcasts
  <1>3. CASE StartBroadcast(c)
    <2>1. /\ queue # << >> /\ Head(queue) = c /\ broadcast[c] = "waiting"
          /\ (SetBroadcast(c, "publishing") /\ queue' = queue)
               \/ (SetBroadcast(c, "skipped") /\ queue' = Tail(queue))
          /\ UNCHANGED <<config, local, answer, arrived, redis, world>>
      BY <1>3 DEF StartBroadcast
    <2>2. queue' \in Seq(Calls)
      BY <1>1, <2>1, HeadTail
    <2>3. LockInv'
      BY <1>1, <2>1 DEF LockInv, SetBroadcast
    <2> QED BY <2>1, <2>2, <2>3, BroadcastMoveInv DEF Broadcasts
  <1>4. CASE FinishBroadcast(c)
    <2>1. PICK b \in {"published", "failed"} : SetBroadcast(c, b)
      BY <1>4 DEF FinishBroadcast
    <2>2. /\ broadcast[c] = "publishing" /\ queue' = Tail(queue)
          /\ UNCHANGED <<config, local, answer, arrived, redis, world>>
      BY <1>4 DEF FinishBroadcast
    <2>3. queue' \in Seq(Calls)
      BY <1>1, <2>2, HeadTail DEF LockInv
    <2>4. LockInv'
      BY <1>1, <2>1, <2>2 DEF LockInv, SetBroadcast
    <2> QED BY <2>1, <2>2, <2>3, <2>4, BroadcastMoveInv DEF Broadcasts
  <1> QED BY <1>2, <1>3, <1>4 DEF Broadcast

LEMMA RedisInv == ServiceInv /\ (InitRedis \/ RedisHangs) => ServiceInv'
  BY DEF InitRedis, RedisHangs, ServiceInv, TypeOK, ModeInv, OrderInv, NonceInv, LockInv,
         OnePendingPerWallet, config, local, world

-----------------------------------------------------------------------------
(* The outside world.                                                        *)

\* What enters the pool is the next transaction of its account, and the only one.
LEMMA PoolEntry ==
  ASSUME ServiceInv, NEW c \in Calls, broadcast[c] # "none",
         nonce[c] >= mined[wallet[c]], UNCHANGED <<config, local, channel, mined>>,
         pool' = (pool \ Conflicts(c)) \cup {c}
  PROVE  OnePendingPerWallet'
  <1>1. /\ wallet[c] \in Wallets /\ nonce[c] \in Nat /\ mined[wallet[c]] \in Nat
        /\ nonce[c] <= mined[wallet[c]] /\ MaxNonce \in Nat
    BY ServiceAssumption DEF ServiceInv, TypeOK, NonceInv
  <1>2. nonce[c] = mined[wallet[c]]
    BY <1>1
  <1>3. \A d \in pool : /\ nonce[d] = mined[wallet[d]]
                        /\ \A e \in pool : wallet[e] = wallet[d] => e = d
    BY DEF ServiceInv, OnePendingPerWallet
  <1>4. \A d \in pool \ {c} : wallet[d] = wallet[c] => d \notin pool'
    <2> SUFFICES ASSUME NEW d \in pool \ {c}, wallet[d] = wallet[c] PROVE d \notin pool'
      OBVIOUS
    <2>1. d \in Conflicts(c)
      BY <1>2, <1>3 DEF Conflicts, Slot
    <2> QED BY <2>1
  <1>5. UNCHANGED <<nonce, wallet, mined>>
    BY DEF local
  <1>6. \A d \in pool' : d = c \/ d \in pool
    OBVIOUS
  <1> HIDE DEF Conflicts
  <1> QED BY <1>2, <1>3, <1>4, <1>5, <1>6 DEF OnePendingPerWallet

LEMMA JudgeInv == ASSUME ServiceInv, NEW c \in Calls, Judge(c) PROVE ServiceInv'
  <1>1. /\ c \in Sent \ arrived /\ arrived' = arrived \cup {c}
        /\ \E a \in Answers \ {"none"} : answer' = [answer EXCEPT ![c] = a]
        /\ UNCHANGED <<config, local, channel, mined>>
        /\ pool' = pool
             \/ (nonce[c] >= mined[wallet[c]] /\ pool' = (pool \ Conflicts(c)) \cup {c})
    BY DEF Judge, Answers
  <1>2. broadcast[c] # "none" /\ answer \in [Calls -> Answers]
    BY <1>1 DEF Sent, ServiceInv, TypeOK
  <1>3. UNCHANGED <<mode, strategy, stage, wallet, nonce, walletIndex, redis, queue, broadcast,
                    mined>>
    BY <1>1 DEF config, local, channel
  <1>4. /\ answer' \in [Calls -> Answers] /\ answer'[c] # "none"
        /\ \A d \in Calls \ {c} : answer'[d] = answer[d]
    BY <1>1, <1>2
  <1>5. \A d \in pool' : d = c \/ d \in pool
    BY <1>1
  <1>6. OnePendingPerWallet'
    BY <1>1, <1>2, <1>3, PoolEntry DEF ServiceInv, OnePendingPerWallet
  <1>7. TypeOK'
    BY <1>1, <1>3, <1>4, <1>5 DEF ServiceInv, TypeOK
  <1>8. OrderInv'
    BY <1>1, <1>2, <1>3, <1>4, <1>5 DEF ServiceInv, OrderInv
  <1>9. ModeInv' /\ NonceInv' /\ LockInv'
    BY <1>3 DEF ServiceInv, ModeInv, NonceInv, LockInv
  <1> QED BY <1>6, <1>7, <1>8, <1>9 DEF ServiceInv

LEMMA PeerSubmitsInv == ASSUME ServiceInv, NEW c \in Calls, PeerSubmits(c) PROVE ServiceInv'
  <1>1. /\ broadcast[c] = "published" /\ nonce[c] >= mined[wallet[c]]
        /\ pool' = (pool \ Conflicts(c)) \cup {c}
        /\ UNCHANGED <<config, local, answer, arrived, channel, mined>>
    BY DEF PeerSubmits
  <1>2. UNCHANGED <<mode, strategy, stage, wallet, nonce, walletIndex, answer, arrived, redis,
                    queue, broadcast, mined>>
    BY <1>1 DEF config, local, channel
  <1>3. \A d \in pool' : d = c \/ d \in pool
    BY <1>1
  <1>4. OnePendingPerWallet'
    BY <1>1, PoolEntry
  <1>5. TypeOK' /\ OrderInv'
    BY <1>1, <1>2, <1>3 DEF ServiceInv, TypeOK, OrderInv
  <1>6. ModeInv' /\ NonceInv' /\ LockInv'
    BY <1>2 DEF ServiceInv, ModeInv, NonceInv, LockInv
  <1> QED BY <1>4, <1>5, <1>6 DEF ServiceInv

\* Mining one takes what conflicts with it along, and nobody else's turn comes later
\* than it was.
LEMMA MineInv == ASSUME ServiceInv, NEW c \in Calls, Mine(c) PROVE ServiceInv'
  <1>1. /\ c \in pool /\ nonce[c] = mined[wallet[c]] /\ mined[wallet[c]] < MaxNonce
        /\ mined' = [mined EXCEPT ![wallet[c]] = mined[wallet[c]] + 1]
        /\ pool' = pool \ ({c} \cup Conflicts(c))
        /\ UNCHANGED <<config, local, answer, arrived, channel>>
    BY DEF Mine
  <1>2. UNCHANGED <<mode, strategy, stage, wallet, nonce, walletIndex, answer, arrived, redis,
                    queue, broadcast>>
    BY <1>1 DEF config, local, channel
  <1>3. /\ wallet[c] \in Wallets /\ mined \in [Wallets -> 0 .. MaxNonce] /\ MaxNonce \in Nat
        /\ nonce \in [Calls -> 0 .. MaxNonce] /\ pool \subseteq Calls
    BY <1>1, ServiceAssumption DEF ServiceInv, TypeOK, NonceInv, OrderInv
  <1>4. /\ mined' \in [Wallets -> 0 .. MaxNonce]
        /\ \A w \in Wallets : mined[w] <= mined'[w] /\ (w # wallet[c] => mined'[w] = mined[w])
    BY <1>1, <1>3
  <1>5. \A d \in pool' : d \in pool /\ d # c
    BY <1>1
  <1>6. TypeOK'
    BY <1>2, <1>3, <1>4, <1>5 DEF ServiceInv, TypeOK
  <1>7. ModeInv' /\ OrderInv' /\ LockInv'
    BY <1>2, <1>5 DEF ServiceInv, ModeInv, OrderInv, LockInv
  <1>8. NonceInv'
    <2> SUFFICES ASSUME NEW d \in Calls PROVE
          /\ stage[d] = "funded" => wallet[d] \in Wallets
          /\ stage[d] = "signed" \/ broadcast[d] # "none" =>
               wallet[d] \in Wallets /\ nonce[d] <= mined'[wallet[d]]
      BY <1>2 DEF NonceInv
    <2>1. /\ stage[d] = "funded" => wallet[d] \in Wallets
          /\ stage[d] = "signed" \/ broadcast[d] # "none" =>
               wallet[d] \in Wallets /\ nonce[d] <= mined[wallet[d]]
      BY DEF ServiceInv, NonceInv
    <2>2. ASSUME wallet[d] \in Wallets, nonce[d] <= mined[wallet[d]]
          PROVE  nonce[d] <= mined'[wallet[d]]
      BY <1>3, <1>4, <2>2
    <2> QED BY <2>1, <2>2
  <1>9. OnePendingPerWallet'
    <2>1. \A d \in pool : /\ nonce[d] = mined[wallet[d]] /\ wallet[d] \in Wallets
                          /\ \A e \in pool : wallet[e] = wallet[d] => e = d
      BY <1>3 DEF ServiceInv, OnePendingPerWallet, NonceInv, OrderInv
    <2>2. \A d \in pool' : wallet[d] # wallet[c]
      BY <1>1, <1>5, <2>1
    <2> HIDE DEF Conflicts
    <2> QED BY <1>2, <1>4, <1>5, <2>1, <2>2 DEF OnePendingPerWallet
  <1> QED BY <1>6, <1>7, <1>8, <1>9 DEF ServiceInv

-----------------------------------------------------------------------------
LEMMA ServiceStep == ServiceInv /\ [Next]_vars => ServiceInv'
  <1> SUFFICES ASSUME ServiceInv, [Next]_vars PROVE ServiceInv'
    OBVIOUS
  <1>1. CASE InitRedis \/ RedisHangs
    BY <1>1, RedisInv
  <1>2. ASSUME NEW c \in Calls, Call(c) PROVE ServiceInv'
    BY <1>2, GetNextWalletInv, SignInv, SendInv, PlainStepInv DEF Call
  <1>3. ASSUME NEW c \in Calls, Broadcast(c) PROVE ServiceInv'
    BY <1>3, BroadcastInv
  <1>4. ASSUME NEW c \in Calls, World(c) PROVE ServiceInv'
    BY <1>4, JudgeInv, PeerSubmitsInv, MineInv DEF World
  <1>5. CASE UNCHANGED vars
    BY <1>5 DEF vars, config, local, channel, world, ServiceInv, TypeOK, ModeInv, OrderInv,
                NonceInv, LockInv, OnePendingPerWallet
  <1> QED BY <1>1, <1>2, <1>3, <1>4, <1>5 DEF Next

\* The inductive invariant holds in every reachable state.
THEOREM ServiceInvariant == Spec => []ServiceInv
  BY ServiceInit, ServiceStep, PTL DEF Spec

\* Every reachable state of the service is well typed, its lock included: the write
\* lock of the connection is given up only by who holds it.
THEOREM ServiceTypeOK == Spec => []TypeOK
  <1>1. ServiceInv => TypeOK
    BY DEF ServiceInv
  <1> QED BY <1>1, ServiceInit, ServiceStep, PTL DEF Spec

\* Calls that sign at once read the same nonce, which costs them a submission, but the
\* sequencer never holds two transactions of a wallet, nor one that waits for another.
THEOREM ServiceOnePending == Spec => []OnePendingPerWallet
  <1>1. ServiceInv => OnePendingPerWallet
    BY DEF ServiceInv
  <1> QED BY <1>1, ServiceInit, ServiceStep, PTL DEF Spec

-----------------------------------------------------------------------------
(* The promise to the caller.                                                *)

View(s) ==
  IF s \in {"funded", "signed"} THEN "running" ELSE IF s = "answered" THEN "posted" ELSE s

Submits == mode = "submit"

\* A step of a call, as its caller sees it.
LEMMA SeenMove ==
  ASSUME ServiceInv, NEW c \in Calls, NEW s, Goto(c, s)
  PROVE  /\ Seen' = [Seen EXCEPT ![c] = View(s)]
         /\ Seen[c] = View(stage[c])
         /\ View(s) = View(stage[c]) => Seen' = Seen
  <1>1. stage \in [Calls -> Stages] /\ stage' = [stage EXCEPT ![c] = s]
    BY DEF ServiceInv, TypeOK, Goto
  <1>2. stage'[c] = s /\ \A d \in Calls \ {c} : stage'[d] = stage[d]
    BY <1>1
  <1>3. Seen = [d \in Calls |-> View(stage[d])] /\ Seen' = [d \in Calls |-> View(stage'[d])]
    BY DEF Seen, View
  <1> HIDE DEF View, Seen
  <1> QED BY <1>2, <1>3

\* What a caller sees of a step is a step of Submission, or nothing.
LEMMA SubmissionStep ==
  ServiceInv /\ [Next]_vars => [Promise!SubmissionNext]_(Promise!submission)
  <1> SUFFICES ASSUME ServiceInv, [Next]_vars
               PROVE  [Promise!SubmissionNext]_(Promise!submission)
    OBVIOUS
  <1> DEFINE Nothing == /\ Seen' = Seen /\ Sent' = Sent /\ UNCHANGED arrived
                        /\ Submits' = Submits
  <1>1. ASSUME Nothing PROVE [Promise!SubmissionNext]_(Promise!submission)
    BY <1>1 DEF Promise!submission, Seen, Submits
  <1>2. ASSUME UNCHANGED <<stage, mode, arrived>>, Sent' = Sent PROVE Nothing
    BY <1>2 DEF Seen, Submits
  <1>3. ASSUME UNCHANGED channel PROVE Sent' = Sent
    BY <1>3 DEF channel, Sent
  <1>4. mode \in {"disabled", "dry_run", "submit"}
    BY ServiceAssumption DEF ServiceInv, TypeOK
  <1>5. ASSUME NEW c \in Calls,
               Begin(c) \/ GetNextWallet(c) \/ Sign(c) \/ FailUnsent(c) \/ FailPost(c)
                 \/ ReadAnswer(c) \/ Join(c) \/ Timeout(c)
        PROVE  [Promise!SubmissionNext]_(Promise!submission)
    <2>1. Sent' = Sent /\ UNCHANGED <<mode, arrived>>
      BY <1>3, <1>5 DEF Begin, GetNextWallet, Sign, FailUnsent, FailPost, ReadAnswer, Join,
                        Timeout, config
    <2>2. ASSUME NEW to, Seen[c] = "running", Seen' = [Seen EXCEPT ![c] = to],
                 to = "failed" \/ (to = "ok" /\ ~Submits)
          PROVE  Promise!SubmissionNext
      <3>1. Promise!EndUnsent(c)
        BY <2>1, <2>2 DEF Promise!EndUnsent, Promise!Move, Seen, Submits
      <3> QED BY <2>1, <3>1 DEF Promise!SubmissionNext
    <2>3. ASSUME NEW to, Seen[c] = "posted", Seen' = [Seen EXCEPT ![c] = to],
                 to = "failed" \/ (to = "ok" /\ c \in arrived)
          PROVE  Promise!SubmissionNext
      <3>1. Promise!EndSent(c)
        BY <2>1, <2>3 DEF Promise!EndSent, Promise!Move, Seen
      <3> QED BY <2>1, <3>1 DEF Promise!SubmissionNext
    <2>4. CASE Begin(c)
      <3>1. stage[c] = "idle" /\ Goto(c, IF mode = "disabled" THEN "ok" ELSE "running")
        BY <2>4 DEF Begin
      <3>2. /\ Seen[c] = "idle"
            /\ Seen' = [Seen EXCEPT ![c] = IF mode = "disabled" THEN "ok" ELSE "running"]
        BY <3>1, SeenMove DEF View
      <3>3. Promise!Begin(c)
        BY <2>1, <3>2 DEF Promise!Begin, Promise!Move, Seen
      <3> QED BY <2>1, <3>3 DEF Promise!SubmissionNext
    <2>5. CASE GetNextWallet(c)
      <3>1. stage[c] = "running" /\ Goto(c, "funded")
        BY <2>5 DEF GetNextWallet
      <3>2. Seen' = Seen
        BY <3>1, SeenMove DEF View
      <3> QED BY <1>1, <2>1, <3>2 DEF Submits
    <2>6. CASE Sign(c)
      <3>1. stage[c] = "funded" /\ Goto(c, IF mode = "dry_run" THEN "ok" ELSE "signed")
        BY <2>6 DEF Sign
      <3>2. CASE mode = "dry_run"
        <4>1. Seen[c] = "running" /\ Seen' = [Seen EXCEPT ![c] = "ok"] /\ ~Submits
          BY <3>1, <3>2, SeenMove DEF View, Submits
        <4> QED BY <2>2, <4>1
      <3>3. CASE mode # "dry_run"
        <4>1. Seen' = Seen
          BY <3>1, <3>3, SeenMove DEF View
        <4> QED BY <1>1, <2>1, <4>1 DEF Submits
      <3> QED BY <3>2, <3>3
    <2>7. CASE FailUnsent(c)
      <3>1. Seen[c] = "running" /\ Seen' = [Seen EXCEPT ![c] = "failed"]
        BY <2>7, SeenMove DEF FailUnsent, View
      <3> QED BY <2>2, <3>1
    <2>8. CASE FailPost(c)
      <3>1. Seen[c] = "posted" /\ Seen' = [Seen EXCEPT ![c] = "failed"]
        BY <2>8, SeenMove DEF FailPost, View
      <3> QED BY <2>3, <3>1
    <2>9. CASE ReadAnswer(c)
      <3>1. CASE answer[c] = "unusable"
        <4>1. Seen[c] = "posted" /\ Seen' = [Seen EXCEPT ![c] = "failed"]
          BY <2>9, <3>1, SeenMove DEF ReadAnswer, View
        <4> QED BY <2>3, <4>1
      <3>2. CASE answer[c] # "unusable"
        <4>1. Seen' = Seen
          BY <2>9, <3>2, SeenMove DEF ReadAnswer, View
        <4> QED BY <1>1, <2>1, <4>1 DEF Submits
      <3> QED BY <3>1, <3>2
    <2>10. CASE Join(c)
      <3>1. c \in arrived
        BY <2>10 DEF Join, ServiceInv, OrderInv
      <3>2. stage[c] = "answered" /\ (Goto(c, "ok") \/ Goto(c, "failed"))
        BY <2>10 DEF Join
      <3>3. PICK to \in {"ok", "failed"} : Seen' = [Seen EXCEPT ![c] = to]
        BY <3>2, SeenMove DEF View
      <3>4. Seen[c] = "posted"
        BY <3>2, SeenMove DEF View
      <3> QED BY <2>3, <3>1, <3>3, <3>4
    <2>11. CASE Timeout(c)
      <3>1. /\ Seen' = [Seen EXCEPT ![c] = "failed"]
            /\ Seen[c] = "running" \/ Seen[c] = "posted"
        BY <2>11, SeenMove DEF Timeout, View
      <3> QED BY <2>2, <2>3, <3>1
    <2> QED BY <1>5, <2>4, <2>5, <2>6, <2>7, <2>8, <2>9, <2>10, <2>11
  <1>6. ASSUME NEW c \in Calls, Send(c) PROVE Promise!SubmissionNext
    <2>1. /\ stage[c] = "signed" /\ Goto(c, "posted")
          /\ broadcast' = [broadcast EXCEPT ![c] = "spawned"] /\ UNCHANGED <<mode, arrived>>
      BY <1>6 DEF Send, config
    <2>2. broadcast \in [Calls -> Broadcasts] /\ Submits
      BY <2>1 DEF ServiceInv, TypeOK, ModeInv, Submits
    <2>3. Sent' = Sent \cup {c}
      BY <2>1, <2>2 DEF Sent
    <2>4. Seen[c] = "running" /\ Seen' = [Seen EXCEPT ![c] = "posted"]
      BY <2>1, SeenMove DEF View
    <2>5. Promise!SendOnce(c)
      BY <2>1, <2>2, <2>3, <2>4 DEF Promise!SendOnce, Promise!Move, Seen, Submits
    <2> QED BY <2>1, <2>5 DEF Promise!SubmissionNext
  <1>7. ASSUME NEW c \in Calls, Broadcast(c)
        PROVE  [Promise!SubmissionNext]_(Promise!submission)
    <2>1. /\ UNCHANGED <<stage, mode, arrived>>
          /\ broadcast[c] # "none" /\ \E b \in Broadcasts \ {"none"} : SetBroadcast(c, b)
      BY <1>7 DEF Broadcast, WaitForConnection, StartBroadcast, FinishBroadcast, SetBroadcast,
                  Broadcasts, config, local
    <2>2. Sent' = Sent
      BY <2>1 DEF SetBroadcast, Sent, ServiceInv, TypeOK
    <2> QED BY <1>1, <1>2, <2>1, <2>2
  <1>8. ASSUME NEW c \in Calls, Judge(c) PROVE Promise!SubmissionNext
    <2>1. /\ c \in Sent \ arrived /\ arrived' = arrived \cup {c}
          /\ UNCHANGED <<stage, mode, channel>>
      BY <1>8 DEF Judge, config, local
    <2>2. Sent' = Sent /\ Seen' = Seen
      BY <1>3, <2>1 DEF Seen
    <2>3. Promise!Arrive(c)
      BY <2>1, <2>2 DEF Promise!Arrive, Seen
    <2> QED BY <2>1, <2>3 DEF Promise!SubmissionNext
  <1>9. ASSUME NEW c \in Calls, PeerSubmits(c) \/ Mine(c)
        PROVE  [Promise!SubmissionNext]_(Promise!submission)
    <2>1. UNCHANGED <<stage, mode, arrived, channel>>
      BY <1>9 DEF PeerSubmits, Mine, config, local
    <2> QED BY <1>1, <1>2, <1>3, <2>1
  <1>10. CASE InitRedis \/ RedisHangs \/ UNCHANGED vars
    <2>1. UNCHANGED <<stage, mode, arrived, broadcast>>
      BY <1>10 DEF InitRedis, RedisHangs, vars, config, local, channel
    <2>2. Sent' = Sent
      BY <2>1 DEF Sent
    <2> QED BY <1>1, <1>2, <2>1, <2>2
  <1> QED BY <1>5, <1>6, <1>7, <1>8, <1>9, <1>10 DEF Next, Call, World

\* However the calls run together, and whatever fails: each sends at most once, nothing
\* when it is not to, and says Ok only when the sequencer got its request.
THEOREM ServiceImplementsSubmission == Spec => ImplementsSubmission
  <1>1. Init => Promise!SubmissionInit
    BY DEF Init, Promise!SubmissionInit, Sent
  <1> QED BY <1>1, ServiceInit, ServiceStep, SubmissionStep, PTL
             DEF Spec, ImplementsSubmission, Promise!SubmissionSpec
=============================================================================
