----------------------- MODULE OpportunityHandlerProofs -----------------------
(***************************************************************************)
(* Proofs about OpportunityHandler, for every set of opportunities, every   *)
(* number of permits, channel capacity and mode.                            *)
(***************************************************************************)
EXTENDS OpportunityHandler, FiniteSetTheorems, TLAPS

\* The opportunities that hold a permit.
BusySet == {o \in Opportunities : task[o] \in Busy}

\* The inductive invariant: each part needs the others to survive a step.
HandlerInv ==
  TypeOK /\ OnePlaceAtATime /\ ExclusiveClaim /\ PermitConservation

\* Exactly the tasks whose state changes to or from a busy one move the number of
\* held permits: the semaphore arithmetic of Spawn and EndTask.
LEMMA BusyCount ==
  ASSUME task \in [Opportunities -> TaskStates],
         NEW o \in Opportunities, NEW s,
         task' = [task EXCEPT ![o] = s]
  PROVE  /\ IsFiniteSet(BusySet) /\ Cardinality(BusySet) \in Nat
         /\ (task[o] \in Busy <=> s \in Busy) => BusySet' = BusySet
         /\ (task[o] \notin Busy /\ s \in Busy)
              => Cardinality(BusySet') = Cardinality(BusySet) + 1
         /\ (task[o] \in Busy /\ s \notin Busy)
              => /\ Cardinality(BusySet') = Cardinality(BusySet) - 1
                 /\ Cardinality(BusySet') \in Nat
PROOF
  <1>1. IsFiniteSet(BusySet)
    BY HandlerAssumption, FS_Subset DEF BusySet
  <1>2. Cardinality(BusySet) \in Nat
    BY <1>1, FS_CardinalityType
  <1>3. ASSUME task[o] \in Busy <=> s \in Busy PROVE BusySet' = BusySet
    BY <1>3 DEF BusySet
  <1>4. ASSUME task[o] \notin Busy, s \in Busy
        PROVE  Cardinality(BusySet') = Cardinality(BusySet) + 1
    <2>1. BusySet' = BusySet \cup {o} /\ o \notin BusySet
      BY <1>4 DEF BusySet
    <2> QED BY <2>1, <1>1, FS_AddElement
  <1>5. ASSUME task[o] \in Busy, s \notin Busy
        PROVE  /\ Cardinality(BusySet') = Cardinality(BusySet) - 1
               /\ Cardinality(BusySet') \in Nat
    <2>1. BusySet' = BusySet \ {o} /\ o \in BusySet
      BY <1>5 DEF BusySet
    <2>2. IsFiniteSet(BusySet \ {o}) /\ Cardinality(BusySet \ {o}) = Cardinality(BusySet) - 1
      BY <2>1, <1>1, FS_RemoveElement
    <2> QED BY <2>1, <2>2, FS_CardinalityType
  <1> QED BY <1>1, <1>2, <1>3, <1>4, <1>5

LEMMA PermitsByCount == PermitConservation <=> permits + Cardinality(BusySet) = MaxConcurrent
PROOF BY DEF PermitConservation, BusySet

\* The initial states satisfy the invariant.
LEMMA InitInv == Init => HandlerInv
PROOF
  <1> SUFFICES ASSUME Init PROVE HandlerInv
    OBVIOUS
  <1>1. TypeOK
    <2>1. task \in [Opportunities -> TaskStates]
      BY DEF Init, TaskStates
    <2>2. best \in 0 .. MaxBlock /\ permits \in 0 .. MaxConcurrent
      BY HandlerAssumption DEF Init
    <2>3. channel \in Seq(Opportunities)
      BY DEF Init
    <2> QED BY <2>1, <2>2, <2>3 DEF Init, TypeOK, LoopStates
  <1>2. OnePlaceAtATime
    BY HandlerAssumption DEF Init, OnePlaceAtATime, InHandOnce, QueuedOnce
  <1>3. ExclusiveClaim
    BY DEF Init, ExclusiveClaim, Holds, InHand, Working, Acked
  <1>4. PermitConservation
    <2>1. BusySet = {}
      BY DEF Init, BusySet, Busy
    <2> QED BY <2>1, HandlerAssumption, FS_EmptySet, PermitsByCount DEF Init
  <1> QED BY <1>1, <1>2, <1>3, <1>4 DEF HandlerInv

\* The part of the state a step does not touch keeps its part of the invariant.
LEMMA StutterInv == HandlerInv /\ UNCHANGED vars => HandlerInv'
PROOF
  <1> SUFFICES ASSUME HandlerInv, UNCHANGED vars PROVE HandlerInv'
    OBVIOUS
  <1> USE DEF vars, env, loop, transport, HandlerInv
  <1>1. TypeOK'
    BY DEF TypeOK
  <1>2. OnePlaceAtATime'
    BY DEF OnePlaceAtATime, InHandOnce, QueuedOnce
  <1>3. ExclusiveClaim'
    BY DEF ExclusiveClaim, Holds, InHand, Working, Acked
  <1>4. PermitConservation'
    BY DEF PermitConservation
  <1> QED BY <1>1, <1>2, <1>3, <1>4

\* Blocks, workers and the network disturb nothing but the channel.
LEMMA EnvironmentInv == HandlerInv /\ Environment => HandlerInv'
PROOF
  <1> SUFFICES ASSUME HandlerInv, Environment PROVE HandlerInv'
    OBVIOUS
  <1> USE DEF env, loop, transport, HandlerInv
  <1>1. CASE NewBlock
    <2>1. TypeOK'
      BY <1>1, HandlerAssumption DEF NewBlock, TypeOK
    <2>2. OnePlaceAtATime' /\ ExclusiveClaim' /\ PermitConservation'
      BY <1>1 DEF NewBlock, OnePlaceAtATime, InHandOnce, QueuedOnce, ExclusiveClaim,
         Holds, InHand, Working, Acked, PermitConservation
    <2> QED BY <2>1, <2>2
  <1>2. CASE CloseChannel
    <2>1. TypeOK'
      BY <1>2 DEF CloseChannel, TypeOK
    <2>2. OnePlaceAtATime' /\ ExclusiveClaim' /\ PermitConservation'
      BY <1>2 DEF CloseChannel, OnePlaceAtATime, InHandOnce, QueuedOnce, ExclusiveClaim,
         Holds, InHand, Working, Acked, PermitConservation
    <2> QED BY <2>1, <2>2
  <1>3. ASSUME NEW o \in Opportunities, SendOpportunity(o) PROVE HandlerInv'
    <2>1. TypeOK'
      BY <1>3 DEF SendOpportunity, TypeOK
    <2>2. /\ Len(channel') = Len(channel) + 1 /\ Len(channel) \in Nat
          /\ \A i \in 1 .. Len(channel) : channel'[i] = channel[i]
          /\ channel'[Len(channel) + 1] = o
      BY <1>3 DEF SendOpportunity, TypeOK
    <2>3. task[o] = "none" /\ current # o
      BY <1>3 DEF SendOpportunity, OnePlaceAtATime, InHandOnce, TypeOK
    <2>4. InHandOnce'
      BY <1>3 DEF SendOpportunity, OnePlaceAtATime, InHandOnce
    <2>5. QueuedOnce'
      BY <1>3, <2>2, <2>3 DEF SendOpportunity, OnePlaceAtATime, QueuedOnce
    <2>6. OnePlaceAtATime'
      BY <1>3, <2>4, <2>5 DEF SendOpportunity, OnePlaceAtATime
    <2>7. ExclusiveClaim' /\ PermitConservation'
      BY <1>3 DEF SendOpportunity, ExclusiveClaim, Holds, InHand, Working, Acked,
         PermitConservation
    <2> QED BY <2>1, <2>6, <2>7
  <1>4. ASSUME NEW o \in Opportunities, Deliver(o) PROVE HandlerInv'
    <2>1. TypeOK'
      BY <1>4 DEF Deliver, TypeOK
    <2>2. OnePlaceAtATime' /\ ExclusiveClaim' /\ PermitConservation'
      BY <1>4 DEF Deliver, OnePlaceAtATime, InHandOnce, QueuedOnce, ExclusiveClaim,
         Holds, InHand, Working, Acked, PermitConservation
    <2> QED BY <2>1, <2>2
  <1> QED BY <1>1, <1>2, <1>3, <1>4 DEF Environment

\* The loop: a claim is taken only for a key nobody holds, a permit only for an
\* opportunity without a task.
LEMMA LoopInv == HandlerInv /\ Loop => HandlerInv'
PROOF
  <1> SUFFICES ASSUME HandlerInv, Loop PROVE HandlerInv'
    OBVIOUS
  <1> USE HandlerAssumption DEF env, loop, transport, HandlerInv, NextIteration
  <1>1. CASE Receive
    <2>1. /\ Head(channel) \in Opportunities /\ Head(channel) = channel[1]
          /\ channel' \in Seq(Opportunities)
          /\ Len(channel) \in Nat \ {0} /\ Len(channel') = Len(channel) - 1
          /\ \A i \in 1 .. Len(channel') : channel'[i] = channel[i + 1]
      BY <1>1 DEF Receive, TypeOK
    <2>2. TypeOK'
      BY <1>1, <2>1 DEF Receive, TypeOK, LoopStates
    <2>3. InHandOnce'
      BY <1>1, <2>1 DEF Receive, OnePlaceAtATime, InHandOnce, QueuedOnce
    <2>4. QueuedOnce'
      BY <1>1, <2>1 DEF Receive, OnePlaceAtATime, QueuedOnce
    <2>5. OnePlaceAtATime'
      BY <1>1, <2>3, <2>4 DEF Receive, OnePlaceAtATime
    <2>6. ExclusiveClaim' /\ PermitConservation'
      BY <1>1 DEF Receive, ExclusiveClaim, Holds, InHand, Working, Acked,
         PermitConservation
    <2> QED BY <2>2, <2>5, <2>6
  <1>2. CASE Exit
    <2>1. TypeOK'
      BY <1>2 DEF Exit, TypeOK, LoopStates
    <2>2. OnePlaceAtATime' /\ ExclusiveClaim' /\ PermitConservation'
      BY <1>2 DEF Exit, OnePlaceAtATime, InHandOnce, QueuedOnce, ExclusiveClaim,
         Holds, InHand, Working, Acked, PermitConservation
    <2> QED BY <2>1, <2>2
  <1>3. CASE CheckStaleness
    <2>1. TypeOK'
      BY <1>3 DEF CheckStaleness, TypeOK, LoopStates
    <2>2. OnePlaceAtATime'
      BY <1>3 DEF CheckStaleness, TypeOK, OnePlaceAtATime, InHandOnce, QueuedOnce
    <2>3. ExclusiveClaim' /\ PermitConservation'
      BY <1>3 DEF CheckStaleness, ExclusiveClaim, Holds, InHand, Working, Acked,
         PermitConservation
    <2> QED BY <2>1, <2>2, <2>3
  <1>4. CASE SkipClaimed
    <2>1. TypeOK'
      BY <1>4 DEF SkipClaimed, TypeOK, LoopStates
    <2>2. OnePlaceAtATime'
      BY <1>4 DEF SkipClaimed, TypeOK, OnePlaceAtATime, InHandOnce, QueuedOnce
    <2>3. ExclusiveClaim' /\ PermitConservation'
      BY <1>4 DEF SkipClaimed, ExclusiveClaim, Holds, InHand, Working, Acked,
         PermitConservation
    <2> QED BY <2>1, <2>2, <2>3
  <1>5. CASE Claim
    <2>0. current \in Opportunities /\ (current' = current \/ current' = None)
      BY <1>5 DEF Claim, OnePlaceAtATime, InHandOnce
    <2>1. TypeOK'
      BY <1>5, <2>0 DEF Claim, TypeOK, LoopStates, Keys
    <2>2. OnePlaceAtATime'
      BY <1>5, <2>0 DEF Claim, TypeOK, OnePlaceAtATime, InHandOnce, QueuedOnce
    <2>3. ExclusiveClaim'
      <3>1. ASSUME NEW o \in Opportunities, Holds(o)'
            PROVE  Holds(o) \/ o = current
        BY <1>5, <3>1 DEF Claim, Holds, InHand, Working, Acked
      <3>2. ASSUME NEW o \in Opportunities, Holds(o)
            PROVE  Key(o) \in submitted /\ Key(o) # Key(current)
        BY <1>5, <3>2 DEF Claim, ExclusiveClaim
      <3> QED BY <1>5, <3>1, <3>2 DEF Claim, ExclusiveClaim, Rivals
    <2>4. PermitConservation'
      BY <1>5 DEF Claim, PermitConservation
    <2> QED BY <2>1, <2>2, <2>3, <2>4
  <1>6. CASE Spawn
    <2>0. current \in Opportunities /\ task[current] = "none"
      BY <1>6 DEF Spawn, OnePlaceAtATime, InHandOnce
    <2>1. TypeOK'
      <3>1. task' \in [Opportunities -> TaskStates]
        BY <1>6, <2>0 DEF Spawn, TypeOK, TaskStates, Busy
      <3>2. permits' \in 0 .. MaxConcurrent
        BY <1>6 DEF Spawn, TypeOK
      <3> QED BY <1>6, <3>1, <3>2 DEF Spawn, TypeOK, LoopStates
    <2>2. OnePlaceAtATime'
      <3>1. InHandOnce'
        BY <1>6 DEF Spawn, InHandOnce
      <3>2. QueuedOnce'
        BY <1>6, <2>0 DEF Spawn, TypeOK, OnePlaceAtATime, QueuedOnce
      <3> QED BY <1>6, <2>0, <3>1, <3>2 DEF Spawn, TypeOK, OnePlaceAtATime, InHandOnce
    <2>3. ExclusiveClaim'
      <3>1. \A o \in Opportunities : Holds(o)' => Holds(o)
        BY <1>6, <2>0 DEF Spawn, TypeOK, Holds, InHand, Working, Acked
      <3> QED BY <1>6, <3>1 DEF Spawn, ExclusiveClaim, Rivals
    <2>4. PermitConservation'
      <3>1. Cardinality(BusySet') = Cardinality(BusySet) + 1 /\ Cardinality(BusySet) \in Nat
        BY <1>6, <2>0, BusyCount DEF Spawn, TypeOK, Busy
      <3>2. permits' = permits - 1 /\ permits \in Nat
        BY <1>6 DEF Spawn, TypeOK
      <3> QED BY <3>1, <3>2 DEF PermitConservation, BusySet
    <2> QED BY <2>1, <2>2, <2>3, <2>4
  <1> QED BY <1>1, <1>2, <1>3, <1>4, <1>5, <1>6 DEF Loop

\* A step of a task that neither ends nor fails the claim it holds.
LEMMA KeepPermitInv ==
  ASSUME HandlerInv, NEW o \in Opportunities, NEW s \in Busy,
         task[o] \in Busy,
         task' = [task EXCEPT ![o] = s],
         UNCHANGED <<env, channel, loop, permits>>
  PROVE  OnePlaceAtATime' /\ PermitConservation' /\ task' \in [Opportunities -> TaskStates]
PROOF
  <1> USE DEF env, loop, HandlerInv
  <1>1. task' \in [Opportunities -> TaskStates] /\ task[o] # "none"
    BY DEF TypeOK, TaskStates, Busy
  <1>2. o \in found
    BY <1>1 DEF OnePlaceAtATime
  <1>3. InHandOnce'
    BY <1>1 DEF TypeOK, OnePlaceAtATime, InHandOnce
  <1>4. QueuedOnce'
    BY <1>1 DEF TypeOK, OnePlaceAtATime, QueuedOnce
  <1>5. OnePlaceAtATime'
    BY <1>2, <1>3, <1>4 DEF TypeOK, OnePlaceAtATime
  <1>6. BusySet' = BusySet
    BY BusyCount DEF TypeOK
  <1>7. PermitConservation'
    BY <1>6 DEF PermitConservation, BusySet
  <1> QED BY <1>1, <1>5, <1>7

\* The tasks: only the holder of a key gives it back, and a task frees exactly the
\* permit it took.
LEMMA TaskInv ==
  ASSUME HandlerInv, NEW o \in Opportunities, Task(o)
  PROVE  HandlerInv'
PROOF
  <1> USE DEF env, loop, transport, HandlerInv
  <1>0. task \in [Opportunities -> TaskStates]
    BY DEF TypeOK
  <1>1. ASSUME ReturnUnposted(o) \/ Post(o) \/ ReturnPosted(o) \/ Timeout(o)
        PROVE  HandlerInv'
    <2>1. PICK s \in {"posted", "ok", "failed"} :
            task' = [task EXCEPT ![o] = s]
      BY <1>1 DEF ReturnUnposted, Post, ReturnPosted, Timeout
    <2>2. /\ task[o] \in {"running", "posted"}
          /\ UNCHANGED <<env, channel, loop, submitted, permits>>
          /\ network' \in {network, network \cup {o}} /\ delivered' = delivered
      BY <1>1 DEF ReturnUnposted, Post, ReturnPosted, Timeout
    <2>3. OnePlaceAtATime' /\ PermitConservation' /\ task' \in [Opportunities -> TaskStates]
      BY <2>1, <2>2, KeepPermitInv DEF Busy
    <2>4. TypeOK'
      BY <2>2, <2>3 DEF TypeOK
    <2>5. \A p \in Opportunities : Holds(p)' => Holds(p)
      BY <1>0, <2>1, <2>2 DEF Holds, InHand, Working, Acked
    <2>6. ExclusiveClaim'
      BY <2>2, <2>5 DEF ExclusiveClaim, Rivals
    <2> QED BY <2>3, <2>4, <2>6
  <1>2. CASE RemoveClaim(o)
    <2>1. OnePlaceAtATime' /\ PermitConservation' /\ task' \in [Opportunities -> TaskStates]
      BY <1>2, KeepPermitInv DEF RemoveClaim, Busy
    <2>2. TypeOK'
      BY <1>2, <2>1 DEF RemoveClaim, TypeOK
    <2>3. Holds(o) /\ \A p \in Opportunities : Holds(p)' => Holds(p)
      BY <1>0, <1>2 DEF RemoveClaim, Holds, InHand, Working, Acked
    <2>4. ~Holds(o)'
      <3>1. current # o
        BY <1>2 DEF RemoveClaim, OnePlaceAtATime, InHandOnce
      <3> QED BY <1>0, <1>2, <3>1 DEF RemoveClaim, Holds, InHand, Working, Acked
    <2>5. ASSUME NEW p \in Opportunities, Holds(p)' PROVE Key(p) \in submitted'
      <3>1. p # o /\ Holds(p)
        BY <2>3, <2>4, <2>5
      <3>2. Key(p) # Key(o) /\ Key(p) \in submitted
        BY <2>3, <3>1 DEF ExclusiveClaim, Rivals
      <3> QED BY <1>2, <3>2 DEF RemoveClaim
    <2>6. ExclusiveClaim'
      BY <2>3, <2>5 DEF ExclusiveClaim, Rivals
    <2> QED BY <2>1, <2>2, <2>6
  <1>3. CASE EndTask(o)
    <2>1. PICK s \in {"kept", "dropped"} :
            task' = [task EXCEPT ![o] = s] /\ (s = "kept" <=> task[o] = "ok")
      BY <1>3 DEF EndTask
    <2>2. task' \in [Opportunities -> TaskStates] /\ task[o] # "none"
      BY <1>0, <1>3, <2>1 DEF EndTask, TaskStates
    <2>3. PermitConservation' /\ permits' \in 0 .. MaxConcurrent
      <3>1. /\ Cardinality(BusySet') = Cardinality(BusySet) - 1
            /\ Cardinality(BusySet) \in Nat /\ Cardinality(BusySet') \in Nat
        BY <1>0, <1>3, <2>1, BusyCount DEF EndTask, Busy
      <3>2. permits' = permits + 1 /\ permits \in Nat
        BY <1>3, HandlerAssumption DEF EndTask, TypeOK
      <3>3. permits' + Cardinality(BusySet') = MaxConcurrent
        BY <3>1, <3>2 DEF PermitConservation, BusySet
      <3> QED BY <3>1, <3>2, <3>3, HandlerAssumption DEF PermitConservation, BusySet
    <2>4. TypeOK'
      BY <1>3, <2>2, <2>3 DEF EndTask, TypeOK
    <2>5. OnePlaceAtATime'
      <3>1. InHandOnce'
        BY <1>0, <1>3, <2>1 DEF EndTask, TypeOK, OnePlaceAtATime, InHandOnce
      <3>2. QueuedOnce'
        BY <1>0, <1>3, <2>1 DEF EndTask, TypeOK, OnePlaceAtATime, QueuedOnce
      <3> QED BY <1>0, <1>3, <2>1, <2>2, <3>1, <3>2 DEF EndTask, OnePlaceAtATime
    <2>6. \A p \in Opportunities : Holds(p)' => Holds(p)
      BY <1>0, <1>3, <2>1 DEF EndTask, Holds, InHand, Working, Acked
    <2>7. ExclusiveClaim'
      BY <1>3, <2>6 DEF EndTask, ExclusiveClaim, Rivals
    <2> QED BY <2>3, <2>4, <2>5, <2>7
  <1> QED BY <1>1, <1>2, <1>3 DEF Task

LEMMA HandlerStep == HandlerInv /\ [Next]_vars => HandlerInv'
  BY EnvironmentInv, LoopInv, TaskInv, StutterInv DEF Next

\* main.rs:336-389.  For every number of opportunities, permits and capacities the
\* handler keeps its claims exclusive, loses no permit and never has an opportunity
\* in two places.
THEOREM HandlerInvariant == Spec => []HandlerInv
PROOF BY InitInv, HandlerStep, PTL DEF Spec

\* The state keeps its type, for every value of the constants.
THEOREM HandlerTypeOK == Spec => []TypeOK
PROOF BY HandlerInvariant, PTL DEF HandlerInv

\* main.rs:301-309, 376 and 387: at most one opportunity of a (block, processor)
\* pair is being tried or acknowledged, and its key is in the set.
THEOREM HandlerExclusiveClaim == Spec => []ExclusiveClaim
PROOF BY HandlerInvariant, PTL DEF HandlerInv

\* main.rs:336 and 344: the tasks that run are exactly the permits that are out, so
\* never more than MAX_CONCURRENT_OPPORTUNITIES.
THEOREM HandlerPermits == Spec => []PermitConservation
PROOF BY HandlerInvariant, PTL DEF HandlerInv

-----------------------------------------------------------------------------
(* The handler implements the ledger of claims.                              *)

\* The keys that are claimed without a holder: Ledger's `spent`.
SpentKeys == {k \in submitted : Held(k) = {}}

\* What holds a key in the ledger is what has it in hand or works on it; there is
\* one such opportunity, and its key is in the set.
LEMMA HeldByOne ==
  ASSUME HandlerInv, NEW o \in Opportunities, InHand(o) \/ Working(o)
  PROVE  Held(Key(o)) = {o} /\ Key(o) \in submitted /\ Key(o) \in Keys
PROOF
  <1>1. Holds(o)
    BY DEF Holds
  <1>2. Key(o) \in submitted /\ \A p \in Opportunities :
          Key(p) = Key(o) /\ (InHand(p) \/ Working(p)) => p = o
    BY <1>1 DEF HandlerInv, ExclusiveClaim, Holds, Rivals
  <1> QED BY <1>2 DEF Held, Keys

\* Steps that change neither the set nor who holds a key are invisible.
LEMMA SameHolders ==
  ASSUME HandlerInv, submitted' = submitted,
         \A o \in Opportunities : (InHand(o) \/ Working(o))' <=> InHand(o) \/ Working(o)
  PROVE  UNCHANGED Ledger!ledger
PROOF
  <1>1. \A k : Held(k)' = Held(k)
    BY DEF Held
  <1> QED BY <1>1 DEF Ledger!ledger

\* The ledger moves at one key.
LEMMA MoveOfKey ==
  ASSUME NEW k \in Keys, NEW h,
         Held(k)' = h,
         \A j \in Keys \ {k} : Held(j)' = Held(j)
  PROVE  [j \in Keys |-> Held(j)]' = [[j \in Keys |-> Held(j)] EXCEPT ![k] = h]
PROOF
  <1> QED OBVIOUS

\* The loop takes a claim for a profitable opportunity and closes it at once for
\* one below the threshold.
LEMMA ClaimStep ==
  ASSUME HandlerInv, Claim
  PROVE  Ledger!LedgerNext
PROOF
  <1> USE DEF env, loop, transport
  <1>1. PICK c \in Opportunities : c = current /\ Key(c) \in Keys
    BY DEF Claim, HandlerInv, OnePlaceAtATime, InHandOnce, Keys
  <1>2. \A o \in Opportunities : Working(o)' <=> Working(o)
    BY DEF Claim, Working
  <1>3. \A o \in Opportunities : ~InHand(o)
    BY DEF Claim, InHand
  <1>4. Held(Key(c)) = {} /\ Key(c) \notin SpentKeys
    BY <1>1, <1>3, HeldByOne DEF Claim, Held, SpentKeys
  <1>5. submitted' = submitted \cup {Key(c)} /\ submitted \subseteq Keys
    BY <1>1 DEF Claim, HandlerInv, TypeOK
  <1>6. CASE Profitable(c)
    <2>1. \A o \in Opportunities : InHand(o)' <=> o = c
      BY <1>1, <1>6 DEF Claim, InHand
    <2>2. Held(Key(c))' = {c}
      BY <1>1, <1>2, <1>4, <2>1 DEF Held
    <2>3. \A j \in Keys \ {Key(c)} : Held(j)' = Held(j)
      BY <1>2, <1>3, <2>1 DEF Held
    <2>4. SpentKeys' = SpentKeys
      BY <1>4, <1>5, <2>2, <2>3 DEF SpentKeys
    <2>5. [j \in Keys |-> Held(j)]' =
            [[j \in Keys |-> Held(j)] EXCEPT ![Key(c)] = {c}]
      BY <1>1, <2>2, <2>3, MoveOfKey
    <2>6. Ledger!Take(Key(c), c)
      BY <1>1, <1>4, <2>4, <2>5 DEF Ledger!Take, SpentKeys
    <2> QED BY <1>1, <2>6 DEF Ledger!LedgerNext
  <1>7. CASE ~Profitable(c)
    <2>1. \A o \in Opportunities : ~InHand(o)'
      BY <1>1, <1>7 DEF Claim, NextIteration, InHand
    <2>2. \A j \in Keys : Held(j)' = Held(j)
      BY <1>2, <1>3, <2>1 DEF Held
    <2>3. SpentKeys' = SpentKeys \cup {Key(c)}
      BY <1>1, <1>4, <1>5, <2>2 DEF SpentKeys
    <2>4. [j \in Keys |-> Held(j)]' =
            [[j \in Keys |-> Held(j)] EXCEPT ![Key(c)] = {}]
      BY <1>1, <1>4, <2>2, MoveOfKey
    <2>5. Ledger!Close(Key(c))
      BY <1>1, <1>4, <2>3, <2>4 DEF Ledger!Close, SpentKeys
    <2> QED BY <1>1, <2>5 DEF Ledger!LedgerNext
  <1> QED BY <1>6, <1>7

\* The rest of the loop is invisible: Spawn only moves an opportunity from the
\* loop's hand to its task.
LEMMA LoopStep ==
  ASSUME HandlerInv, Loop
  PROVE  Ledger!LedgerNext \/ UNCHANGED Ledger!ledger
PROOF
  <1> USE DEF env, loop, transport
  <1>1. CASE Receive \/ Exit \/ CheckStaleness \/ SkipClaimed
    <2>1. submitted' = submitted /\ \A o \in Opportunities :
            (InHand(o) \/ Working(o))' <=> InHand(o) \/ Working(o)
      BY <1>1 DEF Receive, Exit, CheckStaleness, SkipClaimed, NextIteration, InHand, Working
    <2> QED BY <2>1, SameHolders
  <1>2. CASE Claim
    BY <1>2, ClaimStep
  <1>3. CASE Spawn
    <2>1. task \in [Opportunities -> TaskStates] /\ current \in Opportunities
      BY <1>3 DEF Spawn, HandlerInv, TypeOK, OnePlaceAtATime, InHandOnce
    <2>2. submitted' = submitted /\ \A o \in Opportunities :
            (InHand(o) \/ Working(o))' <=> InHand(o) \/ Working(o)
      BY <1>3, <2>1 DEF Spawn, NextIteration, InHand, Working
    <2> QED BY <2>2, SameHolders
  <1> QED BY <1>1, <1>2, <1>3 DEF Loop

\* What task o stops working on is given back or closed; nobody else is disturbed.
LEMMA StopWorking ==
  ASSUME HandlerInv, NEW o \in Opportunities, Working(o), NEW s,
         task' = [task EXCEPT ![o] = s], s \notin {"running", "posted", "failed"},
         UNCHANGED loop
  PROVE  /\ Key(o) \in Keys /\ Held(Key(o)) = {o} /\ Key(o) \in submitted
         /\ \A j \in Keys : Held(j)' = IF j = Key(o) THEN {} ELSE Held(j)
         /\ [j \in Keys |-> Held(j)]' =
              [[j \in Keys |-> Held(j)] EXCEPT ![Key(o)] = {}]
PROOF
  <1> USE DEF loop
  <1>1. task \in [Opportunities -> TaskStates]
    BY DEF HandlerInv, TypeOK
  <1>2. Key(o) \in Keys /\ Held(Key(o)) = {o} /\ Key(o) \in submitted
    BY HeldByOne
  <1>3. \A p \in Opportunities : /\ InHand(p)' <=> InHand(p)
                                 /\ Working(p)' <=> Working(p) /\ p # o
    BY <1>1 DEF InHand, Working
  <1>4. ~InHand(o)
    BY DEF HandlerInv, OnePlaceAtATime, InHandOnce, InHand, Working
  <1>5. \A j \in Keys : Held(j)' = IF j = Key(o) THEN {} ELSE Held(j)
    BY <1>2, <1>3, <1>4 DEF Held
  <1>6. Held(Key(o))' = {} /\ \A j \in Keys \ {Key(o)} : Held(j)' = Held(j)
    BY <1>2, <1>5
  <1> QED BY <1>2, <1>5, <1>6, MoveOfKey

\* A task gives its key back after a failure, closes it with an acknowledgement,
\* and is invisible otherwise.
LEMMA TaskStep ==
  ASSUME HandlerInv, NEW o \in Opportunities, Task(o)
  PROVE  Ledger!LedgerNext \/ UNCHANGED Ledger!ledger
PROOF
  <1> USE DEF env, loop, transport
  <1>0. task \in [Opportunities -> TaskStates] /\ submitted \subseteq Keys
    BY DEF HandlerInv, TypeOK
  <1>1. CASE \/ ReturnUnposted(o) \/ Post(o) \/ ReturnPosted(o) \/ Timeout(o)
    <2>1. PICK s \in {"posted", "ok", "failed"} :
            task' = [task EXCEPT ![o] = s]
      BY <1>1 DEF ReturnUnposted, Post, ReturnPosted, Timeout
    <2>2. task[o] \in {"running", "posted"} /\ UNCHANGED <<loop, submitted>>
      BY <1>1 DEF ReturnUnposted, Post, ReturnPosted, Timeout
    <2>3. CASE s = "ok"
      <3>1. /\ Key(o) \in Keys /\ Held(Key(o)) = {o} /\ Key(o) \in submitted
            /\ \A j \in Keys : Held(j)' = IF j = Key(o) THEN {} ELSE Held(j)
            /\ [j \in Keys |-> Held(j)]' =
                 [[j \in Keys |-> Held(j)] EXCEPT ![Key(o)] = {}]
        BY <2>1, <2>2, <2>3, StopWorking DEF Working
      <3>2. SpentKeys' = SpentKeys \cup {Key(o)} /\ Key(o) \notin SpentKeys
        BY <1>0, <2>2, <3>1 DEF SpentKeys
      <3>3. Ledger!Close(Key(o))
        BY <3>1, <3>2 DEF Ledger!Close, SpentKeys
      <3> QED BY <3>1, <3>3 DEF Ledger!LedgerNext
    <2>4. CASE s # "ok"
      <3>1. submitted' = submitted /\ \A p \in Opportunities :
              (InHand(p) \/ Working(p))' <=> InHand(p) \/ Working(p)
        BY <1>0, <2>1, <2>2, <2>4 DEF InHand, Working
      <3> QED BY <3>1, SameHolders
    <2> QED BY <2>3, <2>4
  <1>2. CASE RemoveClaim(o)
    <2>1. /\ Key(o) \in Keys /\ Held(Key(o)) = {o} /\ Key(o) \in submitted
          /\ \A j \in Keys : Held(j)' = IF j = Key(o) THEN {} ELSE Held(j)
          /\ [j \in Keys |-> Held(j)]' =
               [[j \in Keys |-> Held(j)] EXCEPT ![Key(o)] = {}]
      BY <1>2, StopWorking DEF RemoveClaim, Working
    <2>2. SpentKeys' = SpentKeys
      BY <1>0, <1>2, <2>1 DEF RemoveClaim, SpentKeys
    <2>3. Ledger!GiveBack(Key(o))
      BY <2>1, <2>2 DEF Ledger!GiveBack, SpentKeys
    <2> QED BY <2>1, <2>3 DEF Ledger!LedgerNext
  <1>3. CASE EndTask(o)
    <2>1. submitted' = submitted /\ \A p \in Opportunities :
            (InHand(p) \/ Working(p))' <=> InHand(p) \/ Working(p)
      BY <1>0, <1>3 DEF EndTask, InHand, Working
    <2> QED BY <2>1, SameHolders
  <1> QED BY <1>1, <1>2, <1>3 DEF Task

\* The handler implements the ledger of claims, for every value of the constants:
\* whatever the interleaving, a key is taken only when free, given back or closed
\* only by its holder, and never taken again once closed.
THEOREM HandlerImplementsLedger == Spec => Ledger!LedgerSafety
PROOF
  <1>1. Init => Ledger!LedgerInit
    BY HandlerAssumption DEF Init, Ledger!LedgerInit, Held, InHand, Working
  <1>2. HandlerInv /\ [Next]_vars => [Ledger!LedgerNext]_(Ledger!ledger)
    <2> SUFFICES ASSUME HandlerInv, [Next]_vars
                 PROVE  Ledger!LedgerNext \/ UNCHANGED Ledger!ledger
      OBVIOUS
    <2>1. CASE Environment \/ UNCHANGED vars
      <3>1. submitted' = submitted /\ \A o \in Opportunities :
              (InHand(o) \/ Working(o))' <=> InHand(o) \/ Working(o)
        BY <2>1 DEF Environment, NewBlock, CloseChannel, SendOpportunity, Deliver,
           vars, env, loop, transport, InHand, Working
      <3> QED BY <3>1, SameHolders
    <2>2. CASE Loop
      BY <2>2, LoopStep
    <2>3. ASSUME NEW o \in Opportunities, Task(o)
          PROVE  Ledger!LedgerNext \/ UNCHANGED Ledger!ledger
      BY <2>3, TaskStep
    <2> QED BY <2>1, <2>2, <2>3 DEF Next
  <1> QED BY <1>1, <1>2, HandlerInvariant, PTL DEF Spec, Ledger!LedgerSafety

\* main.rs:376 and 387: a key leaves the set only when the attempt on it failed,
\* while nobody else holds it and after no acknowledgement.
THEOREM HandlerGivesBackOnlyAfterFailure == Spec => GiveBackOnlyAfterFailure
PROOF
  <1> DEFINE Step ==
        \A k \in submitted \ submitted' :
          \E o \in Opportunities :
            /\ Key(o) = k /\ task[o] = "failed" /\ task'[o] = "unclaimed"
            /\ \A p \in Rivals(o) : ~Acked(p) /\ (p # o => ~Holds(p))
  <1>1. HandlerInv /\ [Next]_vars => [Step]_vars
    <2> SUFFICES ASSUME HandlerInv, Next, NEW k \in submitted \ submitted'
                 PROVE  \E o \in Opportunities :
                          /\ Key(o) = k /\ task[o] = "failed" /\ task'[o] = "unclaimed"
                          /\ \A p \in Rivals(o) : ~Acked(p) /\ (p # o => ~Holds(p))
      OBVIOUS
    <2>1. ~Environment
      BY DEF Environment, NewBlock, CloseChannel, SendOpportunity, Deliver
    <2>2. ~Loop
      BY DEF Loop, Receive, Exit, CheckStaleness, SkipClaimed, Claim, Spawn
    <2>3. PICK o \in Opportunities : RemoveClaim(o)
      BY <2>1, <2>2 DEF Next, Task, ReturnUnposted, Post, ReturnPosted, Timeout, EndTask
    <2>4. Key(o) = k /\ task[o] = "failed" /\ task'[o] = "unclaimed"
      BY <2>3 DEF RemoveClaim, HandlerInv, TypeOK
    <2>5. Holds(o) /\ ~Acked(o)
      BY <2>4 DEF Holds, Working, Acked
    <2>6. \A p \in Rivals(o) : ~Acked(p) /\ (p # o => ~Holds(p))
      BY <2>5 DEF HandlerInv, ExclusiveClaim, Rivals, Holds
    <2> QED BY <2>4, <2>6
  <1> QED BY <1>1, HandlerInvariant, PTL DEF Spec, GiveBackOnlyAfterFailure

\* main.rs:302-333 and 361-389: every claimed key is being tried, succeeded, or was
\* taken by an opportunity below the threshold.
THEOREM HandlerClaimAccounted == Spec => []ClaimAccounted
PROOF
  <1>1. Init => ClaimAccounted
    BY DEF Init, ClaimAccounted
  <1>2. HandlerInv /\ ClaimAccounted /\ [Next]_vars => ClaimAccounted'
    <2> SUFFICES ASSUME HandlerInv, ClaimAccounted, [Next]_vars,
                        NEW k \in submitted'
                 PROVE  \E o \in Opportunities : Key(o) = k /\
                          (Holds(o)' \/ (o \in found' /\ ~Profitable(o)))
      BY DEF ClaimAccounted, Profitable, Key
    <2> USE DEF env, loop, transport
    <2>0. task \in [Opportunities -> TaskStates]
      BY DEF HandlerInv, TypeOK
    <2>1. CASE UNCHANGED vars \/ Environment
      BY <2>1 DEF vars, Environment, NewBlock, CloseChannel, SendOpportunity, Deliver,
         ClaimAccounted, Holds, InHand, Working, Acked
    <2>2. CASE Receive \/ Exit \/ CheckStaleness \/ SkipClaimed
      BY <2>2 DEF Receive, Exit, CheckStaleness, SkipClaimed, ClaimAccounted, Holds,
         InHand, Working, Acked
    <2>3. CASE Claim
      BY <2>3 DEF Claim, NextIteration, HandlerInv, OnePlaceAtATime, InHandOnce,
         ClaimAccounted, Holds, InHand, Working, Acked
    <2>4. CASE Spawn
      BY <2>0, <2>4 DEF Spawn, HandlerInv, OnePlaceAtATime, InHandOnce,
         ClaimAccounted, Holds, InHand, Working, Acked
    <2>5. ASSUME NEW p \in Opportunities, Task(p)
          PROVE  \E o \in Opportunities : Key(o) = k /\
                   (Holds(o)' \/ (o \in found' /\ ~Profitable(o)))
      <3>1. PICK o \in Opportunities : Key(o) = k /\
              (Holds(o) \/ (o \in found /\ ~Profitable(o)))
        BY <2>5 DEF Task, ReturnUnposted, Post, ReturnPosted, Timeout, RemoveClaim,
           EndTask, ClaimAccounted
      <3>2. found' = found /\ loop' = loop
        BY <2>5 DEF Task, ReturnUnposted, Post, ReturnPosted, Timeout, RemoveClaim, EndTask
      <3>3. CASE RemoveClaim(p)
        <4>1. p # o
          BY <3>1, <3>3 DEF RemoveClaim
        <4> QED BY <2>0, <3>1, <3>2, <3>3, <4>1 DEF RemoveClaim, Holds, InHand, Working, Acked
      <3>4. CASE ~RemoveClaim(p)
        <4>1. PICK s \in {"posted", "ok", "failed", "kept", "dropped"} :
                /\ task' = [task EXCEPT ![p] = s]
                /\ task[p] = "ok" <=> s = "kept"
                /\ task[p] \in {"running", "posted", "ok", "unclaimed"}
                /\ task[p] = "unclaimed" <=> s = "dropped"
          BY <2>5, <3>4 DEF Task, ReturnUnposted, Post, ReturnPosted, Timeout, EndTask
        <4> QED BY <2>0, <3>1, <3>2, <4>1 DEF Holds, InHand, Working, Acked
      <3> QED BY <3>3, <3>4
    <2> QED BY <2>1, <2>2, <2>3, <2>4, <2>5 DEF Next, Loop
  <1> QED BY <1>1, <1>2, HandlerInvariant, PTL DEF Spec

-----------------------------------------------------------------------------
(* What the handler assumes of process_opportunity.                          *)

\* A task as Submission names its call, and all of them.
CallState(s) ==
  CASE s = "none" -> "idle"
    [] s = "kept" -> "ok"
    [] s \in {"unclaimed", "dropped"} -> "failed"
    [] OTHER -> s

Seen == [o \in Opportunities |-> CallState(task[o])]

LEMMA SeenIsCall ==
  Seen = [o \in Opportunities |->
            CASE task[o] = "none" -> "idle"
              [] task[o] = "kept" -> "ok"
              [] task[o] \in {"unclaimed", "dropped"} -> "failed"
              [] OTHER -> task[o]]
PROOF BY DEF Seen, CallState

LEMMA CallStates ==
  /\ CallState("none") = "idle" /\ CallState("running") = "running"
  /\ CallState("posted") = "posted" /\ CallState("ok") = "ok" /\ CallState("kept") = "ok"
  /\ CallState("failed") = "failed" /\ CallState("unclaimed") = "failed"
  /\ CallState("dropped") = "failed"
PROOF BY DEF CallState

Becomes(o, s) == task' = [task EXCEPT ![o] = s]

\* One task's step, as a step of its call.
LEMMA SeenStep ==
  ASSUME task \in [Opportunities -> TaskStates], NEW o \in Opportunities, NEW s,
         Becomes(o, s)
  PROVE  /\ Seen' = [Seen EXCEPT ![o] = CallState(s)]
         /\ Seen[o] = CallState(task[o])
         /\ CallState(s) = CallState(task[o]) => Seen' = Seen
PROOF
  <1>1. task'[o] = s /\ \A p \in Opportunities \ {o} : task'[p] = task[p]
    BY DEF Becomes
  <1>2. /\ Seen = [p \in Opportunities |-> CallState(task[p])]
        /\ Seen' = [p \in Opportunities |-> CallState(task'[p])]
    BY DEF Seen
  <1> HIDE DEF Seen
  <1> QED BY <1>1, <1>2

\* What the handler sees of a step is a step of Submission, or nothing.
LEMMA UseStep ==
  HandlerInv /\ [Next]_vars => [Process!SubmissionNext]_(Process!submission)
PROOF
  <1> SUFFICES ASSUME HandlerInv, [Next]_vars
               PROVE  [Process!SubmissionNext]_(Process!submission)
    OBVIOUS
  <1> USE DEF env, loop, transport
  <1> DEFINE Submits == mode = "submit"
  <1>0. task \in [Opportunities -> TaskStates] /\ mode \in {"disabled", "dry_run", "submit"}
    BY HandlerAssumption DEF HandlerInv, TypeOK
  <1>1. ASSUME Seen' = Seen, UNCHANGED <<mode, network, delivered>>
        PROVE  [Process!SubmissionNext]_(Process!submission)
    BY <1>1, SeenIsCall DEF Process!submission, Seen, CallState
  <1>2. ASSUME UNCHANGED <<mode, task, network, delivered>>
        PROVE  [Process!SubmissionNext]_(Process!submission)
    BY <1>1, <1>2 DEF Seen
  <1>3. ASSUME NEW o \in Opportunities, NEW from, NEW to,
               Seen[o] = from, Seen' = [Seen EXCEPT ![o] = to],
               UNCHANGED <<mode, delivered>>,
               \/ from = "idle" /\ to = "running" /\ network' = network
               \/ from = "running" /\ (to = "failed" \/ (to = "ok" /\ ~Submits))
                    /\ network' = network
               \/ from = "running" /\ to = "posted" /\ Submits /\ network' = network \cup {o}
               \/ from = "posted" /\ (to = "failed" \/ (to = "ok" /\ o \in delivered))
                    /\ network' = network
        PROVE  Process!SubmissionNext
    <2>1. Process!Move(o, from, to)
      BY <1>3 DEF Process!Move, Seen, CallState
    <2>2. \/ Process!Begin(o) \/ Process!EndUnsent(o) \/ Process!SendOnce(o)
          \/ Process!EndSent(o)
      BY <1>3, <2>1 DEF Process!Begin, Process!EndUnsent, Process!SendOnce, Process!EndSent
    <2> QED BY <1>3, <2>2 DEF Process!SubmissionNext
  <1>4. CASE UNCHANGED vars \/ NewBlock \/ CloseChannel
               \/ \E o \in Opportunities : SendOpportunity(o)
    BY <1>2, <1>4 DEF vars, NewBlock, CloseChannel, SendOpportunity
  <1>5. ASSUME NEW o \in Opportunities, Deliver(o) PROVE Process!SubmissionNext
    <2>1. UNCHANGED <<mode, task, network>> /\ Seen' = Seen
      BY <1>5 DEF Deliver, Seen
    <2>2. Process!Arrive(o)
      BY <1>5, <2>1 DEF Deliver, Process!Arrive, Seen, CallState
    <2> QED BY <2>1, <2>2 DEF Process!SubmissionNext
  <1>6. CASE Receive \/ Exit \/ CheckStaleness \/ SkipClaimed \/ Claim
    BY <1>2, <1>6 DEF Receive, Exit, CheckStaleness, SkipClaimed, Claim
  <1>7. CASE Spawn
    <2>1. current \in Opportunities /\ task[current] = "none"
      BY <1>7 DEF Spawn, HandlerInv, OnePlaceAtATime, InHandOnce
    <2>2. Becomes(current, "running") /\ UNCHANGED <<mode, network, delivered>>
      BY <1>7 DEF Spawn, Becomes
    <2>3. Seen[current] = "idle" /\ Seen' = [Seen EXCEPT ![current] = "running"]
      BY <1>0, <2>1, <2>2, SeenStep, CallStates
    <2> QED BY <1>3, <2>1, <2>2, <2>3
  <1>8. ASSUME NEW o \in Opportunities, Task(o)
        PROVE  [Process!SubmissionNext]_(Process!submission)
    <2>1. UNCHANGED <<mode, delivered>>
      BY <1>8 DEF Task, ReturnUnposted, Post, ReturnPosted, Timeout, RemoveClaim, EndTask
    <2>2. CASE ReturnUnposted(o) \/ Timeout(o) \/ ReturnPosted(o)
      <3>1. PICK to \in {"ok", "failed"} :
              /\ Becomes(o, to) /\ network' = network
              /\ \/ task[o] = "running" /\ (to = "ok" => ~Submits)
                 \/ task[o] = "posted" /\ (to = "ok" => o \in delivered)
        BY <2>2 DEF ReturnUnposted, Timeout, ReturnPosted, Becomes
      <3>2. Seen' = [Seen EXCEPT ![o] = to] /\ Seen[o] = task[o]
        BY <1>0, <3>1, SeenStep, CallStates
      <3> QED BY <1>3, <2>1, <3>1, <3>2
    <2>3. CASE Post(o)
      <3>1. Seen' = [Seen EXCEPT ![o] = "posted"] /\ Seen[o] = "running"
        <4>1. task[o] = "running" /\ Becomes(o, "posted")
          BY <2>3 DEF Post, Becomes
        <4> QED BY <1>0, <4>1, SeenStep, CallStates
      <3> QED BY <1>3, <2>1, <2>3, <3>1 DEF Post
    <2>4. CASE RemoveClaim(o)
      <3>1. Seen' = Seen
        <4>1. task[o] = "failed" /\ Becomes(o, "unclaimed")
          BY <2>4 DEF RemoveClaim, Becomes
        <4> QED BY <1>0, <4>1, SeenStep, CallStates
      <3> QED BY <1>1, <2>1, <2>4, <3>1 DEF RemoveClaim
    <2>5. CASE EndTask(o)
      <3>1. Seen' = Seen
        <4>1. \/ task[o] = "ok" /\ Becomes(o, "kept")
              \/ task[o] = "unclaimed" /\ Becomes(o, "dropped")
          BY <2>5 DEF EndTask, Becomes
        <4> QED BY <1>0, <4>1, SeenStep, CallStates
      <3> QED BY <1>1, <2>1, <2>5, <3>1 DEF EndTask
    <2> QED BY <1>8, <2>2, <2>3, <2>4, <2>5 DEF Task
  <1> QED BY <1>2, <1>4, <1>5, <1>6, <1>7, <1>8 DEF Next, Environment, Loop

\* The handler uses process_opportunity as Submission lets it, for every number of
\* opportunities and every order in which timeouts, answers and deliveries come.
THEOREM HandlerUsesSubmission == Spec => UsesSubmission
PROOF
  <1>1. Init => Process!SubmissionInit
    BY DEF Init, Process!SubmissionInit
  <1> QED BY <1>1, HandlerInvariant, UseStep, PTL
          DEF Spec, UsesSubmission, Process!SubmissionSpec
=============================================================================
