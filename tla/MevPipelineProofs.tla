-------------------------- MODULE MevPipelineProofs --------------------------
(***************************************************************************)
(* The pipeline serves the handler: seen through the channel, the workers    *)
(* and the node are an environment OpportunityHandler allows for, so that    *)
(* what is proved of the handler holds in the pipeline.  A worker is given   *)
(* the state after its flashblock, exactly when that concerns its strategy.  *)
(* And the system serves the pipeline and the transaction service, so that   *)
(* what is proved of the parts holds from end to end.                        *)
(***************************************************************************)
EXTENDS MevSystem, FiniteSetTheorems, TLAPS

Proved == INSTANCE OpportunityHandlerProofs WITH
  Opportunities <- PossibleOpportunities, best <- head, MaxBlock <- LastBlock

Exported(p) == p \in snapshot[p].executed

\* The flashblocks of the block the simulator is in, as far as it has seen them.
Current == {q \in 1 .. position : Feed[q].block = currentBlock}

\* Where the simulator is in the feed, and in its initialisation.
PlaceInv ==
  /\ head \in 0 .. LastBlock
  /\ position \in 0 .. Len(Feed)
  /\ initialized \in BOOLEAN /\ initializing \in BOOLEAN
  /\ currentBlock \in 0 .. LastBlock
  /\ \A q \in Positions : q > position => currentBlock <= Feed[q].block
  /\ initializing => Coming \in Positions /\ currentBlock = Feed[Coming].block
  /\ latest \in 0 .. head

\* The executor's overlay is over a state the node had reached.  One that holds all
\* flashblocks of the current block holds no others: it was set up within that block.
OverlayInv ==
  /\ exec.base \in 0 .. head /\ exec.number \in 0 .. head
  /\ exec.executed \in SUBSET (1 .. position)
  /\ ~initializing /\ Current \subseteq exec.executed => exec.executed \subseteq Current

\* What is known of the snapshot of a flashblock that was executed.
ExportInv(p) ==
  /\ initialized /\ p <= position /\ Feed[p].block <= currentBlock
  /\ snapshot[p].executed \in SUBSET (1 .. p)
  /\ SoFarOfBlock(p) \subseteq snapshot[p].executed =>
       snapshot[p].executed \subseteq SoFarOfBlock(p)
  /\ Feed[p].block = currentBlock => ~initializing /\ snapshot[p].number = exec.number

\* The snapshots: each on a state and with a number the node had reached, one number
\* for the flashblocks of a block, whatever was lost or failed between them.
SnapshotInv ==
  /\ DOMAIN snapshot = Positions
  /\ \A p \in Positions :
       /\ snapshot[p].number \in 0 .. head /\ snapshot[p].base \in 0 .. head
       /\ snapshot[p].executed # {} => Exported(p)
       /\ Exported(p) => ExportInv(p)
  /\ \A p, q \in Positions :
       Exported(p) /\ Exported(q) /\ Feed[p].block = Feed[q].block =>
         snapshot[p].number = snapshot[q].number

SimulatorInv == PlaceInv /\ OverlayInv /\ SnapshotInv

Made(o, w) == o.worker = w /\ o.block = snapshot[w[1]].number

\* The workers: only flashblocks that were executed have any, one holds at most one
\* opportunity while it sends, and what was found belongs to workers that ended.
WorkerInv ==
  /\ stage \in [Workers -> Stages]
  /\ holding \in [Workers -> SUBSET PossibleOpportunities]
  /\ found \subseteq PossibleOpportunities
  /\ \A w \in Workers :
       /\ stage[w] # "none" => Exported(w[1])
       /\ stage[w] # "sending" => holding[w] = {}
       /\ closed => stage[w] \in {"none", "ended"}
       /\ \A o, q \in holding[w] : Made(o, w) /\ o = q
  /\ \A o \in found :
       \E w \in Workers : Made(o, w) /\ stage[w] = "ended"

PipelineInv == SimulatorInv /\ WorkerInv

-----------------------------------------------------------------------------
LEMMA BlocksOrdered ==
  /\ Len(Feed) \in Nat /\ Positions = 1 .. Len(Feed)
  /\ \A p \in Positions : Feed[p].block \in Nat /\ Feed[p].block > 0
  /\ LastBlock \in Nat
  BY WorkerAssumption DEF Positions, LastBlock

\* Block numbers do not fall along the feed.
LEMMA FeedOrder ==
  ASSUME NEW p \in Positions, NEW q \in Positions, q <= p
  PROVE  Feed[q].block <= Feed[p].block /\ Feed[q].block \in Nat /\ Feed[p].block \in Nat
  BY WorkerAssumption, BlocksOrdered

LEMMA BlocksBounded == \A p \in Positions : Feed[p].block \in 0 .. LastBlock
  <1> SUFFICES ASSUME NEW p \in Positions PROVE Feed[p].block \in 0 .. LastBlock
    OBVIOUS
  <1>1. Len(Feed) \in Positions /\ p <= Len(Feed)
    BY BlocksOrdered
  <1>2. Feed[p].block <= Feed[Len(Feed)].block
    BY <1>1, FeedOrder
  <1> QED BY <1>2, BlocksOrdered DEF LastBlock

LEMMA PipelineInitInv == PipelineInit => PipelineInv
  <1> SUFFICES ASSUME PipelineInit PROVE PipelineInv
    OBVIOUS
  <1> DEFINE empty == [base |-> 0, number |-> 0, changes |-> << >>, executed |-> {}]
  <1>1. /\ head \in 0 .. 1 /\ position = 0 /\ initialized = FALSE /\ currentBlock = 0
        /\ initializing = FALSE /\ latest = 0 /\ exec = empty
        /\ DOMAIN snapshot = Positions /\ \A p \in Positions : snapshot[p] = empty
    BY DEF PipelineInit, Init, Initialized
  <1>2. LastBlock \in Nat \ {0}
    BY WorkerAssumption DEF LastBlock, Positions
  <1>3. head \in 0 .. LastBlock /\ 0 \in 0 .. head /\ 0 \in 0 .. LastBlock
    BY <1>1, <1>2
  <1>4. PlaceInv
    <2>1. initialized \in BOOLEAN /\ initializing \in BOOLEAN /\ ~initializing
      BY <1>1, Zenon
    <2>2. /\ position \in 0 .. Len(Feed) /\ currentBlock \in 0 .. LastBlock /\ latest \in 0 .. head
          /\ \A q \in Positions : currentBlock <= Feed[q].block
      BY <1>1, <1>3, BlocksOrdered
    <2> QED BY <1>3, <2>1, <2>2, Zenon DEF PlaceInv
  <1>5. exec.base = 0 /\ exec.number = 0 /\ exec.executed = {}
    BY <1>1
  <1>6. \A p \in Positions : /\ snapshot[p].base = 0 /\ snapshot[p].number = 0
                             /\ snapshot[p].executed = {}
    BY <1>1
  <1> HIDE DEF empty
  <1>7. OverlayInv
    BY <1>3, <1>5 DEF OverlayInv
  <1>8. SnapshotInv
    BY <1>1, <1>3, <1>6 DEF SnapshotInv, Exported
  <1>9. WorkerInv
    BY DEF PipelineInit, Init, Handler!Init, WorkerInv, Stages
  <1> QED BY <1>4, <1>7, <1>8, <1>9 DEF PipelineInv, SimulatorInv

\* The node may move on under the snapshots.
LEMMA SnapshotsKept ==
  SimulatorInv /\ UNCHANGED simulator /\ head' \in head .. LastBlock => SimulatorInv'
  <1> SUFFICES ASSUME SimulatorInv, UNCHANGED simulator, head' \in head .. LastBlock
               PROVE  SimulatorInv'
    OBVIOUS
  <1>1. UNCHANGED <<position, initialized, currentBlock, initializing, latest, exec, snapshot>>
    BY DEF simulator
  <1>2. \A n \in 0 .. head : n \in 0 .. head'
    BY BlocksOrdered DEF SimulatorInv, PlaceInv
  <1>3. head' \in 0 .. LastBlock
    BY BlocksOrdered DEF SimulatorInv, PlaceInv
  <1>4. PlaceInv'
    BY <1>1, <1>2, <1>3, Zenon DEF SimulatorInv, PlaceInv, Coming
  <1>5. OverlayInv'
    BY <1>1, <1>2, Zenon DEF SimulatorInv, OverlayInv, Current
  <1>6. \A p : (Exported(p)' <=> Exported(p)) /\ (ExportInv(p)' <=> ExportInv(p))
    BY <1>1, Zenon DEF Exported, ExportInv, SoFarOfBlock
  <1>7. SnapshotInv'
    BY <1>1, <1>2, <1>6, Zenon DEF SimulatorInv, SnapshotInv
  <1> QED BY <1>4, <1>5, <1>7 DEF SimulatorInv

LEMMA SnapshotsSame == SimulatorInv /\ UNCHANGED <<head, simulator>> => SimulatorInv'
  BY SnapshotsKept, BlocksOrdered DEF SimulatorInv, PlaceInv

\* What the invariant reads.
LEMMA UntouchedInv ==
  PipelineInv /\ UNCHANGED <<node, simulator, workers, found, closed>> => PipelineInv'
  <1> SUFFICES ASSUME PipelineInv, UNCHANGED <<node, simulator, workers, found, closed>>
               PROVE PipelineInv'
    OBVIOUS
  <1> USE DEF PipelineInv, node, simulator, workers
  <1>1. SimulatorInv'
    BY SnapshotsSame
  <1>2. WorkerInv'
    BY SMTT(30) DEF WorkerInv, Exported, Made
  <1> QED BY <1>1, <1>2

LEMMA StutterInv == PipelineInv /\ UNCHANGED pipelineVars => PipelineInv'
  BY UntouchedInv DEF pipelineVars, vars, handler

\* The handler's own steps, and the end of the channel.
LEMMA HandlerStepInv ==
  PipelineInv /\ (CloseChannel \/ LoopStep \/ \E o \in PossibleOpportunities : TaskStep(o))
    => PipelineInv'
  <1> SUFFICES ASSUME PipelineInv,
                      CloseChannel \/ LoopStep \/ \E o \in PossibleOpportunities : TaskStep(o)
               PROVE PipelineInv'
    OBVIOUS
  <1>1. UNCHANGED <<node, simulator, workers, found>>
    BY DEF CloseChannel, LoopStep, TaskStep, Others, vars, Handler!CloseChannel,
           Handler!Loop, Handler!Receive, Handler!Exit, Handler!CheckStaleness,
           Handler!SkipClaimed, Handler!Claim, Handler!Spawn, Handler!Task, Handler!Deliver,
           Handler!ReturnUnposted, Handler!Post, Handler!ReturnPosted, Handler!Timeout,
           Handler!RemoveClaim, Handler!EndTask, Handler!env
  <1>2. closed' => closed \/ \A w \in Workers : stage[w] \in {"none", "ended"}
    BY DEF CloseChannel, LoopStep, TaskStep, Others, vars, Handler!CloseChannel,
           Handler!Loop, Handler!Receive, Handler!Exit, Handler!CheckStaleness,
           Handler!SkipClaimed, Handler!Claim, Handler!Spawn, Handler!Task, Handler!Deliver,
           Handler!ReturnUnposted, Handler!Post, Handler!ReturnPosted, Handler!Timeout,
           Handler!RemoveClaim, Handler!EndTask, Handler!env
  <1>3. SimulatorInv'
    BY <1>1, SnapshotsSame DEF PipelineInv, node
  <1>4. WorkerInv'
    BY <1>1, <1>2, SMTT(30) DEF PipelineInv, WorkerInv, simulator, workers, Exported, Made
  <1> QED BY <1>3, <1>4 DEF PipelineInv

LEMMA NodeStepInv == PipelineInv /\ NodeStep => PipelineInv'
  <1> SUFFICES ASSUME PipelineInv, NodeStep PROVE PipelineInv'
    OBVIOUS
  <1> USE DEF NodeStep, NewHead, PipelineInv, simulator, workers, handler
  <1>1. SimulatorInv'
    BY SnapshotsKept, BlocksOrdered DEF SimulatorInv, PlaceInv
  <1>2. WorkerInv'
    BY DEF WorkerInv, Exported, Made
  <1> QED BY <1>1, <1>2

\* A step of the simulator that exports nothing leaves the workers alone.
LEMMA WorkersKept ==
  WorkerInv /\ UNCHANGED <<snapshot, stage, holding, found, closed>> => WorkerInv'
  <1> SUFFICES ASSUME WorkerInv, UNCHANGED <<snapshot, stage, holding, found, closed>>
               PROVE  WorkerInv'
    OBVIOUS
  <1> QED BY SMTT(30) DEF WorkerInv, Exported, Made

\* A flashblock at which nothing is executed is none the overlay holds.
LEMMA PassedInv ==
  ASSUME SimulatorInv, Coming \in Positions, position' = Coming, UNCHANGED <<head, currentBlock>>,
         exec'.base \in 0 .. head, exec'.number \in 0 .. head,
         \/ Feed[Coming].block = currentBlock /\ exec'.executed \in SUBSET (1 .. position)
         \/ UNCHANGED <<exec, initializing>>
  PROVE  OverlayInv'
  <1>1. position \in Nat /\ Coming = position + 1 /\ Coming \in Nat
    BY BlocksOrdered DEF SimulatorInv, PlaceInv, Coming
  <1>2. exec'.executed \in SUBSET (1 .. position)
    BY DEF SimulatorInv, OverlayInv
  <1>3. Coming \notin exec'.executed /\ exec'.executed \in SUBSET (1 .. Coming)
    BY <1>1, <1>2
  <1>4. CASE Feed[Coming].block = currentBlock
    <2>1. Coming \in Current'
      BY <1>1, <1>4 DEF Current
    <2> QED BY <1>3, <2>1 DEF OverlayInv
  <1>5. CASE Feed[Coming].block # currentBlock
    <2>1. Current' = Current
      BY <1>1, <1>5 DEF Current
    <2>2. UNCHANGED <<exec, initializing>>
      BY <1>5
    <2> QED BY <1>3, <2>1, <2>2 DEF SimulatorInv, OverlayInv
  <1> QED BY <1>4, <1>5

\* The place after the flashblock.
LEMMA PassedPlace ==
  ASSUME SimulatorInv, Coming \in Positions, position' = Coming,
         UNCHANGED <<head, currentBlock, latest>>, initialized' \in BOOLEAN, initializing' = FALSE
  PROVE  PlaceInv'
  <1>1. position \in Nat /\ Coming = position + 1 /\ Coming \in 0 .. Len(Feed)
    BY BlocksOrdered DEF SimulatorInv, PlaceInv, Coming
  <1>2. \A q \in Positions : q > Coming => q > position
    BY <1>1, BlocksOrdered
  <1> QED BY <1>1, <1>2 DEF SimulatorInv, PlaceInv

LEMMA MissInv == PipelineInv /\ SimulatorStep /\ Miss => PipelineInv'
  <1> SUFFICES ASSUME PipelineInv, SimulatorStep, Miss PROVE PipelineInv'
    OBVIOUS
  <1>1. /\ UNCHANGED <<head, initialized, currentBlock, initializing, latest, exec, snapshot>>
        /\ UNCHANGED <<stage, holding, found, closed>>
        /\ Coming \in Positions /\ ~initializing /\ position' = Coming
    BY DEF SimulatorStep, Miss, node, workers, handler
  <1>2. PlaceInv'
    BY <1>1, PassedPlace DEF PipelineInv, SimulatorInv, PlaceInv
  <1>3. OverlayInv'
    BY <1>1, PassedInv DEF PipelineInv, SimulatorInv, OverlayInv
  <1>4. \A p \in Positions : Exported(p) => ExportInv(p)'
    BY <1>1, BlocksOrdered DEF PipelineInv, SimulatorInv, PlaceInv, SnapshotInv, ExportInv,
                               Coming, SoFarOfBlock
  <1>5. SnapshotInv'
    BY <1>1, <1>4 DEF PipelineInv, SimulatorInv, SnapshotInv, Exported
  <1> QED BY <1>1, <1>2, <1>3, <1>5, WorkersKept DEF PipelineInv, SimulatorInv

LEMMA ReadLatestStateInv == PipelineInv /\ SimulatorStep /\ ReadLatestState => PipelineInv'
  <1> SUFFICES ASSUME PipelineInv, SimulatorStep, ReadLatestState PROVE PipelineInv'
    OBVIOUS
  <1>1. /\ UNCHANGED <<head, position, initialized, exec, snapshot>>
        /\ UNCHANGED <<stage, holding, found, closed>>
        /\ Coming \in Positions /\ MustInitialize /\ ~initializing
        /\ currentBlock' = Feed[Coming].block /\ initializing' = TRUE /\ latest' = head
    BY DEF SimulatorStep, ReadLatestState, node, workers, handler
  <1>2. /\ position \in Nat /\ Coming = position + 1 /\ Coming' = Coming
        /\ currentBlock \in Nat /\ currentBlock <= Feed[Coming].block
        /\ head \in 0 .. head
    BY <1>1, BlocksOrdered DEF PipelineInv, SimulatorInv, PlaceInv, Coming
  <1>3. PlaceInv'
    <2>1. \A q \in Positions : q > position => Feed[Coming].block <= Feed[q].block
      BY <1>1, <1>2, FeedOrder, BlocksOrdered
    <2> QED BY <1>1, <1>2, <2>1, BlocksBounded DEF PipelineInv, SimulatorInv, PlaceInv
  <1>4. OverlayInv'
    BY <1>1 DEF PipelineInv, SimulatorInv, OverlayInv
  <1>5. ASSUME NEW p \in Positions, Exported(p) PROVE ExportInv(p)'
    <2>1. ExportInv(p)
      BY <1>5 DEF PipelineInv, SimulatorInv, SnapshotInv
    <2>2. Feed[Coming].block # currentBlock
      BY <1>1, <2>1 DEF MustInitialize, ExportInv
    <2>3. Feed[p].block < Feed[Coming].block
      BY <1>1, <1>2, <2>1, <2>2, BlocksOrdered DEF ExportInv
    <2> QED BY <1>1, <2>1, <2>3, BlocksOrdered DEF ExportInv, SoFarOfBlock
  <1>6. SnapshotInv'
    BY <1>1, <1>5 DEF PipelineInv, SimulatorInv, SnapshotInv, Exported
  <1> QED BY <1>1, <1>3, <1>4, <1>6, WorkersKept DEF PipelineInv, SimulatorInv

LEMMA FailInitializeInv == PipelineInv /\ SimulatorStep /\ FailInitialize => PipelineInv'
  <1> SUFFICES ASSUME PipelineInv, SimulatorStep, FailInitialize PROVE PipelineInv'
    OBVIOUS
  <1>1. /\ UNCHANGED <<head, initialized, currentBlock, latest, exec, snapshot>>
        /\ UNCHANGED <<stage, holding, found, closed>>
        /\ initializing /\ initializing' = FALSE /\ position' = Coming
    BY DEF SimulatorStep, FailInitialize, node, workers, handler
  <1>2. Coming \in Positions /\ Feed[Coming].block = currentBlock
    BY <1>1 DEF PipelineInv, SimulatorInv, PlaceInv
  <1>3. PlaceInv'
    BY <1>1, <1>2, PassedPlace DEF PipelineInv, SimulatorInv, PlaceInv
  <1>4. OverlayInv'
    BY <1>1, <1>2, PassedInv DEF PipelineInv, SimulatorInv, OverlayInv
  <1>5. \A p \in Positions : Exported(p) => ExportInv(p)'
    BY <1>1, <1>2, BlocksOrdered DEF PipelineInv, SimulatorInv, PlaceInv, SnapshotInv,
                                     ExportInv, Coming, SoFarOfBlock
  <1>6. SnapshotInv'
    BY <1>1, <1>5 DEF PipelineInv, SimulatorInv, SnapshotInv, Exported
  <1> QED BY <1>1, <1>3, <1>4, <1>6, WorkersKept DEF PipelineInv, SimulatorInv

\* The executor a flashblock is executed on: a new one, or the one there is, which then
\* was set up for the block or stayed when an initialisation failed.
LEMMA ReadyInv ==
  ASSUME PipelineInv, SimulatorStep, Ready
  PROVE  /\ UNCHANGED <<head, currentBlock, holding, found, closed>> /\ ~closed
         /\ Coming \in Positions /\ position' = Coming /\ Feed[Coming].block = currentBlock
         /\ Coming = position + 1 /\ position \in Nat
         /\ initialized' = TRUE /\ initializing' = FALSE
         /\ Executor.base \in 0 .. head /\ Executor.number \in 0 .. head
         /\ Executor.executed \in SUBSET (1 .. position)
         /\ IF initializing THEN Executor.executed = {} ELSE Executor = exec
         /\ PlaceInv'
  <1>1. /\ UNCHANGED <<head, currentBlock, latest, holding, found, closed>> /\ ~closed
        /\ Coming \in Positions /\ position' = Coming /\ (MustInitialize => initializing)
        /\ initialized' = TRUE /\ initializing' = FALSE
    BY DEF SimulatorStep, Ready, node, handler
  <1>2. Feed[Coming].block = currentBlock
    BY <1>1 DEF MustInitialize, PipelineInv, SimulatorInv, PlaceInv
  <1>3. PlaceInv'
    BY <1>1, PassedPlace DEF PipelineInv, SimulatorInv
  <1>4. Coming = position + 1 /\ position \in Nat
    BY BlocksOrdered DEF PipelineInv, SimulatorInv, PlaceInv, Coming
  <1>5. CASE initializing
    <2>1. /\ Executor.base = latest /\ Executor.number = head /\ Executor.executed = {}
      BY <1>5 DEF Executor, Initialized
    <2>2. latest \in 0 .. head /\ head \in 0 .. head
      BY BlocksOrdered DEF PipelineInv, SimulatorInv, PlaceInv
    <2> QED BY <1>1, <1>2, <1>3, <1>4, <1>5, <2>1, <2>2
  <1>6. CASE ~initializing
    <2>1. Executor = exec
      BY <1>6 DEF Executor
    <2> QED BY <1>1, <1>2, <1>3, <1>4, <1>6, <2>1 DEF PipelineInv, SimulatorInv, OverlayInv
  <1> QED BY <1>5, <1>6

\* What was exported before stays as it was.
LEMMA ReadyExports ==
  ASSUME PipelineInv, SimulatorStep, Ready, exec'.number = Executor.number,
         NEW p \in Positions, Exported(p), snapshot'[p] = snapshot[p]
  PROVE  ExportInv(p)' /\ (Feed[p].block = currentBlock => snapshot[p].number = exec'.number)
  <1>1. ExportInv(p)
    BY DEF PipelineInv, SimulatorInv, SnapshotInv
  <1>2. Feed[p].block = currentBlock => snapshot[p].number = exec'.number
    BY <1>1, ReadyInv DEF ExportInv
  <1>3. p <= position'
    BY <1>1, ReadyInv, BlocksOrdered DEF ExportInv
  <1> QED BY <1>1, <1>2, <1>3, ReadyInv DEF ExportInv, SoFarOfBlock

LEMMA FailExecuteInv == PipelineInv /\ SimulatorStep /\ FailExecute => PipelineInv'
  <1> SUFFICES ASSUME PipelineInv, SimulatorStep, FailExecute PROVE PipelineInv'
    OBVIOUS
  <1>1. Ready /\ exec' = Executor /\ UNCHANGED <<snapshot, stage>>
    BY DEF FailExecute
  <1>2. OverlayInv'
    BY <1>1, ReadyInv, PassedInv DEF PipelineInv
  <1>3. SnapshotInv'
    BY <1>1, ReadyInv, ReadyExports DEF PipelineInv, SimulatorInv, SnapshotInv, Exported
  <1> QED BY <1>1, <1>2, <1>3, ReadyInv, WorkersKept DEF PipelineInv, SimulatorInv

\* The overlay after the flashblock at position + 1.
LEMMA ExecutedOverlay ==
  ASSUME PipelineInv, SimulatorStep, Execute
  PROVE  /\ exec'.base = Executor.base /\ exec'.number = Executor.number
         /\ exec'.executed = Executor.executed \cup {Coming}
         /\ OverlayInv'
         /\ SoFarOfBlock(Coming) = Current'
  <1> DEFINE E == Executor.executed
  <1>1. Ready /\ exec' = Executed(Executor, Coming)
    BY DEF Execute
  <1>2. /\ exec'.base = Executor.base /\ exec'.number = Executor.number
        /\ exec'.executed = E \cup {Coming}
    BY <1>1 DEF Executed
  <1>3. /\ UNCHANGED <<head, currentBlock>> /\ position' = Coming
        /\ Coming = position + 1 /\ position \in Nat /\ Feed[Coming].block = currentBlock
        /\ Executor.base \in 0 .. head /\ Executor.number \in 0 .. head
        /\ E \in SUBSET (1 .. position) /\ (initializing => E = {})
        /\ (~initializing => E = exec.executed)
    BY <1>1, ReadyInv
  <1> HIDE DEF E
  <1>4. Current' = Current \cup {Coming} /\ Coming \notin Current /\ Coming \notin E
    BY <1>3 DEF Current
  <1>5. Current \cup {Coming} \subseteq E \cup {Coming} =>
          E \cup {Coming} \subseteq Current \cup {Coming}
    <2>1. CASE initializing
      BY <1>3, <2>1
    <2>2. CASE ~initializing
      BY <1>3, <1>4, <2>2 DEF PipelineInv, SimulatorInv, OverlayInv
    <2> QED BY <2>1, <2>2
  <1>6. E \cup {Coming} \in SUBSET (1 .. Coming)
    BY <1>3
  <1>7. OverlayInv'
    BY <1>2, <1>3, <1>4, <1>5, <1>6 DEF OverlayInv
  <1>8. SoFarOfBlock(Coming) = Current'
    BY <1>3 DEF SoFarOfBlock, Current
  <1> QED BY <1>2, <1>7, <1>8 DEF E

\* The export: a snapshot for this flashblock, and workers for it alone.
LEMMA ExecuteExports ==
  ASSUME PipelineInv, SimulatorStep, Execute
  PROVE  /\ ~Exported(Coming) /\ Coming \in exec'.executed
         /\ DOMAIN snapshot' = Positions /\ snapshot'[Coming] = exec'
         /\ \A p \in Positions : p # Coming => snapshot'[p] = snapshot[p]
         /\ stage' \in [Workers -> Stages]
         /\ \A w \in Workers : w[1] # Coming => stage'[w] = stage[w]
         /\ \A w \in Workers : w[1] = Coming =>
              /\ stage[w] = "none"
              /\ stage'[w] = IF w[2] \in Triggered(Coming, DOMAIN exec'.changes)
                               THEN "spawned" ELSE "none"
  <1>1. /\ Ready /\ snapshot' = [snapshot EXCEPT ![Coming] = exec']
        /\ stage' = [w \in Workers |->
                       IF w[1] = Coming /\ w[2] \in Triggered(Coming, DOMAIN exec'.changes)
                         THEN "spawned" ELSE stage[w]]
    BY DEF Execute
  <1>2. Coming \in Positions /\ Coming = position + 1 /\ position \in Nat
    BY <1>1, ReadyInv
  <1>3. ~Exported(Coming)
    BY <1>2 DEF PipelineInv, SimulatorInv, SnapshotInv, ExportInv
  <1>4. /\ DOMAIN snapshot' = Positions /\ snapshot'[Coming] = exec'
        /\ \A p \in Positions : p # Coming => snapshot'[p] = snapshot[p]
    BY <1>1, <1>2 DEF PipelineInv, SimulatorInv, SnapshotInv
  <1>5. Coming \in exec'.executed
    BY ExecutedOverlay
  <1>6. \A w \in Workers : w[1] = Coming => stage[w] = "none"
    BY <1>3 DEF PipelineInv, WorkerInv
  <1>7. stage' \in [Workers -> Stages]
    BY <1>1 DEF PipelineInv, WorkerInv, Stages
  <1> QED BY <1>1, <1>3, <1>4, <1>5, <1>6, <1>7

LEMMA ExecuteInv == PipelineInv /\ SimulatorStep /\ Execute => PipelineInv'
  <1> SUFFICES ASSUME PipelineInv, SimulatorStep, Execute PROVE PipelineInv'
    OBVIOUS
  <1> PICK c : c = Coming
    OBVIOUS
  <1>1. /\ UNCHANGED <<head, currentBlock, holding, found, closed>> /\ ~closed
        /\ c \in Positions /\ position' = c /\ Feed[c].block = currentBlock
        /\ initialized' = TRUE /\ initializing' = FALSE
        /\ exec'.base \in 0 .. head /\ exec'.number \in 0 .. head
        /\ PlaceInv' /\ Ready /\ exec'.number = Executor.number
    BY ReadyInv, ExecutedOverlay DEF Execute
  <1>2. /\ OverlayInv' /\ SoFarOfBlock(c) = Current' /\ c \in exec'.executed
        /\ exec'.executed \in SUBSET (1 .. c)
    BY <1>1, ExecutedOverlay DEF OverlayInv
  <1>3. /\ ~Exported(c) /\ c \in exec'.executed
        /\ DOMAIN snapshot' = Positions /\ snapshot'[c] = exec'
        /\ \A p \in Positions : p # c => snapshot'[p] = snapshot[p]
        /\ stage' \in [Workers -> Stages]
        /\ \A w \in Workers : w[1] # c => stage'[w] = stage[w]
        /\ \A w \in Workers : w[1] = c => stage[w] = "none" /\ stage'[w] \in {"none", "spawned"}
    BY ExecuteExports
  <1>4. Exported(c)' /\ \A p \in Positions : p # c => (Exported(p)' <=> Exported(p))
    BY <1>3 DEF Exported
  <1>5. \A p \in Positions : Exported(p) =>
          ExportInv(p)' /\ (Feed[p].block = currentBlock => snapshot[p].number = exec'.number)
    BY <1>1, <1>3, ReadyExports
  <1>6. ExportInv(c)'
    <2>1. SoFarOfBlock(c) \subseteq exec'.executed => exec'.executed \subseteq SoFarOfBlock(c)
      BY <1>1, <1>2 DEF OverlayInv
    <2>2. c <= c /\ currentBlock <= currentBlock
      BY <1>1, BlocksOrdered
    <2>3. SoFarOfBlock(c)' = SoFarOfBlock(c)
      BY DEF SoFarOfBlock
    <2> QED BY <1>1, <1>2, <1>3, <2>1, <2>2, <2>3 DEF ExportInv
  <1>7. SnapshotInv'
    <2>1. ASSUME NEW p \in Positions
          PROVE  /\ snapshot'[p].number \in 0 .. head' /\ snapshot'[p].base \in 0 .. head'
                 /\ snapshot'[p].executed # {} => Exported(p)'
                 /\ Exported(p)' => ExportInv(p)'
      <3>1. CASE p = c
        BY <1>1, <1>3, <1>4, <1>6, <3>1
      <3>2. CASE p # c
        BY <1>1, <1>3, <1>4, <1>5, <3>2 DEF PipelineInv, SimulatorInv, SnapshotInv
      <3> QED BY <3>1, <3>2
    <2>2. ASSUME NEW p \in Positions, NEW q \in Positions, Exported(p)', Exported(q)',
                 Feed[p].block = Feed[q].block
          PROVE  snapshot'[p].number = snapshot'[q].number
      <3>1. CASE p = c \/ q = c
        BY <1>1, <1>3, <1>4, <1>5, <2>2, <3>1
      <3>2. CASE p # c /\ q # c
        BY <1>3, <1>4, <2>2, <3>2 DEF PipelineInv, SimulatorInv, SnapshotInv
      <3> QED BY <3>1, <3>2
    <2> QED BY <1>3, <2>1, <2>2 DEF SnapshotInv
  <1>8. \A w \in Workers : Exported(w[1]) => w[1] # c /\ snapshot'[w[1]] = snapshot[w[1]]
    BY <1>3 DEF Workers
  <1>9. WorkerInv'
    <2>1. ASSUME NEW w \in Workers
          PROVE  /\ stage'[w] # "none" => Exported(w[1])'
                 /\ stage'[w] # "sending" => holding[w] = {}
                 /\ \A o, q \in holding[w] : Made(o, w)' /\ o = q
      <3>1. CASE w[1] = c
        BY <1>3, <1>4, <3>1 DEF PipelineInv, WorkerInv
      <3>2. CASE w[1] # c
        <4>1. w[1] \in Positions /\ stage'[w] = stage[w] /\ snapshot'[w[1]] = snapshot[w[1]]
          BY <1>3, <3>2 DEF Workers
        <4> QED BY <1>4, <3>2, <4>1 DEF PipelineInv, WorkerInv, Made
      <3> QED BY <3>1, <3>2
    <2>2. \A o \in found : \E w \in Workers : Made(o, w)' /\ stage'[w] = "ended"
      BY <1>3, <1>8 DEF PipelineInv, WorkerInv, Made
    <2> QED BY <1>1, <1>3, <2>1, <2>2 DEF PipelineInv, WorkerInv
  <1> QED BY <1>1, <1>2, <1>7, <1>9 DEF PipelineInv, SimulatorInv

LEMMA SimulatorStepInv == PipelineInv /\ SimulatorStep => PipelineInv'
  BY MissInv, ReadLatestStateInv, FailInitializeInv, FailExecuteInv, ExecuteInv DEF SimulatorStep

\* A worker that holds nothing moves on, or is done.
LEMMA QuietWorkerInv ==
  ASSUME PipelineInv, NEW w \in Workers,
         stage[w] \in {"spawned", "searching"}, NEW s \in {"searching", "ended"}, Goto(w, s),
         UNCHANGED <<node, simulator, holding, channel, handler>>
  PROVE  PipelineInv'
  <1>1. SimulatorInv'
    BY SnapshotsSame DEF PipelineInv, node
  <1>2. /\ stage' \in [Workers -> Stages] /\ stage'[w] = s
        /\ \A v \in Workers : v # w => stage'[v] = stage[v]
    BY DEF PipelineInv, WorkerInv, Goto, Stages
  <1>3. holding[w] = {} /\ ~closed /\ Exported(w[1]) /\ stage[w] \notin {"none", "ended"}
    BY DEF PipelineInv, WorkerInv
  <1>4. WorkerInv'
    BY <1>2, <1>3 DEF PipelineInv, WorkerInv, Exported, Made, simulator, handler
  <1> QED BY <1>1, <1>4 DEF PipelineInv

\* What a worker can make of its snapshot is an opportunity the handler knows.
LEMMA FindsArePossible ==
  ASSUME PipelineInv, NEW w \in Workers, stage[w] = "searching", NEW o \in Finds(w)
  PROVE  o \in PossibleOpportunities /\ Made(o, w)
  <1>1. PICK pr \in Profits, g \in GasUsed, r \in BribeRates(w[2]) :
          o = Opportunity(w, pr, g, EncodeTransactionValue(g, r))
    BY DEF Finds
  <1>2. g \in Gases \cup {DefaultGas}
    BY DEF GasUsed
  <1>3. w[1] \in Positions
    BY DEF Workers
  <1>4. snapshot[w[1]].number \in 0 .. LastBlock
    BY <1>3, BlocksOrdered DEF PipelineInv, SimulatorInv, PlaceInv, SnapshotInv
  <1> DEFINE v == EncodeTransactionValue(g, r)
             values == {EncodeTransactionValue(h, b) :
                          h \in Gases \cup {DefaultGas}, b \in BribeRates(w[2])}
  <1>5. v \in values
    BY <1>2
  <1>6. o = [worker |-> w, block |-> snapshot[w[1]].number, strategy |-> w[2], profit |-> pr,
             gas |-> g, value |-> v]
    BY <1>1 DEF Opportunity
  <1> HIDE DEF v, values
  <1>7. o \in [worker : {w}, block : 0 .. LastBlock, strategy : {w[2]}, profit : Profits,
               gas : Gases \cup {DefaultGas}, value : values]
    BY <1>2, <1>4, <1>5, <1>6
  <1>8. o \in PossibleOpportunities
    BY <1>7 DEF PossibleOpportunities, values
  <1> QED BY <1>6, <1>8 DEF Made

LEMMA SearchStepInv == ASSUME PipelineInv, NEW w \in Workers, SearchStep(w) PROVE PipelineInv'
  <1>1. CASE OpenLatest(w) /\ UNCHANGED handler
    BY <1>1, QuietWorkerInv DEF OpenLatest
  <1>2. CASE (Fail(w) \/ FindNothing(w)) /\ UNCHANGED handler
    BY <1>2, QuietWorkerInv DEF Fail, FindNothing
  <1>3. CASE Find(w) /\ UNCHANGED handler
    <2>1. PICK o \in Finds(w) : holding' = [holding EXCEPT ![w] = {o}]
      BY <1>3 DEF Find
    <2>2. stage[w] = "searching" /\ o \in PossibleOpportunities /\ Made(o, w)
      BY <1>3, FindsArePossible DEF Find
    <2>3. /\ stage' \in [Workers -> Stages] /\ stage'[w] = "sending"
          /\ \A v \in Workers : v # w => stage'[v] = stage[v]
      BY <1>3 DEF PipelineInv, WorkerInv, Find, Goto, Stages
    <2>4. SimulatorInv'
      BY <1>3, SnapshotsSame DEF Find, PipelineInv, node
    <2>5. UNCHANGED <<position, snapshot, found, closed>> /\ ~closed /\ Exported(w[1])
      BY <1>3, <2>2 DEF Find, PipelineInv, WorkerInv, simulator, handler
    <2>6. /\ holding' \in [Workers -> SUBSET PossibleOpportunities] /\ holding'[w] = {o}
          /\ \A v \in Workers : v # w => holding'[v] = holding[v]
      BY <2>1, <2>2 DEF PipelineInv, WorkerInv
    <2>7. \A v \in Workers : \A q, r \in holding'[v] : Made(q, v)' /\ q = r
      BY <2>2, <2>5, <2>6 DEF PipelineInv, WorkerInv, Made
    <2>8. \A q \in found : \E v \in Workers : Made(q, v)' /\ stage'[v] = "ended"
      BY <2>2, <2>3, <2>5 DEF PipelineInv, WorkerInv, Made
    <2>9. WorkerInv'
      BY <2>3, <2>5, <2>6, <2>7, <2>8 DEF PipelineInv, WorkerInv, Exported
    <2> QED BY <2>4, <2>9 DEF PipelineInv
  <1>4. CASE HandOver(w)
    <2>1. /\ stage[w] = "sending" /\ holding' = [holding EXCEPT ![w] = {}]
          /\ found' = found \cup holding[w] /\ UNCHANGED <<node, simulator, closed>>
      BY <1>4 DEF HandOver, Send
    <2>2. /\ stage' \in [Workers -> Stages] /\ stage'[w] = "ended"
          /\ \A v \in Workers : v # w => stage'[v] = stage[v]
      BY <1>4 DEF PipelineInv, WorkerInv, HandOver, Send, Goto, Stages
    <2>3. SimulatorInv'
      BY <2>1, SnapshotsSame DEF PipelineInv, node
    <2>4. \A o \in found' : \E v \in Workers : Made(o, v)' /\ stage'[v] = "ended"
      BY <2>1, <2>2 DEF PipelineInv, WorkerInv, Made, simulator
    <2>5. /\ holding' \in [Workers -> SUBSET PossibleOpportunities] /\ holding'[w] = {}
          /\ \A v \in Workers : v # w => holding'[v] = holding[v]
      BY <2>1 DEF PipelineInv, WorkerInv
    <2>6. \A v \in Workers : \A q, r \in holding'[v] : Made(q, v)' /\ q = r
      BY <2>1, <2>5 DEF PipelineInv, WorkerInv, Made, simulator
    <2>7. found' \subseteq PossibleOpportunities
      BY <2>1 DEF PipelineInv, WorkerInv
    <2>8. snapshot' = snapshot /\ closed' = closed /\ Exported(w[1])
      BY <2>1 DEF PipelineInv, WorkerInv, simulator
    <2>9. WorkerInv'
      BY <2>2, <2>4, <2>5, <2>6, <2>7, <2>8 DEF PipelineInv, WorkerInv, Exported
    <2> QED BY <2>3, <2>9 DEF PipelineInv
  <1> QED BY <1>1, <1>2, <1>3, <1>4 DEF SearchStep

LEMMA PipelineStepInv == PipelineInv /\ [PipelineNext]_pipelineVars => PipelineInv'
  BY StutterInv, HandlerStepInv, NodeStepInv, SimulatorStepInv, SearchStepInv DEF PipelineNext

\* The inductive invariant holds in every reachable state.
THEOREM PipelineInvariant == PipelineSpec => []PipelineInv
  BY PipelineInitInv, PipelineStepInv, PTL DEF PipelineSpec

-----------------------------------------------------------------------------
\* Handing an opportunity over is a step of the handler's environment.
LEMMA HandOverServes ==
  ASSUME PipelineInv, NEW w \in Workers, HandOver(w)
  PROVE  \E o \in PossibleOpportunities : Handler!SendOpportunity(o)
  <1>1. PICK o \in holding[w] : channel' = Append(channel, o)
    BY DEF HandOver, Send
  <1>2. o \in PossibleOpportunities /\ holding[w] = {o} /\ Made(o, w)
    BY <1>1 DEF PipelineInv, WorkerInv
  <1>3. stage[w] = "sending" /\ ~closed
    BY DEF HandOver, Send, PipelineInv, WorkerInv
  <1>4. o \notin found
    BY <1>2, <1>3 DEF PipelineInv, WorkerInv, Made
  <1>5. o.block <= head
    <2>1. w[1] \in Positions
      BY DEF Workers
    <2> QED BY <1>2, <2>1, BlocksOrdered DEF Made, PipelineInv, SimulatorInv, PlaceInv, SnapshotInv
  <1>6. Handler!SendOpportunity(o)
    BY <1>1, <1>2, <1>3, <1>4, <1>5
    DEF HandOver, Send, Handler!SendOpportunity, Handler!loop, Handler!transport, node
  <1> QED BY <1>2, <1>6

\* Every step of the pipeline is a step of the handler or changes nothing it sees.
LEMMA PipelineStepServes ==
  ASSUME PipelineInv, [PipelineNext]_pipelineVars
  PROVE  [Handler!Next]_Handler!vars
  <1> USE DEF Handler!vars, Handler!env, Handler!loop, Handler!transport
  <1>1. CASE UNCHANGED pipelineVars
    BY <1>1 DEF pipelineVars, vars, handler, node
  <1>2. CASE NodeStep
    <2>1. Handler!NewBlock
      BY <1>2 DEF NodeStep, NewHead, handler, Handler!NewBlock
    <2> QED BY <2>1 DEF Handler!Next, Handler!Environment
  <1>3. CASE SimulatorStep
    BY <1>3 DEF SimulatorStep, Miss, ReadLatestState, FailInitialize, FailExecute, Execute,
                Ready, node, handler
  <1>4. CASE CloseChannel
    BY <1>4 DEF CloseChannel, Handler!Next, Handler!Environment
  <1>5. CASE LoopStep
    BY <1>5 DEF LoopStep, Handler!Next
  <1>6. ASSUME NEW w \in Workers, SearchStep(w) PROVE [Handler!Next]_Handler!vars
    <2>1. CASE HandOver(w)
      BY <2>1, HandOverServes DEF Handler!Next, Handler!Environment
    <2>2. CASE (OpenLatest(w) \/ Fail(w) \/ FindNothing(w) \/ Find(w)) /\ UNCHANGED handler
      BY <2>2 DEF OpenLatest, Fail, FindNothing, Find, node, handler
    <2> QED BY <1>6, <2>1, <2>2 DEF SearchStep
  <1>7. ASSUME NEW o \in PossibleOpportunities, TaskStep(o) PROVE [Handler!Next]_Handler!vars
    BY <1>7 DEF TaskStep, Handler!Next, Handler!Environment
  <1> QED BY <1>1, <1>2, <1>3, <1>4, <1>5, <1>6, <1>7 DEF PipelineNext

\* The search workers, the simulator and the node together are an environment the
\* handler allows for.
THEOREM PipelineServesHandler == PipelineSpec => ServesHandler
  <1>1. PipelineInit => Handler!Init
    BY DEF PipelineInit
  <1> QED BY <1>1, PipelineInvariant, PipelineStepServes, PTL
          DEF PipelineSpec, ServesHandler, Handler!Spec

-----------------------------------------------------------------------------
\* What OpportunityHandler assumes of its constants holds for those it gets here.
LEMMA HandlerAssumptionHolds ==
  /\ IsFiniteSet(PossibleOpportunities)
  /\ \A o \in PossibleOpportunities : o.block \in Nat /\ o.profit \in Nat
  /\ None \notin PossibleOpportunities
  /\ Threshold \in Nat /\ MaxStaleness \in Nat /\ LastBlock \in Nat
  /\ MaxConcurrent \in Nat \ {0} /\ ChannelCapacity \in Nat \ {0}
  /\ Modes \subseteq {"disabled", "dry_run", "submit"}
  <1>1. ASSUME NEW o \in PossibleOpportunities PROVE o.block \in Nat /\ o.profit \in Nat
    <2> DEFINE values(w) == {EncodeTransactionValue(g, r) :
                               g \in Gases \cup {DefaultGas}, r \in BribeRates(w[2])}
    <2>1. PICK w \in Workers :
            o \in [worker : {w}, block : 0 .. LastBlock, strategy : {w[2]}, profit : Profits,
                  gas : Gases \cup {DefaultGas}, value : values(w)]
      BY DEF PossibleOpportunities
    <2> HIDE DEF values
    <2>2. o.block \in 0 .. LastBlock /\ o.profit \in Profits
      BY <2>1
    <2>3. \A n \in 0 .. LastBlock : n \in Nat
      BY BlocksOrdered
    <2>4. \A n \in Profits : n \in Nat
      BY WorkerAssumption
    <2>5. o.block \in Nat
      BY <2>2, <2>3, Zenon
    <2>6. o.profit \in Nat
      BY <2>2, <2>4, Zenon
    <2> QED BY <2>5, <2>6
  <1> QED BY <1>1, PipelineAssumption, WorkerAssumption, BlocksOrdered

\* The handler of the pipeline is the one OpportunityHandlerProofs is about.
LEMMA HandlerStepIsProved == [Handler!Next]_Handler!vars => [Proved!Next]_Proved!vars
  BY DEF Handler!Next, Proved!Next, Handler!Environment, Proved!Environment, Handler!NewBlock,
         Proved!NewBlock, Handler!CloseChannel, Proved!CloseChannel,
         Handler!SendOpportunity, Proved!SendOpportunity, Handler!Deliver,
         Proved!Deliver, Handler!Loop, Proved!Loop, Handler!Receive,
         Proved!Receive, Handler!Exit, Proved!Exit, Handler!CheckStaleness,
         Proved!CheckStaleness, Handler!SkipClaimed, Proved!SkipClaimed,
         Handler!Claim, Proved!Claim, Handler!Spawn, Proved!Spawn, Handler!Task,
         Proved!Task, Handler!ReturnUnposted, Proved!ReturnUnposted, Handler!Post,
         Proved!Post, Handler!ReturnPosted, Proved!ReturnPosted, Handler!Timeout,
         Proved!Timeout, Handler!RemoveClaim, Proved!RemoveClaim, Handler!EndTask,
         Proved!EndTask, Handler!NextIteration, Proved!NextIteration,
         Handler!Stale, Proved!Stale, Handler!Profitable, Proved!Profitable,
         Handler!Key, Proved!Key, Handler!env, Proved!env, Handler!loop,
         Proved!loop, Handler!transport, Proved!transport, Handler!vars,
         Proved!vars

LEMMA HandlerIsProved == Proved!HandlerAssumption /\ (Handler!Spec => Proved!Spec)
  <1>1. Proved!HandlerAssumption
    <2>1. Proved!IsFiniteSet(PossibleOpportunities)
      BY HandlerAssumptionHolds DEF IsFiniteSet, Proved!IsFiniteSet
    <2> QED BY <2>1, HandlerAssumptionHolds DEF Proved!HandlerAssumption
  <1>2. Handler!Init => Proved!Init
    BY DEF Handler!Init, Proved!Init
  <1> QED BY <1>1, <1>2, HandlerStepIsProved, PTL DEF Handler!Spec, Proved!Spec

\* In the pipeline, too, attempts on one key do not overlap.
THEOREM PipelineExclusiveClaim == PipelineSpec => []Handler!ExclusiveClaim
  <1>1. Proved!Spec => []Proved!ExclusiveClaim
    BY HandlerIsProved, Proved!HandlerExclusiveClaim, PTL DEF Proved!HandlerExclusiveClaim
  <1>2. Proved!ExclusiveClaim => Handler!ExclusiveClaim
    BY DEF Handler!ExclusiveClaim, Proved!ExclusiveClaim, Handler!Holds,
           Proved!Holds, Handler!InHand, Proved!InHand, Handler!Working,
           Proved!Working, Handler!Acked, Proved!Acked, Handler!Rivals,
           Proved!Rivals, Handler!Key, Proved!Key
  <1> QED BY <1>1, <1>2, HandlerIsProved, PipelineServesHandler, PTL DEF ServesHandler

\* At most one submission of a block and a strategy is acknowledged or under way.
THEOREM PipelineSubmitsOnce == PipelineSpec => []BlockSubmittedOnce
  <1>1. PipelineInv /\ Handler!ExclusiveClaim => BlockSubmittedOnce
    <2> SUFFICES ASSUME PipelineInv, Handler!ExclusiveClaim,
                        NEW o \in found, NEW q \in found,
                        Feed[o.worker[1]].block = Feed[q.worker[1]].block,
                        o.strategy = q.strategy, Handler!Holds(o), Handler!Holds(q)
                 PROVE  o = q
      BY DEF BlockSubmittedOnce
    <2>1. o \in PossibleOpportunities /\ q \in PossibleOpportunities
      BY DEF PipelineInv, WorkerInv
    <2>2. \A r \in found : /\ r.worker[1] \in Positions /\ Exported(r.worker[1])
                            /\ r.block = snapshot[r.worker[1]].number
      BY DEF PipelineInv, WorkerInv, Made, Workers
    <2>3. \A i, j \in Positions :
            Exported(i) /\ Exported(j) /\ Feed[i].block = Feed[j].block =>
              snapshot[i].number = snapshot[j].number
      BY DEF PipelineInv, SimulatorInv, SnapshotInv
    <2>4. o.block = q.block
      BY <2>2, <2>3, Zenon
    <2>5. q \in Handler!Rivals(o)
      BY <2>1, <2>4 DEF Handler!Rivals, Handler!Key
    <2> QED BY <2>1, <2>5 DEF Handler!ExclusiveClaim
  <1> QED BY <1>1, PipelineInvariant, PipelineExclusiveClaim, PTL

-----------------------------------------------------------------------------
\* The value of a bundle is two numbers in one word: the contract gets the gas,
\* rounded down to tens, and the bribe rate back, for every rate of 16 bits, which
\* is why the checked balance is cut to that width.
THEOREM TransactionValueDecodes ==
  ASSUME NEW gas \in Nat, NEW rate \in Nat, rate < 65536
  PROVE  /\ EncodeTransactionValue(gas, rate) % 65536 = rate
         /\ EncodeTransactionValue(gas, rate) \div 65536 = gas \div 10
  <1>1. gas \div 10 \in Nat
    OBVIOUS
  <1>2. ASSUME NEW n \in Nat
        PROVE  (n * 65536 + rate) % 65536 = rate /\ (n * 65536 + rate) \div 65536 = n
    <2>1. (n * 65536 + rate) \div 65536 = n
      BY SMT
    <2>2. (n * 65536 + rate) % 65536 = rate
      BY SMTT(60)
    <2> QED BY <2>1, <2>2
  <1>3. EncodeTransactionValue(gas, rate) = (gas \div 10) * 65536 + rate
    BY SMT DEF EncodeTransactionValue
  <1> HIDE DEF EncodeTransactionValue
  <1> QED BY <1>1, <1>2, <1>3, SMTT(30)

LEMMA BribeRatesFit == \A c \in Configs : \A r \in BribeRates(c) : r \in Nat /\ r < 65536
  <1> SUFFICES ASSUME NEW c \in Configs, NEW r \in BribeRates(c) PROVE r \in Nat /\ r < 65536
    OBVIOUS
  <1>1. CASE r = DefaultBribe
    BY <1>1 DEF DefaultBribe
  <1>2. ASSUME NEW b \in Balances, r = b % 65536 PROVE r \in Nat /\ r < 65536
    <2>1. b \in Nat
      BY WorkerAssumption
    <2> QED BY <1>2, <2>1
  <1>3. r = DefaultBribe \/ \E b \in Balances : r = b % 65536
    BY DEF BribeRates
  <1> QED BY <1>1, <1>2, <1>3, SMT

\* So it is for every opportunity a worker can find: whatever gas was measured and
\* whatever balance was read, the bundle carries both.
THEOREM FoundValueDecodes ==
  ASSUME NEW w \in Workers, NEW o \in Finds(w)
  PROVE  o.value % 65536 \in BribeRates(w[2]) /\ o.value \div 65536 = o.gas \div 10
  <1>1. PICK p \in Profits, g \in GasUsed, r \in BribeRates(w[2]) :
          o = Opportunity(w, p, g, EncodeTransactionValue(g, r))
    BY DEF Finds
  <1>2. o.gas = g /\ o.value = EncodeTransactionValue(g, r)
    BY <1>1, SMT DEF Opportunity
  <1>3. g \in Nat
    BY WorkerAssumption DEF GasUsed, DefaultGas
  <1>4. w[2] \in Configs
    BY DEF Workers
  <1>5. r \in Nat /\ r < 65536
    BY <1>4, BribeRatesFit, SMT
  <1>6. /\ EncodeTransactionValue(g, r) % 65536 = r
        /\ EncodeTransactionValue(g, r) \div 65536 = g \div 10
    BY <1>3, <1>5, TransactionValueDecodes, SMT
  <1>7. o.value % 65536 = r
    BY <1>2, <1>6, SMT
  <1>8. o.value \div 65536 = o.gas \div 10
    BY <1>2, <1>6, SMT
  <1> QED BY <1>7, <1>8, SMT

-----------------------------------------------------------------------------
(* What the snapshots hold, and what a worker sees through one.             *)

TouchedIn(Q)    == UNION {Touched(q) : q \in Q}
WrittenIn(a, Q) == \E q \in Q : a \in Feed[q].writes

\* What an overlay over block h holds after the flashblocks of Q: every account they
\* touched, as they last wrote it or as it was in h.
Contents(Q, h) ==
  [a \in TouchedIn(Q) |-> IF WrittenIn(a, Q) THEN LastWrite(a, Q) ELSE Committed(h)[a]]

ContentsInv ==
  /\ exec.changes = Contents(exec.executed, exec.base)
  /\ \A p \in Positions : snapshot[p].changes = Contents(snapshot[p].executed, snapshot[p].base)

\* A worker opens the latest state after its snapshot was taken.
ViewInv ==
  /\ seen \in [Workers -> 0 .. LastBlock]
  /\ \A w \in Workers : Opened(w) => snapshot[w[1]].base <= seen[w]

SearchInv == ContentsInv /\ ViewInv /\ SearchedWhenTouched

\* A nonempty bounded set of natural numbers has a greatest element.
LEMMA MaxOfBounded ==
  ASSUME NEW n \in Nat, NEW S \in SUBSET (0 .. n), S # {}
  PROVE  Max(S) \in S /\ \A y \in S : Max(S) >= y
  <1> DEFINE Above(x) == {y \in S : y > x}
             T == {Above(x) : x \in S}
             R == StrictSubsetOrdering(0 .. n)
  <1>1. IsFiniteSet(0 .. n)
    BY FS_Interval
  <1>2. IsWellFoundedOn(R, SUBSET (0 .. n))
    BY <1>1, FS_StrictSubsetOrderingWellFounded, FS_FiniteSubsetsOfFinite
  <1>3. T \subseteq SUBSET (0 .. n) /\ T # {}
    OBVIOUS
  <1> HIDE DEF R, T
  <1>4. PICK U \in T : \A V \in T : ~ (<<V, U>> \in R)
    BY <1>2, <1>3, WFMin
  <1>5. PICK x \in S : U = Above(x)
    BY <1>4 DEF T
  <1>6. ASSUME NEW y \in S, y > x PROVE FALSE
    <2>1. Above(y) \in T
      BY DEF T
    <2>2. Above(y) \subseteq Above(x)
      <3>1. SUFFICES ASSUME NEW z \in S, z > y PROVE z > x
        OBVIOUS
      <3>2. x \in 0 .. n /\ y \in 0 .. n /\ z \in 0 .. n
        OBVIOUS
      <3> QED BY <1>6, <3>1, <3>2
    <2>3. y \in Above(x) /\ y \notin Above(y)
      BY <1>6
    <2>4. Above(y) \in SUBSET (0 .. n) /\ Above(x) \in SUBSET (0 .. n)
      OBVIOUS
    <2>5. <<Above(y), Above(x)>> \in R
      BY <2>2, <2>3, <2>4 DEF R, StrictSubsetOrdering
    <2> QED BY <1>4, <1>5, <2>1, <2>5
  <1>7. \A y \in S : x >= y
    BY <1>6
  <1> QED BY <1>7 DEF Max

\* The last write of an address among some flashblocks: one that wrote it, or 0.
LEMMA LastWriteIsLast ==
  ASSUME NEW a, NEW Q \in SUBSET Positions
  PROVE  /\ LastWrite(a, Q) \in Nat
         /\ LastWrite(a, Q) = 0 \/ (LastWrite(a, Q) \in Q /\ a \in Feed[LastWrite(a, Q)].writes)
         /\ \A q \in Q : a \in Feed[q].writes => q <= LastWrite(a, Q)
  <1> DEFINE S == {q \in Q : a \in Feed[q].writes} \cup {0}
  <1>1. S \in SUBSET (0 .. Len(Feed)) /\ S # {} /\ Len(Feed) \in Nat
    <2>1. Q \subseteq 0 .. Len(Feed) /\ 0 \in 0 .. Len(Feed)
      BY BlocksOrdered
    <2> QED BY <2>1, BlocksOrdered
  <1>2. Max(S) \in S /\ \A y \in S : Max(S) >= y
    BY <1>1, MaxOfBounded
  <1>3. LastWrite(a, Q) = Max(S)
    BY DEF LastWrite
  <1> HIDE DEF S
  <1>4. LastWrite(a, Q) \in S /\ \A y \in S : LastWrite(a, Q) >= y
    BY <1>2, <1>3
  <1> USE DEF S
  <1> QED BY <1>1, <1>4, BlocksOrdered

\* It is the only such number.
LEMMA LastWriteUnique ==
  ASSUME NEW a, NEW Q \in SUBSET Positions, NEW m \in Q, a \in Feed[m].writes,
         \A q \in Q : a \in Feed[q].writes => q <= m
  PROVE  LastWrite(a, Q) = m
  <1>1. m <= LastWrite(a, Q) /\ LastWrite(a, Q) \in Nat
    BY LastWriteIsLast
  <1>2. m \in Nat /\ m > 0
    BY BlocksOrdered
  <1>3. LastWrite(a, Q) <= m
    BY <1>1, <1>2, LastWriteIsLast
  <1> QED BY <1>1, <1>2, <1>3

LEMMA TouchedInAddresses == \A Q \in SUBSET Positions : TouchedIn(Q) \subseteq Addresses
  <1>1. \A q \in Positions : Touched(q) \subseteq Addresses
    BY WorkerAssumption DEF Touched
  <1> QED BY <1>1 DEF TouchedIn

LEMMA WrittenTouched == \A a, Q : WrittenIn(a, Q) => a \in TouchedIn(Q)
  BY DEF WrittenIn, TouchedIn, Touched

\* The accounts an overlay has after the flashblock at p, with the known ones over h.
After(p, known, h) ==
  [a \in Touched(p) \cup DOMAIN known |->
     IF a \in Feed[p].writes THEN p ELSE Overlaid(known, h)[a]]

LEMMA NothingExecuted == \A h : Contents({}, h) = << >>
  BY DEF Contents, TouchedIn

\* Executing one flashblock more keeps the overlay what it should be.
LEMMA ExecutedContents ==
  ASSUME NEW p \in Positions, NEW h, NEW Q \in SUBSET (1 .. p), p \notin Q
  PROVE  After(p, Contents(Q, h), h) = Contents(Q \cup {p}, h)
  <1> DEFINE R == Q \cup {p}
             known == Contents(Q, h)
  <1>1. /\ Q \in SUBSET Positions /\ R \in SUBSET Positions
        /\ \A q \in R : q <= p
    BY BlocksOrdered
  <1>2. TouchedIn(R) = Touched(p) \cup TouchedIn(Q)
    BY DEF TouchedIn
  <1>3. DOMAIN known = TouchedIn(Q)
    BY DEF Contents
  <1>4. ASSUME NEW a \in TouchedIn(R)
        PROVE  (IF a \in Feed[p].writes THEN p ELSE Overlaid(known, h)[a])
                 = (IF WrittenIn(a, R) THEN LastWrite(a, R) ELSE Committed(h)[a])
    <2>1. a \in Addresses
      BY <1>1, TouchedInAddresses
    <2>2. CASE a \in Feed[p].writes
      <3>1. WrittenIn(a, R)
        BY <2>2 DEF WrittenIn
      <3>2. LastWrite(a, R) = p
        BY <1>1, <2>2, LastWriteUnique
      <3> QED BY <2>2, <3>1, <3>2
    <2>3. CASE a \notin Feed[p].writes
      <3>1. WrittenIn(a, R) <=> WrittenIn(a, Q)
        BY <2>3 DEF WrittenIn
      <3>2. LastWrite(a, R) = LastWrite(a, Q)
        <4>1. {r \in R : a \in Feed[r].writes} = {r \in Q : a \in Feed[r].writes}
          BY <2>3
        <4> QED BY <4>1 DEF LastWrite
      <3>3. Overlaid(known, h)[a] = IF a \in TouchedIn(Q) THEN known[a] ELSE Committed(h)[a]
        BY <1>3, <2>1 DEF Overlaid
      <3>4. CASE a \in TouchedIn(Q)
        BY <2>3, <3>1, <3>2, <3>3, <3>4 DEF Contents
      <3>5. CASE a \notin TouchedIn(Q)
        <4>1. ~WrittenIn(a, Q)
          BY <3>5 DEF WrittenIn, TouchedIn, Touched
        <4> QED BY <2>3, <3>1, <3>3, <3>5, <4>1
      <3> QED BY <3>4, <3>5
    <2> QED BY <2>2, <2>3
  <1>5. \A a \in TouchedIn(R) : Contents(R, h)[a]
                                 = (IF WrittenIn(a, R) THEN LastWrite(a, R) ELSE Committed(h)[a])
    BY DEF Contents
  <1>6. After(p, known, h)
          = [a \in TouchedIn(R) |-> IF a \in Feed[p].writes THEN p ELSE Overlaid(known, h)[a]]
    BY <1>2, <1>3 DEF After
  <1> HIDE DEF R, known
  <1>7. After(p, known, h)
          = [a \in TouchedIn(R) |-> IF WrittenIn(a, R) THEN LastWrite(a, R) ELSE Committed(h)[a]]
    BY <1>4, <1>6
  <1> QED BY <1>7 DEF Contents, R, known

\* What a step that is not the simulator's leaves of all this.
LEMMA OtherSteps ==
  ASSUME PipelineInv, seen \in [Workers -> 0 .. LastBlock],
         [PipelineNext]_pipelineVars, ~SimulatorStep
  PROVE  /\ UNCHANGED simulator
         /\ seen' \in [Workers -> 0 .. LastBlock]
         /\ \A w \in Workers :
              /\ stage'[w] = "none" <=> stage[w] = "none"
              /\ stage'[w] = "searching" =>
                   \/ stage[w] = "searching" /\ seen'[w] = seen[w]
                   \/ stage[w] = "spawned" /\ seen'[w] = head
  <1> USE DEF PipelineInv, SimulatorInv, PlaceInv, WorkerInv
  <1>0. 0 \in 0 .. LastBlock
    BY BlocksOrdered
  <1>1. CASE UNCHANGED pipelineVars
    BY <1>1 DEF pipelineVars, vars, workers, simulator
  <1>2. CASE NodeStep
    BY <1>2 DEF NodeStep, NewHead, workers
  <1>3. CASE CloseChannel \/ LoopStep \/ \E o \in PossibleOpportunities : TaskStep(o)
    BY <1>3 DEF CloseChannel, LoopStep, TaskStep, Others, vars, workers, simulator
  <1>4. ASSUME NEW w \in Workers, SearchStep(w)
        PROVE  /\ UNCHANGED simulator
               /\ seen' \in [Workers -> 0 .. LastBlock]
               /\ \A v \in Workers :
                    /\ stage'[v] = "none" <=> stage[v] = "none"
                    /\ stage'[v] = "searching" =>
                         \/ stage[v] = "searching" /\ seen'[v] = seen[v]
                         \/ stage[v] = "spawned" /\ seen'[v] = head
    <2>1. CASE OpenLatest(w)
      BY <2>1 DEF OpenLatest, Goto, Stages
    <2>2. CASE Fail(w) \/ FindNothing(w) \/ Find(w)
      BY <1>0, <2>2 DEF Fail, FindNothing, Find, Goto, DropState, Stages
    <2>3. CASE HandOver(w)
      BY <2>3 DEF HandOver, Send, Goto, Stages
    <2> QED BY <1>4, <2>1, <2>2, <2>3 DEF SearchStep
  <1> QED BY <1>1, <1>2, <1>3, <1>4 DEF PipelineNext

\* No step but the simulator's disturbs the invariant.
LEMMA OtherStepsInv ==
  ASSUME PipelineInv, SearchInv, [PipelineNext]_pipelineVars, ~SimulatorStep
  PROVE  SearchInv'
  <1>1. /\ UNCHANGED <<exec, snapshot>>
        /\ seen' \in [Workers -> 0 .. LastBlock]
        /\ \A w \in Workers :
             /\ stage'[w] = "none" <=> stage[w] = "none"
             /\ stage'[w] = "searching" =>
                  \/ stage[w] = "searching" /\ seen'[w] = seen[w]
                  \/ stage[w] = "spawned" /\ seen'[w] = head
    BY OtherSteps DEF SearchInv, ViewInv, simulator
  <1>2. ContentsInv'
    BY <1>1 DEF SearchInv, ContentsInv
  <1>3. ViewInv'
    <2>1. ASSUME NEW w \in Workers, stage[w] = "spawned" PROVE snapshot[w[1]].base <= head
      <3>1. w[1] \in Positions
        BY DEF Workers
      <3> QED BY <3>1, BlocksOrdered DEF PipelineInv, SimulatorInv, PlaceInv, SnapshotInv
    <2> QED BY <1>1, <2>1 DEF SearchInv, ViewInv, Opened
  <1>4. SearchedWhenTouched'
    BY <1>1 DEF SearchInv, SearchedWhenTouched
  <1> QED BY <1>2, <1>3, <1>4 DEF SearchInv

\* A step of the simulator that exports nothing.
LEMMA NoExportSearchInv ==
  ASSUME SearchInv, UNCHANGED <<snapshot, stage, seen>>,
         exec'.changes = Contents(exec'.executed, exec'.base)
  PROVE  SearchInv'
  <1>1. ContentsInv'
    BY DEF SearchInv, ContentsInv
  <1>2. ViewInv'
    BY DEF SearchInv, ViewInv, Opened
  <1>3. SearchedWhenTouched'
    BY DEF SearchInv, SearchedWhenTouched
  <1> QED BY <1>1, <1>2, <1>3 DEF SearchInv

\* What is executed on holds what it should.
LEMMA ExecutorContents ==
  SearchInv => Executor.changes = Contents(Executor.executed, Executor.base)
  <1>1. CASE initializing
    <2>1. Executor.changes = << >> /\ Executor.executed = {}
      BY <1>1 DEF Executor, Initialized
    <2> QED BY <2>1, NothingExecuted
  <1>2. CASE ~initializing
    <2>1. Executor = exec
      BY <1>2 DEF Executor
    <2> QED BY <2>1 DEF SearchInv, ContentsInv
  <1> QED BY <1>1, <1>2

LEMMA QuietSearchInv ==
  ASSUME PipelineInv, SearchInv, Miss \/ ReadLatestState \/ FailInitialize \/ FailExecute
  PROVE  SearchInv'
  <1>1. UNCHANGED <<snapshot, stage, seen>>
    BY DEF Miss, ReadLatestState, FailInitialize, FailExecute, Ready, workers
  <1>2. exec' = exec \/ exec' = Executor
    BY DEF Miss, ReadLatestState, FailInitialize, FailExecute
  <1>3. exec'.changes = Contents(exec'.executed, exec'.base)
    BY <1>2, ExecutorContents DEF SearchInv, ContentsInv
  <1> QED BY <1>1, <1>3, NoExportSearchInv

\* The snapshot a flashblock leaves, and the workers it spawns.
LEMMA ExecuteSearchInv ==
  ASSUME PipelineInv, SearchInv, SimulatorStep, Execute
  PROVE  SearchInv'
  <1> DEFINE c == Coming
             E == Executor.executed
             h == Executor.base
  <1>1. /\ c \in Positions /\ E \in SUBSET (1 .. c) /\ c \notin E /\ seen' = seen
    <2>1. Ready
      BY DEF Execute
    <2>2. /\ c \in Positions /\ c = position + 1 /\ position \in Nat
          /\ E \in SUBSET (1 .. position)
      BY <2>1, ReadyInv
    <2> HIDE DEF E, c
    <2> QED BY <2>1, <2>2 DEF Ready
  <1>2. /\ exec'.base = h /\ exec'.executed = E \cup {c}
    BY ExecutedOverlay
  <1>3. exec'.changes = Contents(E \cup {c}, h)
    <2>1. exec'.changes = After(c, Executor.changes, h)
      BY DEF Execute, Executed, After
    <2>2. Executor.changes = Contents(E, h)
      BY ExecutorContents
    <2> HIDE DEF E, c, h
    <2> QED BY <1>1, <2>1, <2>2, ExecutedContents
  <1>4. /\ ~Exported(c) /\ snapshot'[c] = exec'
        /\ \A p \in Positions : p # c => snapshot'[p] = snapshot[p]
        /\ \A w \in Workers : w[1] # c => stage'[w] = stage[w]
        /\ \A w \in Workers : w[1] = c =>
             /\ stage[w] = "none"
             /\ stage'[w] = IF w[2] \in Triggered(c, DOMAIN exec'.changes)
                              THEN "spawned" ELSE "none"
    BY ExecuteExports
  <1>5. DOMAIN exec'.changes = TouchedIn(exec'.executed)
    BY <1>2, <1>3 DEF Contents
  <1> HIDE DEF c, E, h
  <1>6. ContentsInv'
    <2>1. ASSUME NEW p \in Positions
          PROVE  snapshot'[p].changes = Contents(snapshot'[p].executed, snapshot'[p].base)
      <3>1. CASE p = c
        BY <1>2, <1>3, <1>4, <3>1
      <3>2. CASE p # c
        BY <1>4, <3>2 DEF SearchInv, ContentsInv
      <3> QED BY <3>1, <3>2
    <2> QED BY <1>2, <1>3, <2>1 DEF ContentsInv
  <1>7. \A w \in Workers : w[1] \in Positions /\ w[2] \in Configs
    BY DEF Workers
  <1>8. ViewInv'
    <2>1. ASSUME NEW w \in Workers, stage'[w] = "searching"
          PROVE  stage[w] = "searching" /\ snapshot'[w[1]] = snapshot[w[1]]
      BY <1>4, <1>7, <2>1
    <2> QED BY <1>1, <2>1 DEF SearchInv, ViewInv, Opened
  <1>9. SearchedWhenTouched'
    <2> DEFINE Concerned(w, Q) ==
                 \/ Feed[w[1]].oracle /\ w[1] \in Q
                 \/ \E q \in Q : Watches[w[2]] \cap Touched(q) # {}
    <2>1. ASSUME NEW w \in Workers
          PROVE  stage'[w] # "none" <=> Concerned(w, snapshot'[w[1]].executed)
      <3>1. CASE w[1] = c
        <4>1. stage'[w] # "none" <=> w[2] \in Triggered(c, TouchedIn(exec'.executed))
          BY <1>4, <1>5, <3>1
        <4>2. w[2] \in Triggered(c, TouchedIn(exec'.executed)) <=>
                Feed[c].oracle \/ Watches[w[2]] \cap TouchedIn(exec'.executed) # {}
          BY <1>7 DEF Triggered
        <4>3. Watches[w[2]] \cap TouchedIn(exec'.executed) # {} <=>
                \E q \in exec'.executed : Watches[w[2]] \cap Touched(q) # {}
          BY DEF TouchedIn
        <4>4. c \in exec'.executed
          BY <1>2
        <4> QED BY <1>4, <3>1, <4>1, <4>2, <4>3, <4>4
      <3>2. CASE w[1] # c
        BY <1>4, <1>7, <3>2 DEF SearchInv, SearchedWhenTouched
      <3> QED BY <3>1, <3>2
    <2> QED BY <2>1 DEF SearchedWhenTouched
  <1> QED BY <1>6, <1>8, <1>9 DEF SearchInv

\* The invariant of the snapshots and the views holds in every reachable state.
LEMMA SearchInvariant == PipelineSpec => []SearchInv
  <1>1. PipelineInit => SearchInv
    <2> SUFFICES ASSUME PipelineInit PROVE SearchInv
      OBVIOUS
    <2> DEFINE empty == [base |-> 0, number |-> 0, changes |-> << >>, executed |-> {}]
    <2>1. /\ exec = empty /\ \A p \in Positions : snapshot[p] = empty
          /\ \A w \in Workers : stage[w] = "none" /\ w[1] \in Positions
          /\ seen = [w \in Workers |-> 0]
      BY DEF PipelineInit, Init, Initialized, Workers
    <2>2. empty.changes = << >> /\ empty.executed = {}
      OBVIOUS
    <2> HIDE DEF empty
    <2>3. ContentsInv
      BY <2>1, <2>2, NothingExecuted DEF ContentsInv
    <2>4. ViewInv
      BY <2>1, BlocksOrdered DEF ViewInv, Opened
    <2>5. SearchedWhenTouched
      BY <2>1, <2>2 DEF SearchedWhenTouched
    <2> QED BY <2>3, <2>4, <2>5 DEF SearchInv
  <1>2. PipelineInv /\ SearchInv /\ [PipelineNext]_pipelineVars => SearchInv'
    BY OtherStepsInv, QuietSearchInv, ExecuteSearchInv DEF SimulatorStep
  <1> QED BY <1>1, <1>2, PipelineInvariant, PTL DEF PipelineSpec

\* A configuration is searched after exactly the flashblocks that concern it.
THEOREM PipelineSearchedWhenTouched == PipelineSpec => []SearchedWhenTouched
  BY SearchInvariant, PTL DEF SearchInv

\* Where all of its block was executed, a worker searches the state after its
\* flashblock, or a newer one of a block that the node has imported meanwhile.
THEOREM PipelineViewIsExactOrNewer == PipelineSpec => []ViewIsExactOrNewer
  <1>1. PipelineInv /\ SearchInv => ViewIsExactOrNewer
    <2> SUFFICES ASSUME PipelineInv, SearchInv, NEW w \in Workers, Opened(w),
                        OnParent(w[1]), NEW a \in Addresses
                 PROVE  /\ View(w)[a] >= Exact(w[1])[a]
                        /\ View(w)[a] # Exact(w[1])[a] => seen[w] >= Feed[w[1]].block
      BY DEF ViewIsExactOrNewer
    <2> DEFINE p == w[1]
               n == snapshot[p].base
               E == SoFarOfBlock(p)
               last == LastWrite(a, 1 .. p)
    <2>0. Exported(p) /\ p \in Positions
      BY DEF Opened, PipelineInv, WorkerInv, Workers
    <2>1. /\ p \in Nat /\ n \in Nat /\ seen[w] \in Nat /\ n <= seen[w]
          /\ Feed[p].block \in Nat /\ 1 .. p \in SUBSET Positions
      BY <2>0, BlocksOrdered DEF PipelineInv, SimulatorInv, PlaceInv, SnapshotInv, Opened,
                                 SearchInv, ViewInv
    <2>2. /\ snapshot[p].executed = E /\ E \in SUBSET (1 .. p) /\ E \in SUBSET Positions
          /\ \A q \in 1 .. p : q \in E <=> Feed[q].block = Feed[p].block
      <3>1. ExportInv(p)
        BY <2>0 DEF PipelineInv, SimulatorInv, SnapshotInv
      <3> QED BY <2>1, <3>1 DEF ExportInv, OnParent, SoFarOfBlock
    <2>8. View(w)[a] = IF a \in TouchedIn(E) THEN Contents(E, n)[a] ELSE Committed(seen[w])[a]
      BY <2>0, <2>2 DEF View, Overlaid, Contents, SearchInv, ContentsInv
    <2>3. Exact(p)[a] = last
      BY DEF Exact
    <2>4. /\ last \in Nat
          /\ last = 0 \/ (last \in 1 .. p /\ a \in Feed[last].writes)
          /\ \A q \in 1 .. p : a \in Feed[q].writes => q <= last
      BY <2>1, LastWriteIsLast
    <2> HIDE DEF last, n, p, E
    <2>5. CASE WrittenIn(a, E)
      <3>1. View(w)[a] = LastWrite(a, E)
        BY <2>5, <2>8, WrittenTouched DEF Contents
      <3>2. PICK m \in E : a \in Feed[m].writes
        BY <2>5 DEF WrittenIn
      <3>3. m \in 1 .. p /\ m \in Positions /\ Feed[m].block = Feed[p].block /\ m <= last
        BY <2>1, <2>2, <2>4, <3>2
      <3>4. last \in 1 .. p /\ last \in Positions /\ last <= p /\ a \in Feed[last].writes
        BY <2>1, <2>4, <3>3
      <3>5. Feed[last].block = Feed[p].block
        BY <2>1, <3>3, <3>4, FeedOrder
      <3>6. last \in E
        BY <2>2, <3>4, <3>5
      <3>7. LastWrite(a, E) = last
        <4>1. \A q \in E : a \in Feed[q].writes => q <= last
          BY <2>2, <2>4
        <4> QED BY <2>2, <3>4, <3>6, <4>1, LastWriteUnique
      <3> QED BY <2>3, <2>4, <3>1, <3>7 DEF p
    <2>6. CASE ~WrittenIn(a, E)
      <3>1. PICK h \in Nat : n <= h /\ h <= seen[w] /\ View(w)[a] = Committed(h)[a]
        <4>1. CASE a \in TouchedIn(E)
          BY <2>1, <2>6, <2>8, <4>1 DEF Contents
        <4>2. CASE a \notin TouchedIn(E)
          BY <2>1, <2>8, <4>2
        <4> QED BY <4>1, <4>2
      <3> DEFINE imported == {q \in Positions : Feed[q].block <= h}
                 shown    == LastWrite(a, imported)
      <3>2. View(w)[a] = shown
        BY <3>1 DEF Committed
      <3>3. /\ shown \in Nat
            /\ shown = 0 \/ (shown \in imported /\ a \in Feed[shown].writes)
            /\ \A q \in imported : a \in Feed[q].writes => q <= shown
        BY LastWriteIsLast
      <3> HIDE DEF shown
      <3>4. last <= shown
        <4>1. CASE last = 0
          BY <3>3, <4>1
        <4>2. CASE last # 0
          <5>1. last \in 1 .. p /\ last \in Positions /\ last <= p /\ a \in Feed[last].writes
            BY <2>1, <2>4, <4>2
          <5>2. Feed[last].block # Feed[p].block
            BY <2>2, <2>6, <5>1 DEF WrittenIn
          <5>3. Feed[last].block < Feed[p].block
            BY <2>1, <5>1, <5>2, FeedOrder
          <5>4. n + 1 >= Feed[p].block
            BY DEF n, p, OnParent
          <5>5. Feed[last].block <= h
            BY <2>1, <3>1, <5>1, <5>3, <5>4, FeedOrder
          <5> QED BY <3>3, <5>1, <5>5
        <4> QED BY <4>1, <4>2
      <3>5. ASSUME shown # last PROVE seen[w] >= Feed[p].block
        <4>1. shown > last /\ shown \in imported /\ a \in Feed[shown].writes
          BY <2>4, <3>3, <3>4, <3>5
        <4>2. shown \in Positions /\ shown \notin 1 .. p /\ shown > p
          BY <2>1, <2>4, <4>1, BlocksOrdered
        <4>3. Feed[p].block <= Feed[shown].block /\ Feed[shown].block <= h
          BY <2>0, <2>1, <4>1, <4>2, FeedOrder, BlocksOrdered
        <4> QED BY <2>1, <3>1, <4>2, <4>3, BlocksOrdered
      <3> QED BY <2>3, <2>4, <3>2, <3>3, <3>4, <3>5 DEF p
    <2> QED BY <2>5, <2>6
  <1> QED BY <1>1, SearchInvariant, PipelineInvariant, PTL

-----------------------------------------------------------------------------
(* Types.                                                                    *)

\* What the other invariants leave open.
RestInv ==
  /\ bot \in BotAccounts
  /\ \A w \in Workers : stage[w] = "sending" => holding[w] # {}
  /\ channel \in Seq(PossibleOpportunities) /\ Len(channel) <= ChannelCapacity

LEMMA RestStepInv ==
  ASSUME PipelineInv, SearchInv, RestInv, [PipelineNext]_pipelineVars
  PROVE  RestInv'
  <1> USE DEF RestInv, node, simulator, workers, handler
  <1>1. CASE UNCHANGED pipelineVars
    BY <1>1 DEF pipelineVars, vars
  <1>2. CASE NodeStep \/ CloseChannel \/ \E o \in PossibleOpportunities : TaskStep(o)
    <2>1. UNCHANGED <<bot, simulator, stage, holding, channel>>
      BY <1>2 DEF NodeStep, NewHead, CloseChannel, TaskStep, Others, vars, Handler!Task,
             Handler!Deliver, Handler!ReturnUnposted, Handler!Post, Handler!ReturnPosted,
             Handler!Timeout, Handler!RemoveClaim, Handler!EndTask
    <2> QED BY <2>1
  <1>3. CASE LoopStep
    <2>1. UNCHANGED <<bot, simulator, stage, holding>>
      BY <1>3 DEF LoopStep, Others
    <2>2. channel' = channel \/ (channel # << >> /\ channel' = Tail(channel))
      BY <1>3 DEF LoopStep, Handler!Loop, Handler!Receive, Handler!Exit, Handler!CheckStaleness,
             Handler!SkipClaimed, Handler!Claim, Handler!Spawn
    <2>3. channel' \in Seq(PossibleOpportunities) /\ Len(channel') <= ChannelCapacity
      BY <2>2, WorkerAssumption
    <2> QED BY <2>1, <2>3
  <1>4. CASE SimulatorStep
    <2>1. UNCHANGED <<bot, holding, channel>>
      BY <1>4 DEF SimulatorStep, Miss, ReadLatestState, FailInitialize, FailExecute, Execute, Ready
    <2>2. \A w \in Workers : stage'[w] = "sending" => stage[w] = "sending"
      BY <1>4 DEF SimulatorStep, Miss, ReadLatestState, FailInitialize, FailExecute, Execute
    <2> QED BY <2>1, <2>2
  <1>5. ASSUME NEW w \in Workers, SearchStep(w) PROVE RestInv'
    <2>0. stage \in [Workers -> Stages] /\ holding \in [Workers -> SUBSET PossibleOpportunities]
      BY DEF PipelineInv, WorkerInv
    <2>1. CASE OpenLatest(w) \/ Fail(w) \/ FindNothing(w)
      BY <2>0, <2>1 DEF OpenLatest, Fail, FindNothing, Goto
    <2>2. CASE Find(w)
      BY <2>0, <2>2 DEF Find, Goto
    <2>3. CASE HandOver(w)
      <3>1. PICK o \in holding[w] : channel' = Append(channel, o)
        BY <2>3 DEF HandOver, Send
      <3>2. o \in PossibleOpportunities /\ Len(channel) < ChannelCapacity
        BY <2>0, <2>3 DEF HandOver, Send
      <3>3. channel' \in Seq(PossibleOpportunities) /\ Len(channel') <= ChannelCapacity
        BY <3>1, <3>2, WorkerAssumption
      <3>4. UNCHANGED <<bot, simulator>>
        BY <2>3 DEF HandOver, Send
      <3>5. \A v \in Workers : stage'[v] = "sending" => v # w /\ stage[v] = "sending"
        BY <2>0, <2>3 DEF HandOver, Send, Goto
      <3>6. \A v \in Workers : v # w => holding'[v] = holding[v]
        BY <2>0, <2>3 DEF HandOver, Send
      <3> QED BY <3>3, <3>4, <3>5, <3>6
    <2> QED BY <1>5, <2>1, <2>2, <2>3 DEF SearchStep
  <1> QED BY <1>1, <1>2, <1>3, <1>4, <1>5 DEF PipelineNext

\* Every variable of the pipeline has its type, the channel keeps to its capacity, and
\* a worker holds an opportunity exactly while it sends.
THEOREM PipelineTypes == PipelineSpec => []PipelineTypeOK
  <1>1. PipelineInit => RestInv
    BY WorkerAssumption DEF PipelineInit, Init, RestInv
  <1>2. PipelineSpec => []RestInv
    BY <1>1, RestStepInv, PipelineInvariant, SearchInvariant, PTL DEF PipelineSpec
  <1>3. PipelineInv /\ SearchInv /\ RestInv => TypeOK
    <2> SUFFICES ASSUME PipelineInv, SearchInv, RestInv PROVE TypeOK
      OBVIOUS
    <2>1. /\ exec.base \in 0 .. LastBlock /\ exec.number \in 0 .. LastBlock
          /\ latest \in 0 .. LastBlock
      BY BlocksOrdered DEF PipelineInv, SimulatorInv, PlaceInv, OverlayInv
    <2>2. exec.executed \subseteq Positions /\ DOMAIN exec.changes \subseteq Addresses
      <3>1. exec.executed \in SUBSET Positions
        BY BlocksOrdered DEF PipelineInv, SimulatorInv, PlaceInv, OverlayInv
      <3> QED BY <3>1, TouchedInAddresses DEF SearchInv, ContentsInv, Contents
    <2>3. ASSUME NEW w \in Workers
          PROVE  Cardinality(holding[w]) = (IF stage[w] = "sending" THEN 1 ELSE 0)
      <3>1. CASE stage[w] = "sending"
        <4>1. PICK o \in holding[w] : TRUE
          BY <3>1 DEF RestInv
        <4>2. holding[w] = {o}
          BY <4>1 DEF PipelineInv, WorkerInv
        <4> QED BY <3>1, <4>2, FS_Singleton
      <3>2. CASE stage[w] # "sending"
        BY <3>2, FS_EmptySet DEF PipelineInv, WorkerInv
      <3> QED BY <3>1, <3>2
    <2> QED BY <2>1, <2>2, <2>3 DEF PipelineInv, SimulatorInv, PlaceInv, WorkerInv, SearchInv,
                                    ViewInv, RestInv, TypeOK, Numbers
  <1>4. Proved!Spec => []Proved!TypeOK
    BY HandlerIsProved, Proved!HandlerTypeOK, PTL DEF Proved!HandlerTypeOK
  <1>5. Proved!TypeOK => Handler!TypeOK
    BY DEF Proved!TypeOK, Handler!TypeOK, Proved!LoopStates, Handler!LoopStates, Proved!Keys,
           Handler!Keys, Proved!Key, Handler!Key, Proved!TaskStates, Handler!TaskStates,
           Proved!Busy, Handler!Busy
  <1> QED BY <1>2, <1>3, <1>4, <1>5, HandlerIsProved, PipelineInvariant, SearchInvariant,
             PipelineServesHandler, PTL DEF ServesHandler, PipelineTypeOK

-----------------------------------------------------------------------------
(* The service itself in the place of its promise.                           *)

ProvedService == INSTANCE TransactionServiceProofs WITH
  Calls <- PossibleOpportunities, stage <- call, arrived <- delivered

\* A task is where its call is until the call returns, and remembers how it
\* returned; what left the process left it through send_transaction.
JoinInv ==
  /\ network = Service!Sent
  /\ \A o \in PossibleOpportunities :
       /\ task[o] = "none" => call[o] = "idle"
       /\ task[o] \in {"running", "posted"} => task[o] = Awaited(call[o])
       /\ task[o] \in {"ok", "kept"} => call[o] = "ok"
       /\ task[o] \in {"failed", "unclaimed", "dropped"} => call[o] = "failed"

SystemInv == PipelineInv /\ Proved!HandlerInv /\ ProvedService!ServiceInv /\ JoinInv

\* The service of the system is the one TransactionServiceProofs is about.
LEMMA ServiceIsProved ==
  ASSUME Service!ServiceAssumption
  PROVE  /\ ProvedService!ServiceAssumption
         /\ Service!Init => ProvedService!Init
         /\ [Service!Next]_(Service!vars) => [ProvedService!Next]_(ProvedService!vars)
  <1>1. ProvedService!ServiceAssumption
    BY DEF Service!ServiceAssumption, ProvedService!ServiceAssumption
  <1>2. Service!Init => ProvedService!Init
    BY DEF Service!Init, ProvedService!Init, Service!Wallets, ProvedService!Wallets,
           Service!NoWallet, ProvedService!NoWallet
  <1>3. [Service!Next]_(Service!vars) => [ProvedService!Next]_(ProvedService!vars)
    BY DEF Service!Next, ProvedService!Next, Service!InitRedis,
           ProvedService!InitRedis, Service!RedisHangs, ProvedService!RedisHangs,
           Service!Call, ProvedService!Call, Service!Broadcast,
           ProvedService!Broadcast, Service!World, ProvedService!World,
           Service!Begin, ProvedService!Begin, Service!GetNextWallet,
           ProvedService!GetNextWallet, Service!Sign, ProvedService!Sign,
           Service!FailUnsent, ProvedService!FailUnsent, Service!Send,
           ProvedService!Send, Service!FailPost, ProvedService!FailPost,
           Service!ReadAnswer, ProvedService!ReadAnswer, Service!Join,
           ProvedService!Join, Service!Timeout, ProvedService!Timeout,
           Service!WaitForConnection, ProvedService!WaitForConnection,
           Service!StartBroadcast, ProvedService!StartBroadcast,
           Service!FinishBroadcast, ProvedService!FinishBroadcast, Service!Judge,
           ProvedService!Judge, Service!PeerSubmits, ProvedService!PeerSubmits,
           Service!Mine, ProvedService!Mine, Service!Goto, ProvedService!Goto,
           Service!SetBroadcast, ProvedService!SetBroadcast, Service!Slot,
           ProvedService!Slot, Service!Conflicts, ProvedService!Conflicts,
           Service!Sent, ProvedService!Sent, Service!BroadcastOver,
           ProvedService!BroadcastOver, Service!Wallets, ProvedService!Wallets,
           Service!vars, ProvedService!vars, Service!config, ProvedService!config,
           Service!local, ProvedService!local, Service!channel,
           ProvedService!channel, Service!world, ProvedService!world
  <1> QED BY <1>1, <1>2, <1>3

\* A step of the system is one of the service or leaves it alone.
LEMMA SystemStepRuns == [SystemNext]_systemVars => [Service!Next]_(Service!vars)
  <1> SUFFICES ASSUME [SystemNext]_systemVars PROVE [Service!Next]_(Service!vars)
    OBVIOUS
  <1> USE DEF Service!vars, Service!config, Service!local, Service!channel, Service!world,
              serviceVars
  <1>1. CASE UNCHANGED systemVars
    BY <1>1 DEF systemVars, pipelineVars, handler
  <1>2. CASE BeforeService
    <2>1. UNCHANGED <<serviceVars, mode, delivered>>
      BY <1>2 DEF BeforeService, NodeStep, SimulatorStep, CloseChannel, LoopStep, SearchStep,
             HandOver, Send, handler, Handler!CloseChannel, Handler!Loop, Handler!Receive,
             Handler!Exit, Handler!CheckStaleness, Handler!SkipClaimed, Handler!Claim,
             Handler!Spawn, Handler!env, Handler!transport
    <2> QED BY <2>1
  <1>3. CASE OutsideStep
    BY <1>3 DEF OutsideStep, Service!Next
  <1>4. ASSUME NEW o \in PossibleOpportunities, CallStep(o) PROVE Service!Next
    BY <1>4 DEF CallStep, Service!Next
  <1>5. ASSUME NEW o \in PossibleOpportunities, ResultStep(o) PROVE UNCHANGED Service!vars
    BY <1>5 DEF ResultStep, Handler!RemoveClaim, Handler!EndTask, Handler!env,
           Handler!transport
  <1> QED BY <1>1, <1>2, <1>3, <1>4, <1>5 DEF SystemNext

\* The system runs the service as its specification says, for as many calls as the
\* workers can find opportunities.
THEOREM SystemRunsService == SystemSpec => RunsService
  <1>1. SystemInit => Service!Init
    BY DEF SystemInit
  <1> QED BY <1>1, SystemStepRuns, PTL DEF SystemSpec, RunsService, Service!Spec

\* What a step of the call is to the task that awaits it.
LEMMA CallStepServes ==
  ASSUME SystemInv, NEW o \in PossibleOpportunities, CallStep(o)
  PROVE  TaskStep(o) \/ UNCHANGED pipelineVars
  <1> DEFINE Moved(to) == task' = [task EXCEPT ![o] = to]
  <1>1. /\ task[o] \in {"running", "posted"} /\ task[o] = Awaited(call[o])
        /\ task \in [PossibleOpportunities -> Handler!TaskStates]
        /\ UNCHANGED <<vars, handlerLoop>> /\ network = Service!Sent
        /\ Moved(Awaited(call'[o])) /\ network' = Service!Sent'
    BY DEF CallStep, SystemInv, JoinInv, Proved!HandlerInv, Proved!TypeOK,
           Proved!TaskStates, Proved!Busy, Handler!TaskStates, Handler!Busy
  <1>2. /\ call \in [PossibleOpportunities -> Service!Stages]
        /\ broadcast \in [PossibleOpportunities -> Service!Broadcasts]
        /\ mode = "disabled" => call[o] \in {"idle", "ok"}
        /\ mode # "submit" => call[o] \notin {"signed", "posted", "answered"}
        /\ answer[o] # "none" => o \in delivered
        /\ call[o] = "answered" => answer[o] # "none"
    BY DEF SystemInv, ProvedService!ServiceInv, ProvedService!TypeOK, ProvedService!ModeInv,
           ProvedService!OrderInv, ProvedService!Stages, ProvedService!Broadcasts,
           Service!Stages, Service!Broadcasts
  <1>3. /\ UNCHANGED Others /\ UNCHANGED <<found, closed, pc, current, submitted, permits>>
        /\ UNCHANGED <<channel, head>>
    BY <1>1 DEF Others, vars, node, handlerLoop
  <1>4. ASSUME UNCHANGED broadcast PROVE network' = network
    BY <1>1, <1>4 DEF Service!Sent
  <1>5. ASSUME Moved(task[o]), UNCHANGED <<mode, delivered, broadcast>>
        PROVE  UNCHANGED pipelineVars
    BY <1>1, <1>3, <1>4, <1>5 DEF pipelineVars, handler
  <1>6. ASSUME NEW s, Service!Goto(o, s) PROVE call'[o] = s
    BY <1>2, <1>6 DEF Service!Goto
  <1> USE DEF TaskStep, Handler!Task, Handler!env, Handler!loop, Handler!transport
  <1>7. ASSUME UNCHANGED <<mode, delivered, broadcast>>, task[o] = "running",
               (mode # "submit" /\ Moved("ok")) \/ (mode # "disabled" /\ Moved("failed"))
        PROVE  TaskStep(o)
    <2>1. Handler!ReturnUnposted(o)
      BY <1>1, <1>3, <1>4, <1>7 DEF Handler!ReturnUnposted
    <2> QED BY <1>3, <2>1
  <1>8. ASSUME UNCHANGED <<mode, delivered, broadcast>>, task[o] = "posted",
               (o \in delivered /\ Moved("ok")) \/ Moved("failed")
        PROVE  TaskStep(o)
    <2>1. Handler!ReturnPosted(o)
      BY <1>1, <1>3, <1>4, <1>8 DEF Handler!ReturnPosted
    <2> QED BY <1>3, <2>1
  <1> HIDE DEF Moved
  <1>9. CASE Service!Begin(o)
    <2>1. /\ UNCHANGED <<mode, delivered, broadcast>> /\ task[o] = "running"
          /\ call'[o] = IF mode = "disabled" THEN "ok" ELSE "running"
      BY <1>1, <1>6, <1>9 DEF Service!Begin, Service!config, Service!channel, Awaited
    <2> QED BY <1>1, <1>5, <1>7, <2>1 DEF Awaited
  <1>10. CASE Service!GetNextWallet(o)
    <2>1. /\ UNCHANGED <<mode, delivered, broadcast>> /\ task[o] = "running"
          /\ call'[o] = "funded"
      BY <1>1, <1>6, <1>10 DEF Service!GetNextWallet, Service!config, Service!channel, Awaited
    <2> QED BY <1>1, <1>5, <2>1 DEF Awaited
  <1>11. CASE Service!Sign(o)
    <2>1. /\ UNCHANGED <<mode, delivered, broadcast>> /\ task[o] = "running"
          /\ call'[o] = IF mode = "dry_run" THEN "ok" ELSE "signed"
      BY <1>1, <1>6, <1>11 DEF Service!Sign, Service!config, Service!channel, Awaited
    <2> QED BY <1>1, <1>5, <1>7, <2>1 DEF Awaited
  <1>12. CASE Service!FailUnsent(o)
    <2>1. /\ UNCHANGED <<mode, delivered, broadcast>> /\ task[o] = "running"
          /\ call'[o] = "failed" /\ mode # "disabled"
      BY <1>1, <1>2, <1>6, <1>12 DEF Service!FailUnsent, Service!config, Service!channel, Awaited
    <2> QED BY <1>1, <1>7, <2>1 DEF Awaited
  <1>13. CASE Service!Send(o)
    <2>1. /\ UNCHANGED <<mode, delivered>> /\ task[o] = "running" /\ mode = "submit"
          /\ call'[o] = "posted" /\ broadcast' = [broadcast EXCEPT ![o] = "spawned"]
      BY <1>1, <1>2, <1>6, <1>13 DEF Service!Send, Service!config, Awaited
    <2>2. network' = network \cup {o}
      BY <1>1, <1>2, <2>1 DEF Service!Sent
    <2>3. Moved("posted")
      BY <1>1, <2>1 DEF Awaited
    <2>4. Handler!Post(o)
      BY <1>1, <1>3, <2>1, <2>2, <2>3 DEF Handler!Post, Moved
    <2> QED BY <1>3, <2>4
  <1>14. CASE Service!FailPost(o)
    <2>1. /\ UNCHANGED <<mode, delivered, broadcast>> /\ task[o] = "posted"
          /\ call'[o] = "failed"
      BY <1>1, <1>6, <1>14 DEF Service!FailPost, Service!config, Service!channel, Awaited
    <2> QED BY <1>1, <1>8, <2>1 DEF Awaited
  <1>15. CASE Service!ReadAnswer(o)
    <2>1. /\ UNCHANGED <<mode, delivered, broadcast>> /\ task[o] = "posted"
          /\ call'[o] \in {"failed", "answered"}
      BY <1>1, <1>6, <1>15 DEF Service!ReadAnswer, Service!config, Service!channel, Awaited
    <2> QED BY <1>1, <1>5, <1>8, <2>1 DEF Awaited
  <1>16. CASE Service!Join(o)
    <2>1. /\ UNCHANGED <<mode, delivered, broadcast>> /\ task[o] = "posted"
          /\ call'[o] \in {"ok", "failed"} /\ o \in delivered
      BY <1>1, <1>2, <1>6, <1>16 DEF Service!Join, Service!config, Service!channel, Awaited
    <2> QED BY <1>1, <1>8, <2>1 DEF Awaited
  <1>17. CASE Service!Timeout(o)
    <2>1. /\ UNCHANGED <<mode, delivered, broadcast>> /\ call'[o] = "failed"
          /\ mode # "disabled"
      BY <1>1, <1>2, <1>6, <1>17 DEF Service!Timeout, Service!config, Service!channel
    <2>2. Handler!Timeout(o)
      BY <1>1, <1>3, <1>4, <2>1 DEF Handler!Timeout, Moved, Awaited
    <2> QED BY <1>3, <2>2
  <1> QED BY <1>9, <1>10, <1>11, <1>12, <1>13, <1>14, <1>15, <1>16, <1>17
          DEF CallStep, Service!Call

\* The sequencer's judgement of a request is its delivery; nothing else outside of
\* the calls can be seen from the pipeline.
LEMMA OutsideStepServes ==
  ASSUME SystemInv, OutsideStep
  PROVE  /\ (\E o \in PossibleOpportunities : TaskStep(o)) \/ UNCHANGED pipelineVars
         /\ UNCHANGED <<call, task, network>> /\ Service!Sent' = Service!Sent
  <1>1. UNCHANGED <<vars, handlerLoop, task, network>>
    BY DEF OutsideStep
  <1>2. broadcast \in [PossibleOpportunities -> Service!Broadcasts] /\ network = Service!Sent
    BY DEF SystemInv, JoinInv, ProvedService!ServiceInv, ProvedService!TypeOK,
           ProvedService!Broadcasts, Service!Broadcasts
  <1>3. UNCHANGED <<call, mode>>
    BY DEF OutsideStep, Service!InitRedis, Service!RedisHangs, Service!Broadcast,
           Service!World, Service!WaitForConnection, Service!StartBroadcast,
           Service!FinishBroadcast, Service!Judge, Service!PeerSubmits, Service!Mine,
           Service!config, Service!local
  <1>4. ASSUME UNCHANGED delivered PROVE UNCHANGED pipelineVars
    BY <1>1, <1>3, <1>4 DEF pipelineVars, handler, handlerLoop
  <1>5. CASE Service!InitRedis \/ Service!RedisHangs
    <2>1. UNCHANGED <<delivered, broadcast>>
      BY <1>5 DEF Service!InitRedis, Service!RedisHangs
    <2> QED BY <1>1, <1>3, <1>4, <2>1 DEF Service!Sent
  <1>6. ASSUME NEW o \in PossibleOpportunities, Service!Broadcast(o)
        PROVE  UNCHANGED delivered /\ Service!Sent' = Service!Sent
    <2>1. /\ UNCHANGED delivered /\ broadcast[o] # "none"
          /\ \E b : b # "none" /\ Service!SetBroadcast(o, b)
      BY <1>6 DEF Service!Broadcast, Service!WaitForConnection, Service!StartBroadcast,
                  Service!FinishBroadcast, Service!SetBroadcast
    <2> QED BY <1>2, <2>1 DEF Service!SetBroadcast, Service!Sent
  <1>7. ASSUME NEW o \in PossibleOpportunities, Service!PeerSubmits(o) \/ Service!Mine(o)
        PROVE  UNCHANGED delivered /\ Service!Sent' = Service!Sent
    <2>1. UNCHANGED <<delivered, broadcast>>
      BY <1>7 DEF Service!PeerSubmits, Service!Mine, Service!channel
    <2> QED BY <2>1 DEF Service!Sent
  <1>8. ASSUME NEW o \in PossibleOpportunities, Service!Judge(o)
        PROVE  TaskStep(o) /\ Service!Sent' = Service!Sent
    <2>1. /\ o \in network \ delivered /\ delivered' = delivered \cup {o}
          /\ UNCHANGED broadcast
      BY <1>2, <1>8 DEF Service!Judge, Service!channel
    <2>2. Handler!Deliver(o)
      BY <1>1, <1>3, <2>1 DEF Handler!Deliver, Handler!env, Handler!loop, handlerLoop,
                              vars, node
    <2> QED BY <1>1, <2>1, <2>2 DEF TaskStep, Others, vars, Service!Sent
  <1> QED BY <1>1, <1>3, <1>4, <1>5, <1>6, <1>7, <1>8 DEF OutsideStep, Service!World

\* Every step of the system is one of the pipeline or changes nothing the pipeline has.
LEMMA SystemStepServes ==
  SystemInv /\ [SystemNext]_systemVars => [PipelineNext]_pipelineVars
  <1>1. ASSUME BeforeService PROVE PipelineNext
    BY <1>1 DEF BeforeService, PipelineNext
  <1>2. ASSUME NEW o \in PossibleOpportunities, ResultStep(o) PROVE PipelineNext
    BY <1>2 DEF ResultStep, TaskStep, Handler!Task, PipelineNext
  <1> QED BY <1>1, <1>2, CallStepServes, OutsideStepServes
          DEF SystemNext, PipelineNext, systemVars

-----------------------------------------------------------------------------
LEMMA JoinInit == SystemInit => JoinInv
  BY DEF SystemInit, PipelineInit, Handler!Init, Service!Init, JoinInv, Service!Sent, Awaited

\* Task and call move together.
LEMMA JoinKept ==
  ASSUME SystemInv, Service!Sent' = Service!Sent, UNCHANGED network,
         NEW o \in PossibleOpportunities, NEW from, NEW to,
         task[o] = from, task' = [task EXCEPT ![o] = to], UNCHANGED call,
         <<from, to>> \in {<<"none", "running">>, <<"ok", "kept">>,
                           <<"failed", "unclaimed">>, <<"unclaimed", "dropped">>}
  PROVE  JoinInv'
  <1>1. task \in [PossibleOpportunities -> Handler!TaskStates] /\ JoinInv
    BY DEF SystemInv, Proved!HandlerInv, Proved!TypeOK, Proved!TaskStates, Proved!Busy,
           Handler!TaskStates, Handler!Busy
  <1>2. /\ network' = Service!Sent'
        /\ task'[o] = to /\ \A p \in PossibleOpportunities \ {o} : task'[p] = task[p]
    BY <1>1 DEF JoinInv
  <1>3. /\ from = "none" => call[o] = "idle"
        /\ from = "ok" => call[o] = "ok"
        /\ from \in {"failed", "unclaimed"} => call[o] = "failed"
    BY <1>1 DEF JoinInv
  <1>4. /\ to = "running" => call[o] = "idle"
        /\ to = "kept" => call[o] = "ok"
        /\ to \in {"unclaimed", "dropped"} => call[o] = "failed"
        /\ to \in {"running", "kept", "unclaimed", "dropped"}
    BY <1>3
  <1> QED BY <1>1, <1>2, <1>4 DEF JoinInv, Awaited

LEMMA CallStepJoin ==
  ASSUME SystemInv, NEW o \in PossibleOpportunities, CallStep(o)
  PROVE  JoinInv'
  <1>1. /\ task' = [task EXCEPT ![o] = Awaited(call'[o])] /\ network' = Service!Sent'
        /\ task \in [PossibleOpportunities -> Handler!TaskStates] /\ JoinInv
    BY DEF CallStep, SystemInv, Proved!HandlerInv, Proved!TypeOK, Proved!TaskStates,
           Proved!Busy, Handler!TaskStates, Handler!Busy
  <1>2. /\ call \in [PossibleOpportunities -> Service!Stages]
        /\ \E s \in Service!Stages \ {"idle"} : Service!Goto(o, s)
    BY DEF CallStep, Service!Call, Service!Begin, Service!GetNextWallet, Service!Sign,
           Service!FailUnsent, Service!Send, Service!FailPost, Service!ReadAnswer,
           Service!Join, Service!Timeout, Service!Stages, SystemInv,
           ProvedService!ServiceInv, ProvedService!TypeOK, ProvedService!Stages
  <1>3. /\ call'[o] \in Service!Stages \ {"idle"}
        /\ \A p \in PossibleOpportunities \ {o} : call'[p] = call[p]
    BY <1>2 DEF Service!Goto
  <1>4. /\ task'[o] = Awaited(call'[o])
        /\ \A p \in PossibleOpportunities \ {o} : task'[p] = task[p]
    BY <1>1
  <1>5. /\ task'[o] \in {"running", "posted", "ok", "failed"}
        /\ task'[o] \in {"ok", "failed"} => call'[o] = task'[o]
    BY <1>3, <1>4 DEF Awaited, Service!Stages
  <1>6. ASSUME NEW p \in PossibleOpportunities \ {o}
        PROVE  call'[p] = call[p] /\ task'[p] = task[p]
    BY <1>3, <1>4
  <1> QED BY <1>1, <1>4, <1>5, <1>6, Zenon DEF JoinInv

LEMMA SystemStepJoin == SystemInv /\ [SystemNext]_systemVars => JoinInv'
  <1> SUFFICES ASSUME SystemInv, [SystemNext]_systemVars PROVE JoinInv'
    OBVIOUS
  <1>1. JoinInv
    BY DEF SystemInv
  <1>2. ASSUME UNCHANGED <<call, task, network>>, Service!Sent' = Service!Sent PROVE JoinInv'
    BY <1>1, <1>2 DEF JoinInv
  <1>3. ASSUME UNCHANGED broadcast PROVE Service!Sent' = Service!Sent
    BY <1>3 DEF Service!Sent
  <1>4. CASE UNCHANGED systemVars
    BY <1>2, <1>3, <1>4 DEF systemVars, pipelineVars, handler, serviceVars
  <1>5. CASE OutsideStep
    BY <1>2, <1>5, OutsideStepServes
  <1>6. ASSUME NEW o \in PossibleOpportunities, CallStep(o) PROVE JoinInv'
    BY <1>6, CallStepJoin
  <1>7. ASSUME NEW o \in PossibleOpportunities, ResultStep(o) PROVE JoinInv'
    <2>1. UNCHANGED <<call, network>> /\ Service!Sent' = Service!Sent
      BY <1>3, <1>7 DEF ResultStep, Handler!RemoveClaim, Handler!EndTask, Handler!transport,
                        serviceVars
    <2>2. PICK to : /\ task' = [task EXCEPT ![o] = to]
                    /\ <<task[o], to>> \in {<<"ok", "kept">>, <<"failed", "unclaimed">>,
                                            <<"unclaimed", "dropped">>}
      BY <1>7 DEF ResultStep, Handler!RemoveClaim, Handler!EndTask
    <2> QED BY <2>1, <2>2, JoinKept
  <1>8. CASE BeforeService
    <2>1. UNCHANGED <<call, network>> /\ Service!Sent' = Service!Sent
      BY <1>3, <1>8 DEF BeforeService, NodeStep, SimulatorStep, CloseChannel, LoopStep,
             SearchStep, HandOver, handler, Handler!CloseChannel, Handler!Loop,
             Handler!Receive, Handler!Exit, Handler!CheckStaleness, Handler!SkipClaimed,
             Handler!Claim, Handler!Spawn, Handler!transport, serviceVars
    <2>2. CASE Handler!Spawn
      <3>1. current \in PossibleOpportunities /\ task[current] = "none"
        BY <2>2 DEF Handler!Spawn, SystemInv, Proved!HandlerInv, Proved!OnePlaceAtATime,
                    Proved!InHandOnce
      <3>2. task' = [task EXCEPT ![current] = "running"]
        BY <2>2 DEF Handler!Spawn
      <3> QED BY <2>1, <3>1, <3>2, JoinKept
    <2>3. CASE ~Handler!Spawn
      <3>1. UNCHANGED task
        BY <1>8, <2>3 DEF BeforeService, NodeStep, SimulatorStep, CloseChannel, LoopStep,
               SearchStep, HandOver, handler, Handler!CloseChannel, Handler!Loop,
               Handler!Receive, Handler!Exit, Handler!CheckStaleness, Handler!SkipClaimed,
               Handler!Claim
      <3> QED BY <1>2, <2>1, <3>1
    <2> QED BY <2>2, <2>3
  <1> QED BY <1>4, <1>5, <1>6, <1>7, <1>8 DEF SystemNext

\* The inductive invariant of the whole system: each component's own, and the join.
THEOREM SystemInvariant == Service!ServiceAssumption /\ SystemSpec => []SystemInv
  <1> SUFFICES ASSUME Service!ServiceAssumption PROVE SystemSpec => []SystemInv
    OBVIOUS
  <1>1. SystemInit => SystemInv
    <2>1. SystemInit => Proved!HandlerInv
      BY HandlerIsProved, Proved!InitInv DEF SystemInit, PipelineInit, Handler!Init, Proved!Init
    <2>2. SystemInit => ProvedService!ServiceInv
      BY ServiceIsProved, ProvedService!ServiceInit DEF SystemInit
    <2> QED BY <2>1, <2>2, PipelineInitInv, JoinInit DEF SystemInit, SystemInv
  <1>2. SystemInv /\ [SystemNext]_systemVars => SystemInv'
    <2> SUFFICES ASSUME SystemInv, [SystemNext]_systemVars PROVE SystemInv'
      OBVIOUS
    <2>1. [PipelineNext]_pipelineVars
      BY SystemStepServes
    <2>2. PipelineInv'
      BY <2>1, PipelineStepInv DEF SystemInv
    <2>3. Proved!HandlerInv'
      <3>1. [Proved!Next]_(Proved!vars)
        BY <2>1, PipelineStepServes, HandlerStepIsProved DEF SystemInv
      <3> QED BY <3>1, HandlerIsProved, Proved!HandlerStep DEF SystemInv
    <2>4. ProvedService!ServiceInv'
      BY SystemStepRuns, ServiceIsProved, ProvedService!ServiceStep DEF SystemInv
    <2> QED BY <2>2, <2>3, <2>4, SystemStepJoin DEF SystemInv
  <1> QED BY <1>1, <1>2, PTL DEF SystemSpec

\* The service may stand in the place of its promise: with it in the system, workers,
\* handler, channel and tasks do what the pipeline's specification says.
THEOREM SystemServesPipeline == Service!ServiceAssumption /\ SystemSpec => ServesPipeline
  <1> SUFFICES ASSUME Service!ServiceAssumption PROVE SystemSpec => ServesPipeline
    OBVIOUS
  <1>1. SystemInit => PipelineInit
    BY DEF SystemInit
  <1>2. SystemSpec => []SystemInv
    BY SystemInvariant
  <1> QED BY <1>1, <1>2, SystemStepServes, PTL DEF SystemSpec, ServesPipeline, PipelineSpec

\* So what is proved of the pipeline holds with the service in it.
THEOREM SystemSubmitsOnce == Service!ServiceAssumption /\ SystemSpec => []BlockSubmittedOnce
  BY SystemServesPipeline, PipelineSubmitsOnce, PTL DEF ServesPipeline

\* And what is proved of the service with its callers: one transaction is pending per
\* wallet, however attempts time out and later flashblocks try again.
THEOREM SystemOnePending == Service!ServiceAssumption /\ SystemSpec => []OnePendingPerWallet
  <1>1. SystemInv => OnePendingPerWallet
    BY DEF SystemInv, ProvedService!ServiceInv, ProvedService!OnePendingPerWallet,
           ProvedService!Slot, OnePendingPerWallet, Service!OnePendingPerWallet
  <1> QED BY <1>1, SystemInvariant, PTL

\* Where the call of a task is.
LEMMA CallInTask ==
  ASSUME SystemInv, NEW o \in PossibleOpportunities
  PROVE  /\ InCall(o) => task[o] \in {"running", "posted"}
         /\ InCall(o) \/ call[o] = "ok" => Handler!Holds(o)
  <1>1. task[o] \in {"none", "running", "posted", "ok", "failed", "unclaimed", "kept", "dropped"}
    BY DEF SystemInv, Proved!HandlerInv, Proved!TypeOK, Proved!TaskStates, Proved!Busy
  <1> QED BY <1>1 DEF SystemInv, JoinInv, InCall, Awaited, Handler!Holds, Handler!Working,
                      Handler!Acked

\* Of all that is found in the flashblocks of a block for a strategy, one call of the
\* service is under way at a time, and none after one returned Ok.
THEOREM SystemOneCall == Service!ServiceAssumption /\ SystemSpec => []OneCallPerBlock
  <1>1. SystemInv /\ BlockSubmittedOnce => OneCallPerBlock
    <2>1. ASSUME SystemInv PROVE found \subseteq PossibleOpportunities
      BY <2>1 DEF SystemInv, PipelineInv, WorkerInv
    <2> QED BY <2>1, CallInTask DEF OneCallPerBlock, BlockSubmittedOnce
  <1> QED BY <1>1, SystemInvariant, SystemSubmitsOnce, PTL

\* No more calls are under way than there are permits.
THEOREM SystemCallsWithinPermits ==
  Service!ServiceAssumption /\ SystemSpec => []CallsWithinPermits
  <1>1. ASSUME SystemInv PROVE CallsWithinPermits
    <2> DEFINE calls == {o \in PossibleOpportunities : InCall(o)}
               busy  == {o \in PossibleOpportunities : task[o] \in Proved!Busy}
    <2>1. calls \subseteq busy
      BY <1>1, CallInTask DEF Proved!Busy
    <2>2. IsFiniteSet(busy)
      BY PipelineAssumption, FS_Subset
    <2>3. Cardinality(calls) <= Cardinality(busy) /\ Cardinality(busy) \in Nat
          /\ Cardinality(calls) \in Nat
      BY <2>1, <2>2, FS_Subset, FS_CardinalityType
    <2>4. permits \in Nat /\ permits + Cardinality(busy) = MaxConcurrent
      BY <1>1 DEF SystemInv, Proved!HandlerInv, Proved!TypeOK, Proved!PermitConservation,
                  Proved!Cardinality, Cardinality, Proved!IsFiniteSet, IsFiniteSet
    <2> QED BY <2>3, <2>4, PipelineAssumption DEF CallsWithinPermits
  <1> QED BY <1>1, SystemInvariant, PTL
=============================================================================
