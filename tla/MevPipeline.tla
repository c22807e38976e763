----------------------------- MODULE MevPipeline -----------------------------
(***************************************************************************)
(* From flashblock to submission: the search workers of MevTaskWorker and    *)
(* the opportunity handler of OpportunityHandler, joined by the mev_result   *)
(* channel and the node's provider, which both read.  Each component takes   *)
(* its own steps; what one leaves alone is spelled out here.                 *)
(***************************************************************************)
EXTENDS MevTaskWorker

CONSTANTS
  None, Threshold, MaxConcurrent, MaxStaleness, Modes    \* as in OpportunityHandler

VARIABLES mode, found, closed, pc, current, submitted, permits, task, network, delivered

handler == <<mode, found, closed, pc, current, submitted, permits, task, network, delivered>>
pipelineVars == <<vars, handler>>

\* Every opportunity a worker can make, whatever number its snapshot carries.
PossibleOpportunities ==
  UNION {[worker : {w}, block : 0 .. LastBlock, strategy : {w[2]}, profit : Profits,
          gas : Gases \cup {DefaultGas},
          value : {EncodeTransactionValue(g, r) :
                     g \in Gases \cup {DefaultGas}, r \in BribeRates(w[2])}] : w \in Workers}

ASSUME PipelineAssumption ==
  /\ IsFiniteSet(PossibleOpportunities) /\ None \notin PossibleOpportunities
  /\ Threshold \in Nat /\ MaxStaleness \in Nat /\ MaxConcurrent \in Nat \ {0}
  /\ Modes \subseteq {"disabled", "dry_run", "submit"}

Handler == INSTANCE OpportunityHandler WITH
  Opportunities <- PossibleOpportunities, best <- head, MaxBlock <- LastBlock

-----------------------------------------------------------------------------

PipelineInit == Init /\ Handler!Init

\* The handler and the workers ask one provider.
NodeStep == NewHead /\ UNCHANGED handler

SimulatorStep ==
  /\ Miss \/ ReadLatestState \/ FailInitialize \/ FailExecute \/ Execute
  /\ ~closed /\ UNCHANGED handler

\* result_tx.send(opportunity): from here the opportunity is the handler's.
HandOver(w) ==
  /\ Send(w)
  /\ found' = found \cup holding[w]
  /\ UNCHANGED <<mode, closed, pc, current, submitted, permits, task, network, delivered>>

SearchStep(w) ==
  \/ (OpenLatest(w) \/ Fail(w) \/ FindNothing(w) \/ Find(w)) /\ UNCHANGED handler
  \/ HandOver(w)

\* The simulator has left its loop, and the last worker dropped its sender.
CloseChannel ==
  /\ ~initializing /\ \A w \in Workers : stage[w] \in {"none", "ended"}
  /\ Handler!CloseChannel
  /\ UNCHANGED vars

Others == <<node, simulator, workers>>

LoopStep == Handler!Loop /\ UNCHANGED Others

TaskStep(o) == (Handler!Task(o) \/ Handler!Deliver(o)) /\ UNCHANGED Others

PipelineNext ==
  \/ NodeStep \/ SimulatorStep \/ CloseChannel \/ LoopStep
  \/ \E w \in Workers : SearchStep(w)
  \/ \E o \in PossibleOpportunities : TaskStep(o)

PipelineSpec == PipelineInit /\ [][PipelineNext]_pipelineVars

\* The fairness of both components.  The handler's receiving is no assumption any
\* more: it follows from its loop and its tasks.
FairPipelineSpec ==
  /\ PipelineSpec
  /\ \A w \in Workers : WF_pipelineVars(SearchStep(w))
  /\ WF_pipelineVars(LoopStep)
  /\ \A o \in PossibleOpportunities : WF_pipelineVars(Handler!Owed(o) /\ UNCHANGED Others)

-----------------------------------------------------------------------------
(* Properties.                                                               *)

PipelineTypeOK == TypeOK /\ Handler!TypeOK

\* The workers keep what the handler assumes of them: an opportunity is sent once,
\* and it carries a block number the node had reached.  So all that is proved of
\* the handler holds in the pipeline.
ServesHandler == Handler!Spec

\* For a block of the feed and a strategy at most one submission is acknowledged,
\* and attempts do not overlap, whenever the workers of its flashblocks ran and
\* whatever the node imported meanwhile.
BlockSubmittedOnce ==
  \A o, q \in found :
    /\ Feed[o.worker[1]].block = Feed[q.worker[1]].block /\ o.strategy = q.strategy
    /\ Handler!Holds(o) /\ Handler!Holds(q)
    => o = q

\* What a worker finds is decided, and the worker gets rid of it, also when every
\* permit is taken, the channel is full and the sequencer never answers.
EveryFindIsDecided ==
  \A w \in Workers :
    stage[w] = "sending" ~> stage[w] = "ended" /\ \A o \in found : o.worker = w => Handler!Settled(o)
=============================================================================
