------------------------------ MODULE MevSystem ------------------------------
(***************************************************************************)
(* The pipeline with the transaction service itself in the place of what     *)
(* OpportunityHandler assumes of it.  The task of an opportunity and the     *)
(* call of process_opportunity it awaits are one piece of code: a step of    *)
(* the call is a step of the task.  The calls run only inside tasks, under   *)
(* their permit and their timeout; broadcasts, Redis, the sequencer and the  *)
(* chain go on without them.                                                 *)
(***************************************************************************)
EXTENDS MevPipeline

CONSTANTS WalletCount, Strategies, MaxNonce    \* as in TransactionService

VARIABLES
  call,       \* how far the process_opportunity call of each task is
  strategy, wallet, nonce, walletIndex, answer, redis, queue, broadcast, mined, pool

Service == INSTANCE TransactionService WITH
  Calls <- PossibleOpportunities, stage <- call, arrived <- delivered

serviceVars ==
  <<call, strategy, wallet, nonce, walletIndex, answer, redis, queue, broadcast, mined, pool>>
systemVars == <<pipelineVars, serviceVars>>

handlerLoop == <<found, closed, pc, current, submitted, permits>>

-----------------------------------------------------------------------------

SystemInit == PipelineInit /\ Service!Init

\* What the handler's task knows of the call it awaits.
Awaited(stageOfCall) ==
  CASE stageOfCall \in {"idle", "funded", "signed"} -> "running"
    [] stageOfCall = "answered"                     -> "posted"
    [] OTHER                                        -> stageOfCall

\* `timeout(10 s, process_opportunity(..)).await`: the task is where its call is.
CallStep(o) ==
  /\ task[o] \in {"running", "posted"}
  /\ Service!Call(o)
  /\ task' = [task EXCEPT ![o] = Awaited(call'[o])]
  /\ network' = Service!Sent'
  /\ UNCHANGED <<vars, handlerLoop>>

\* The arms of the match on the result, and the end of the task.
ResultStep(o) ==
  /\ Handler!RemoveClaim(o) \/ Handler!EndTask(o)
  /\ UNCHANGED <<Others, serviceVars>>

\* The detached broadcasts, and everything outside of the process: the request
\* arrives when the sequencer judges it.
OutsideStep ==
  /\ \/ Service!InitRedis \/ Service!RedisHangs
     \/ \E o \in PossibleOpportunities : Service!Broadcast(o) \/ Service!World(o)
  /\ UNCHANGED <<vars, handlerLoop, task, network>>

\* Everything up to the spawning of a task does not touch the service.
BeforeService ==
  /\ \/ NodeStep \/ SimulatorStep \/ CloseChannel \/ LoopStep
     \/ \E w \in Workers : SearchStep(w)
  /\ UNCHANGED serviceVars

SystemNext ==
  \/ BeforeService \/ OutsideStep
  \/ \E o \in PossibleOpportunities : CallStep(o) \/ ResultStep(o)

SystemSpec == SystemInit /\ [][SystemNext]_systemVars

-----------------------------------------------------------------------------
(* Properties.                                                               *)

InCall(o) == call[o] \in {"running", "funded", "signed", "posted", "answered"}

\* However long the sequencer, Redis and the wallet lock keep them, no more calls are
\* under way than the semaphore has permits: a call ends with its task.
CallsWithinPermits ==
  Cardinality({o \in PossibleOpportunities : InCall(o)}) <= MaxConcurrent

\* From end to end: of all that the workers find in the flashblocks of a block for a
\* strategy, one call at a time is under way, and none after one returned Ok.
OneCallPerBlock ==
  \A o, q \in found :
    /\ Feed[o.worker[1]].block = Feed[q.worker[1]].block /\ o.strategy = q.strategy
    /\ InCall(o) \/ call[o] = "ok"
    /\ InCall(q) \/ call[q] = "ok"
    => o = q

\* The wallets' accounts, with the service in the system: whatever times out and is
\* tried again by a later flashblock, one transaction is pending per wallet.
OnePendingPerWallet == Service!OnePendingPerWallet

\* The service has the callers it was modelled for, and the pipeline the service.
ServesPipeline == PipelineSpec
RunsService    == Service!Spec
=============================================================================
