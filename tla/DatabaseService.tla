---------------------------- MODULE DatabaseService ----------------------------
(***************************************************************************)
(* The transaction log.  The simulator hands the transaction hashes of each *)
(* flashblock to a database actor through a bounded channel and waits while *)
(* it is full; the actor upserts them, one database transaction per batch,  *)
(* or throws them away when it could not connect at start.  Other programs  *)
(* log the hashes they see to the same table.                               *)
(***************************************************************************)
EXTENDS Naturals, Sequences

CONSTANTS
  Batches,         \* what the flashblocks hold: [source, hashes]
  Hashes,
  OtherSource,     \* the source another program logs
  ChannelCapacity  \* 1000 in DatabaseService::new

ASSUME DatabaseAssumption ==
  /\ Len(Batches) \in Nat /\ DOMAIN Batches = 1 .. Len(Batches)
  /\ \A b \in DOMAIN Batches : Batches[b].hashes \in Seq(Hashes)
  /\ OtherSource \notin {Batches[b].source : b \in DOMAIN Batches}
  /\ ChannelCapacity \in Nat \ {0}

VARIABLES
  logged,     \* flashblocks for which log_transactions has returned
  exited,     \* the simulator has left its loop; main keeps a sender of its own
  channel,    \* LogBatch messages, by the number of their flashblock
  worker,     \* where database_worker is
  pool,       \* it has a connection pool
  batch, row, \* the batch it inserts, and how many of its rows are executed
  working,    \* the rows its open transaction has written
  table,      \* transaction_logs: the sources of each hash, << >> for no row
  committed,  \* history: the batches whose transaction was committed, in order
  hung        \* the database does not answer any more

open == <<batch, row, working>>
vars == <<logged, exited, channel, worker, pool, open, table, committed, hung>>

Sources == {Batches[b].source : b \in DOMAIN Batches} \cup {OtherSource}
Elements(s) == {s[i] : i \in DOMAIN s}

TypeOK ==
  /\ logged \in 0 .. Len(Batches)
  /\ exited \in BOOLEAN /\ pool \in BOOLEAN /\ hung \in BOOLEAN
  /\ channel \in Seq(DOMAIN Batches) /\ Len(channel) <= ChannelCapacity
  /\ worker \in {"connecting", "receiving", "inserting", "stopped"}
  /\ batch \in 0 .. Len(Batches) /\ row \in Nat
  /\ DOMAIN working \subseteq Hashes /\ \A h \in DOMAIN working : working[h] \in Seq(Sources)
  /\ table \in [Hashes -> Seq(Sources)]
  /\ committed \in Seq(DOMAIN Batches)

Init ==
  /\ logged = 0 /\ exited = FALSE /\ channel = << >>
  /\ worker = "connecting" /\ pool = FALSE
  /\ batch = 0 /\ row = 0 /\ working = << >>
  /\ table = [h \in Hashes |-> << >>]
  /\ committed = << >>
  /\ hung = FALSE

-----------------------------------------------------------------------------
(* The simulator.                                                            *)

\* Faulty variant: a batch is queued without waiting for room.
LogTransactionsUnbounded ==
  /\ ~exited /\ logged < Len(Batches)
  /\ logged' = logged + 1
  /\ channel' = Append(channel, logged')
  /\ UNCHANGED <<exited, worker, pool, open, table, committed, hung>>

\* log_transactions(): nothing to do for an empty batch, else a send that waits.
LogTransactions ==
  /\ ~exited /\ logged < Len(Batches)
  /\ logged' = logged + 1
  /\ IF Batches[logged'].hashes = << >> THEN UNCHANGED channel
     ELSE /\ Len(channel) < ChannelCapacity
          /\ channel' = Append(channel, logged')
  /\ UNCHANGED <<exited, worker, pool, open, table, committed, hung>>

SimulatorExits ==
  /\ ~exited
  /\ exited' = TRUE
  /\ UNCHANGED <<logged, channel, worker, pool, open, table, committed, hung>>

-----------------------------------------------------------------------------
(* The actor.  Every statement waits for the database.                       *)

Connect ==
  /\ worker = "connecting" /\ ~hung
  /\ worker' = "receiving" /\ pool' = TRUE
  /\ UNCHANGED <<logged, exited, channel, open, table, committed, hung>>

ConnectFails ==
  /\ worker = "connecting" /\ ~hung
  /\ worker' = "receiving"
  /\ UNCHANGED <<logged, exited, channel, pool, open, table, committed, hung>>

\* Faulty variant: without a pool nothing is taken from the channel.
ReceiveWithPool ==
  /\ worker = "receiving" /\ channel # << >> /\ pool
  /\ channel' = Tail(channel)
  /\ worker' = "inserting" /\ batch' = Head(channel) /\ row' = 0 /\ working' = << >>
  /\ UNCHANGED <<logged, exited, pool, table, committed, hung>>

\* A batch starts a transaction, or is dropped for lack of a pool.
Receive ==
  /\ worker = "receiving" /\ channel # << >>
  /\ channel' = Tail(channel)
  /\ IF pool THEN /\ worker' = "inserting"
                  /\ batch' = Head(channel) /\ row' = 0 /\ working' = << >>
             ELSE UNCHANGED <<worker, open>>
  /\ UNCHANGED <<logged, exited, pool, table, committed, hung>>

\* INSERT ... ON CONFLICT (hash) DO UPDATE SET sources = CASE ...
Upsert(sources, s) == IF s \in Elements(sources) THEN sources ELSE Append(sources, s)

\* tx.execute() of the next row: it sees what the transaction has written, and
\* otherwise the row as it was committed last.
InsertRow ==
  /\ worker = "inserting" /\ ~hung
  /\ row < Len(Batches[batch].hashes)
  /\ row' = row + 1
  /\ LET h   == Batches[batch].hashes[row']
         old == IF h \in DOMAIN working THEN working[h] ELSE table[h]
         new == Upsert(old, Batches[batch].source)
     IN working' = [k \in DOMAIN working \cup {h} |-> IF k = h THEN new ELSE working[k]]
  /\ UNCHANGED <<logged, exited, channel, worker, pool, batch, table, committed, hung>>

Finish == worker' = "receiving" /\ batch' = 0 /\ row' = 0 /\ working' = << >>
Merged == [h \in Hashes |-> IF h \in DOMAIN working THEN working[h] ELSE table[h]]

\* Faulty variant: no transaction, so what was executed stays.
InsertFailsHalfway ==
  /\ worker = "inserting" /\ ~hung
  /\ Finish /\ table' = Merged
  /\ UNCHANGED <<logged, exited, channel, pool, committed, hung>>

\* Faulty variant: a batch that failed is tried again.
InsertFailsRetrying ==
  /\ worker = "inserting" /\ ~hung
  /\ row' = 0 /\ working' = << >>
  /\ UNCHANGED <<logged, exited, channel, worker, pool, batch, table, committed, hung>>

\* Any `?` of insert_transaction_batch(), a commit that did not happen included:
\* the transaction is rolled back and the batch is given up.
InsertFails ==
  /\ worker = "inserting" /\ ~hung
  /\ Finish
  /\ UNCHANGED <<logged, exited, channel, pool, table, committed, hung>>

\* The commit takes effect, whether or not its answer arrives.
Commit ==
  /\ worker = "inserting" /\ ~hung
  /\ row = Len(Batches[batch].hashes)
  /\ Finish /\ table' = Merged
  /\ committed' = Append(committed, batch)
  /\ UNCHANGED <<logged, exited, channel, pool, hung>>

\* main returns: the runtime drops the actor with its queue and its transaction.
\* Nothing else ends it: a sender stays alive in main, and nobody sends Shutdown.
NodeExits ==
  /\ worker # "stopped"
  /\ worker' = "stopped" /\ exited' = TRUE
  /\ channel' = << >> /\ batch' = 0 /\ row' = 0 /\ working' = << >>
  /\ UNCHANGED <<logged, pool, table, committed, hung>>

-----------------------------------------------------------------------------
(* The database and its other users.                                         *)

\* Another program upserts a hash; a row that the open transaction has written
\* is locked for it.
OtherWriter ==
  \E h \in Hashes \ DOMAIN working :
    /\ ~hung
    /\ OtherSource \notin Elements(table[h])
    /\ table' = [table EXCEPT ![h] = Append(@, OtherSource)]
    /\ UNCHANGED <<logged, exited, channel, worker, pool, open, committed, hung>>

\* No statement has a timeout, nor has the pool.
DatabaseHangs ==
  /\ ~hung
  /\ hung' = TRUE
  /\ UNCHANGED <<logged, exited, channel, worker, pool, open, table, committed>>

Actor == Connect \/ ConnectFails \/ Receive \/ InsertRow \/ InsertFails \/ Commit

Next == LogTransactions \/ SimulatorExits \/ NodeExits \/ Actor \/ OtherWriter \/ DatabaseHangs

Spec == Init /\ [][Next]_vars

\* The runtime polls the simulator and the actor whenever they can move.
FairSpec == Spec /\ WF_vars(LogTransactions) /\ WF_vars(Actor)

-----------------------------------------------------------------------------

Contains(b, h) == h \in Elements(Batches[b].hashes)

\* The committed batches that gave a hash a source.
Giving(h, s) == {b \in Elements(committed) : Contains(b, h) /\ Batches[b].source = s}

\* The log is the record of the committed batches, whatever failed halfway, was
\* replayed or was written by others in between: a hash has the sources of the
\* batches that hold it, each once, in the order in which they were executed.
TableIsCommitted ==
  \A h \in Hashes :
    /\ \A s \in Sources \ {OtherSource} : s \in Elements(table[h]) <=> Giving(h, s) # {}
    /\ \A i, j \in DOMAIN table[h] : i < j =>
         /\ table[h][i] # table[h][j]
         /\ OtherSource \notin {table[h][i], table[h][j]} =>
              \E b \in Giving(h, table[h][i]) : \A c \in Giving(h, table[h][j]) : b < c

\* Logging holds the simulator up for ever only if the database stops answering.
SimulatorNotHeldUp == <>(logged = Len(Batches) \/ exited \/ hung)

\* The actor works off what was queued, failures included, unless the database
\* stops answering.
QueueDrains == <>[](hung \/ (channel = << >> /\ worker # "inserting"))
=============================================================================
