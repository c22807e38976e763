---------------------------- MODULE GridOptimizer ----------------------------
(***************************************************************************)
(* GradientOptimizer and ParallelGradientOptimizer, the two searches that    *)
(* FastGradientOptimizer was derived from.  Both divide the range into a     *)
(* grid, test one random quantity in each cell, and then search around the   *)
(* first five profitable ones.  The serial search narrows a window until it  *)
(* is closed or the budget is used up, and spends what is left on random     *)
(* quantities; the parallel one tests the grid in batches, on a copy of the  *)
(* database per thread, and takes five steps around each hotspot.            *)
(*                                                                           *)
(* Arithmetic on quantities is that of U256: it wraps.  No test returns Err: *)
(* a failed execution counts as no profit.                                   *)
(***************************************************************************)
EXTENDS Integers, Sequences

CONSTANTS
  Variants,        \* the optimizers to look at
  Searches,        \* GradientParams: [initial, lower, upper]
  Landscapes,      \* the contracts and states to search
  Output(_, _),    \* the result of a call: Output(landscape, quantity)
  RandomValues,    \* what random() may return
  MaxIterations,   \* 250
  BatchSize,       \* 8
  Focus,           \* 10: how far around a new best quantity the search goes on
  CalldataMax,     \* 0xffffff, the largest quantity three bytes hold
  DeltaMax,        \* i128::MAX
  WordMax          \* U256::MAX

ASSUME GridAssumption ==
  /\ Variants \subseteq {"serial", "parallel"}
  /\ \A s \in Searches : /\ s.lower \in Nat \ {0} /\ s.upper \in s.lower .. CalldataMax
                         /\ s.initial \in s.lower .. s.upper
  /\ RandomValues # {} /\ RandomValues \subseteq Nat
  /\ MaxIterations \in Nat /\ MaxIterations >= 3
  /\ BatchSize \in Nat \ {0} /\ Focus \in Nat \ {0}
  /\ CalldataMax \in Nat /\ DeltaMax \in Nat /\ WordMax \in Nat
  /\ 2 * DeltaMax < WordMax /\ 2 * CalldataMax < WordMax
  /\ \A l \in Landscapes, q \in 1 .. CalldataMax : Output(l, q).word \in 0 .. WordMax

GridCells   == (MaxIterations * 2) \div 5
MaxHotspots == 5
FocusSteps  == 5

VARIABLES
  variant,     \* which optimizer runs
  search,      \* params
  landscape,   \* the state searched
  phase,       \* where optimize_quantity is
  cell,        \* grid cells drawn
  batch,       \* the quantities under test, and whether their thread is done
  hotspots,    \* the profitable quantities of the grid; then those still to search
  left, right, \* the window around the first of them
  steps,       \* steps of the parallel search in it
  iterations,  \* iterations_used of the serial search
  best         \* best_output

input  == <<variant, search, landscape>>
window == <<left, right, steps>>
vars == <<input, phase, cell, batch, hotspots, window, iterations, best>>

-----------------------------------------------------------------------------
(* Pure parts.                                                               *)

lower == search.lower
upper == search.upper

GridStep ==
  LET step == (upper - lower + 1) \div GridCells IN IF step = 0 THEN 1 ELSE step

\* Faulty variant: the offset is not reduced to the cell.
GridPointAnywhere(i, random) == lower + random + i * GridStep

GridPoint(i, random) == lower + (random % GridStep) + i * GridStep

\* A word as i128: two's complement, i128::MIN for what is too small, and 0 for a
\* positive number that does not fit.
Signed(word) ==
  IF word <= DeltaMax THEN word
  ELSE IF word > WordMax \div 2
         THEN IF WordMax + 1 - word <= DeltaMax THEN word - WordMax - 1 ELSE -DeltaMax - 1
         ELSE 0

\* The serial search takes a profit from a successful call as well.
Delta(q) ==
  LET result == Output(landscape, q)
  IN CASE result.kind = "revert" -> Signed(result.word)
       [] result.kind = "success" /\ variant = "serial" ->
            IF result.word <= DeltaMax THEN result.word ELSE 0
       [] OTHER -> 0

Tested(q) == [qty |-> q, delta |-> Delta(q), calldata |-> q % (CalldataMax + 1)]

\* Faulty variant: the last profit wins.
BetterThanNothing(b, q) == Delta(q) > 0 /\ Delta(q) < DeltaMax \div 2

\* What replaces the best output.
Better(b, q) == Delta(q) > b.delta /\ Delta(q) < DeltaMax \div 2

Keep(b, q) == IF Better(b, q) THEN Tested(q) ELSE b

\* end - start of unsigned words: a window inside out is wider than any other.
Width == (right - left) % (WordMax + 1)
\* Faulty variant: the middle is counted with both ends.
MidCountingBoth == (left + right) \div 2 + 1
Mid     == (left + right) \div 2
Hotspot == Head(hotspots)

-----------------------------------------------------------------------------

Init ==
  /\ variant \in Variants /\ search \in Searches /\ landscape \in Landscapes
  /\ phase = "grid" /\ cell = 0 /\ batch = << >> /\ hotspots = << >>
  /\ left = 0 /\ right = 0 /\ steps = 0 /\ iterations = 0
  /\ best = [qty |-> search.initial, delta |-> 0, calldata |-> 0]

-----------------------------------------------------------------------------
(* The grid.                                                                 *)

Threads    == IF variant = "parallel" THEN BatchSize ELSE 1
InRange(i) == i < GridCells /\ lower + i * GridStep <= upper
Count(n)   == iterations' = IF variant = "serial" THEN iterations + n ELSE iterations

\* A quantity is drawn for every cell of the batch, one cell in the serial search;
\* cells beyond the upper bound are left out.
Launch ==
  /\ phase = "grid" /\ batch = << >>
  /\ \E n \in 1 .. Threads :
       /\ \A i \in cell .. cell + n - 1 : InRange(i)
       /\ n = Threads \/ ~InRange(cell + n)
       /\ \E random \in [1 .. n -> RandomValues] :
            batch' = [i \in 1 .. n |->
                        [qty |-> GridPoint(cell + i - 1, random[i]), done |-> FALSE]]
       /\ cell' = cell + n
       /\ Count(n)
  /\ UNCHANGED <<input, phase, hotspots, window, best>>

\* A thread returns from its simulation.
Finish(i) ==
  /\ i \in DOMAIN batch /\ ~batch[i].done
  /\ batch' = [batch EXCEPT ![i].done = TRUE]
  /\ UNCHANGED <<input, phase, cell, hotspots, window, iterations, best>>

Remember(spots, q) ==
  IF Delta(q) > 0 /\ Len(spots) < MaxHotspots THEN Append(spots, q) ELSE spots

\* The results are taken one by one, in the order of the cells, once every thread has
\* returned.
Collect ==
  /\ batch # << >> /\ \A i \in DOMAIN batch : batch[i].done
  /\ best' = Keep(best, Head(batch).qty)
  /\ hotspots' = Remember(hotspots, Head(batch).qty)
  /\ batch' = Tail(batch)
  /\ UNCHANGED <<input, phase, cell, window, iterations>>

-----------------------------------------------------------------------------
(* The hotspots.                                                             *)

\* Around the next hotspot, two cells to either side; without one, or without
\* budget, on to what is left.
Enter(spots) ==
  /\ hotspots' = spots
  /\ steps' = 0
  /\ IF spots = << >> \/ (variant = "serial" /\ iterations >= MaxIterations)
       THEN /\ phase' = IF variant = "serial" THEN "explore" ELSE "done"
            /\ UNCHANGED <<left, right>>
       ELSE /\ phase' = "hotspots"
            /\ left'  = IF Head(spots) > 2 * GridStep THEN Head(spots) - 2 * GridStep ELSE lower
            /\ right' = IF Head(spots) + 2 * GridStep < upper
                          THEN Head(spots) + 2 * GridStep ELSE upper

EndGrid ==
  /\ phase = "grid" /\ batch = << >> /\ ~InRange(cell)
  /\ Enter(hotspots)
  /\ UNCHANGED <<input, cell, batch, iterations, best>>

Searching(v) == variant = v /\ phase = "hotspots"

\* Faulty variant: one test too many.
InBudgetInclusive ==
  IF variant = "serial" THEN iterations <= MaxIterations ELSE steps <= FocusSteps

InBudget ==
  IF variant = "serial" THEN iterations < MaxIterations ELSE steps < FocusSteps

Open == InBudget /\ Width > 1

\* The middle is tested; a better one becomes the best output.
Probe ==
  /\ Open
  /\ best' = Keep(best, Mid)
  /\ Count(1)

FocusOnMid ==
  /\ left'  = IF Mid > Focus THEN Mid - Focus ELSE left
  /\ right' = IF Mid + Focus < right THEN Mid + Focus ELSE right

\* Serial: around a new best quantity.
Improve ==
  /\ Searching("serial") /\ Probe /\ Better(best, Mid)
  /\ FocusOnMid
  /\ UNCHANGED <<input, phase, cell, batch, hotspots, steps>>

\* Serial: a profit that is not better, in a random direction.
Wander ==
  /\ Searching("serial") /\ Probe /\ ~Better(best, Mid) /\ Delta(Mid) > 0
  /\ \/ right' = Mid /\ UNCHANGED left
     \/ left' = Mid + 1 /\ UNCHANGED right
  /\ UNCHANGED <<input, phase, cell, batch, hotspots, steps>>

\* Serial: no profit; every third iteration goes back to a cell around the hotspot.
Jump ==
  /\ Searching("serial") /\ Probe /\ Delta(Mid) <= 0 /\ (iterations + 1) % 3 = 0
  /\ left'  = IF Hotspot > GridStep THEN Hotspot - GridStep ELSE left
  /\ right' = IF Hotspot + GridStep < upper THEN Hotspot + GridStep ELSE right
  /\ UNCHANGED <<input, phase, cell, batch, hotspots, steps>>

\* Serial: no profit otherwise; the hotspot is left.
GiveUp ==
  /\ Searching("serial") /\ Probe /\ Delta(Mid) <= 0 /\ (iterations + 1) % 3 # 0
  /\ phase' = "leave"
  /\ UNCHANGED <<input, cell, batch, hotspots, window>>

\* Parallel: around every profit; the hotspot is left without one.
StepParallel ==
  /\ Searching("parallel") /\ Probe
  /\ steps' = steps + 1
  /\ IF Delta(Mid) > 0
       THEN FocusOnMid /\ UNCHANGED phase
       ELSE phase' = "leave" /\ UNCHANGED <<left, right>>
  /\ UNCHANGED <<input, cell, batch, hotspots>>

\* Faulty variant: the hotspot just left is not dropped.
NextHotspotAgain ==
  /\ phase = "leave" \/ (phase = "hotspots" /\ ~Open)
  /\ Enter(IF Len(hotspots) > 1 THEN Tail(hotspots) ELSE hotspots)
  /\ UNCHANGED <<input, cell, batch, iterations, best>>

NextHotspot ==
  /\ phase = "leave" \/ (phase = "hotspots" /\ ~Open)
  /\ Enter(Tail(hotspots))
  /\ UNCHANGED <<input, cell, batch, iterations, best>>

-----------------------------------------------------------------------------
(* The rest of the serial budget.                                            *)

Explore ==
  /\ phase = "explore" /\ iterations < MaxIterations
  /\ \E r \in RandomValues :
       LET q == lower + (r % (upper - lower + 1))
       IN best' = Keep(best, q)
  /\ iterations' = iterations + 1
  /\ UNCHANGED <<input, phase, cell, batch, hotspots, window>>

Return ==
  /\ phase = "explore" /\ iterations >= MaxIterations
  /\ phase' = "done"
  /\ UNCHANGED <<input, cell, batch, hotspots, window, iterations, best>>
-----------------------------------------------------------------------------
Grid     == Launch \/ (\E i \in DOMAIN batch : Finish(i)) \/ Collect \/ EndGrid
Hotspots == Improve \/ Wander \/ Jump \/ GiveUp \/ StepParallel \/ NextHotspot

Next == Grid \/ Hotspots \/ Explore \/ Return

Spec == Init /\ [][Next]_vars

\* A search is one function call, and the pool of threads runs what it was given.
FairSpec == Spec /\ WF_vars(Next)

-----------------------------------------------------------------------------
(* Properties.                                                               *)

\* Variables have their types; the serial search keeps to its budget.
TypeOK ==
  /\ variant \in Variants /\ search \in Searches /\ landscape \in Landscapes
  /\ phase \in {"grid", "hotspots", "leave", "explore", "done"}
  /\ cell \in 0 .. GridCells
  /\ Len(batch) <= Threads
  /\ Len(hotspots) <= MaxHotspots
  /\ left \in Nat /\ right \in Nat
  /\ steps \in 0 .. FocusSteps /\ iterations \in 0 .. MaxIterations
  /\ best.qty \in Nat

\* A window turns inside out only when a middle without profit sends the serial
\* search back around its hotspot after the window had moved away from there: then
\* `end - start` wraps, and the loop goes on.  No other step does it, and the
\* parallel search never does.
InsideOutOnlyByJump ==
  [][left <= right /\ left' > right' => Jump]_vars

\* Whatever the window, inside out included: every quantity tested is at least 1
\* and at most the upper bound, so its three bytes of calldata are the quantity.
\* The lower bound is no such limit: the focus may go below it.
QuantityEncodable ==
  /\ \A i \in DOMAIN batch : batch[i].qty \in lower .. upper
  /\ phase = "hotspots" /\ Open => Mid \in 1 .. upper

\* A search ends, also when its window does not close any more.
SearchEnds == <>(phase = "done")

\* Both searches promise what the fast one does.
Search == INSTANCE QuantitySearch WITH
  ProfitKinds <- {"revert", "success"}, Largest <- CalldataMax

ImplementsSearch == Search!SearchSpec
=============================================================================
