------------------------ MODULE FastGradientOptimizer ------------------------
(***************************************************************************)
(* The search for the best quantity that a worker runs on a snapshot: ten   *)
(* coarse points between the bounds, up to five bisections around each of   *)
(* the two most profitable ones, and ten random samples, against a budget   *)
(* of 50 tests.  A test calls the target contract with the quantity; the    *)
(* contract always reverts and returns the profit as a signed word.         *)
(*                                                                         *)
(* The contract is the constant operator Output: any function of a          *)
(* landscape and a quantity.  The widths of the words are constants.        *)
(***************************************************************************)
EXTENDS Integers, Sequences

CONSTANTS
  DefaultValues,   \* default_value of the backrun configurations
  Landscapes,      \* the contracts and states to search
  Output(_, _),    \* the result of a call: Output(landscape, quantity)
  RandomValues,    \* what fast_random may return
  CalldataMax,     \* 0xffffff, the largest quantity three bytes hold
  DeltaMax,        \* i128::MAX
  WordMax          \* the largest 256-bit word

ASSUME OptimizerAssumption ==
  /\ CalldataMax \in Nat
  /\ DefaultValues \subseteq Nat \ {0} /\ \A d \in DefaultValues : 100 * d <= CalldataMax
  /\ RandomValues \subseteq Nat
  /\ DeltaMax \in Nat /\ WordMax \in Nat /\ 2 * DeltaMax < WordMax

MaxIterations == 50
CoarsePoints  == 10
FocusRegions  == 2
FocusSteps    == 5
RandomSamples == 10

VARIABLES
  landscape,   \* the state searched
  initial,     \* params.initial_qty
  phase,       \* where optimize_quantity is
  point,       \* coarse points tested
  promising,   \* the profitable ones
  regions,     \* the centers still to search around, the current one first
  left, right, \* the window around the current one
  steps,       \* bisections done in it
  samples,     \* random samples still to take
  iterations,  \* iterations_used
  tested,      \* the quantity tested last
  best         \* best_output

params == <<landscape, initial>>
window == <<left, right, steps>>
vars == <<params, phase, point, promising, regions, window, samples, iterations, tested, best>>

Lesser(a, b)  == IF a < b THEN a ELSE b
Greater(a, b) == IF a > b THEN a ELSE b

-----------------------------------------------------------------------------
(* Pure parts.                                                               *)

\* search_backrun(): the bounds around the initial quantity.
LowerBound(d) == Greater(d \div 100, 1)
UpperBound(d) == Lesser(d * 100, CalldataMax)

lower == LowerBound(initial)
upper == UpperBound(initial)
step  == (upper - lower) \div 10   \* initial_step

\* Faulty variant: a positive number that does not fit is clamped.
SignedClamping(word) ==
  IF word <= DeltaMax THEN word
  ELSE IF word > WordMax \div 2 THEN -Lesser(WordMax + 1 - word, DeltaMax)
  ELSE DeltaMax

\* A word as i128: two's complement, clamped at -i128::MAX, and 0 for a positive
\* number that does not fit.
Signed(word) ==
  IF word <= DeltaMax THEN word
  ELSE IF word > WordMax \div 2 THEN -Lesser(WordMax + 1 - word, DeltaMax)
  ELSE 0

\* Only a revert with a full word of output has a delta.
Delta(q) ==
  LET result == Output(landscape, q)
  IN IF result.kind = "revert" THEN Signed(result.word) ELSE 0

\* The low three bytes of the quantity.
Calldata(q) == q % (CalldataMax + 1)

Tested(q) == [qty |-> q, delta |-> Delta(q), calldata |-> Calldata(q)]

Point(i) == lower + i * step

\* The order of the promising points: by profit, ties in the order they were tested
\* (the sort is stable).  A non-empty set has one leading point.
Before(i, j) == Delta(Point(i)) > Delta(Point(j)) \/ (Delta(Point(i)) = Delta(Point(j)) /\ i < j)
Leading(S)   == {i \in S : \A j \in S \ {i} : Before(i, j)}

Radius == step \div 2
\* Faulty variant: the window is clipped at 0.
WindowLeftAtZero(center) == IF center > Radius THEN center - Radius ELSE 0

WindowLeft(center)  == IF center > Radius THEN center - Radius ELSE lower
WindowRight(center) == IF center + Radius < upper THEN center + Radius ELSE upper

-----------------------------------------------------------------------------

TypeOK ==
  /\ landscape \in Landscapes
  /\ initial \in DefaultValues
  /\ phase \in {"coarse", "focus", "random", "done"}
  /\ point \in 0 .. CoarsePoints
  /\ promising \subseteq 0 .. CoarsePoints - 1
  /\ regions \in Seq(Nat) /\ Len(regions) <= FocusRegions
  /\ left \in Nat /\ right \in Nat
  /\ steps \in 0 .. FocusSteps
  /\ samples \in 0 .. RandomSamples
  /\ iterations \in 0 .. MaxIterations
  /\ tested \in Nat
  /\ best.qty \in Nat /\ best.calldata \in 0 .. CalldataMax

Init ==
  /\ landscape \in Landscapes /\ initial \in DefaultValues
  /\ phase = "coarse" /\ point = 0 /\ promising = {}
  /\ regions = << >> /\ left = 0 /\ right = 0 /\ steps = 0
  /\ samples = 0 /\ iterations = 0
  /\ tested = initial
  /\ best = [qty |-> initial, delta |-> 0, calldata |-> 0]

\* test_quantity_ultra_fast() and the comparison every phase makes.
Test(q) ==
  /\ iterations' = iterations + 1
  /\ tested' = q
  /\ best' = IF Delta(q) > best.delta THEN Tested(q) ELSE best

CoarseTest ==
  /\ phase = "coarse" /\ point < CoarsePoints
  /\ iterations < MaxIterations /\ Point(point) <= upper
  /\ Test(Point(point))
  /\ promising' = IF Delta(Point(point)) > 0 THEN promising \cup {point} ELSE promising
  /\ point' = point + 1
  /\ UNCHANGED <<params, phase, regions, window, samples>>

\* Faulty variant: all that is left of the budget is sampled.
EnterUnlimited(centers) ==
  /\ regions' = centers
  /\ steps' = 0
  /\ IF centers = << >> \/ iterations >= MaxIterations
       THEN /\ phase' = "random"
            /\ samples' = MaxIterations - iterations
            /\ UNCHANGED <<left, right>>
       ELSE /\ phase' = "focus"
            /\ left' = WindowLeft(Head(centers)) /\ right' = WindowRight(Head(centers))
            /\ UNCHANGED samples

\* The window around the next center, or the random samples with what is left.
Enter(centers) ==
  /\ regions' = centers
  /\ steps' = 0
  /\ IF centers = << >> \/ iterations >= MaxIterations
       THEN /\ phase' = "random"
            /\ samples' = Lesser(MaxIterations - iterations, RandomSamples)
            /\ UNCHANGED <<left, right>>
       ELSE /\ phase' = "focus"
            /\ left' = WindowLeft(Head(centers)) /\ right' = WindowRight(Head(centers))
            /\ UNCHANGED samples

EndCoarse ==
  /\ phase = "coarse"
  /\ point = CoarsePoints \/ iterations >= MaxIterations \/ Point(point) > upper
  /\ \/ promising = {} /\ Enter(<< >>)
     \/ \E i \in Leading(promising) :
          IF promising = {i} THEN Enter(<<Point(i)>>)
          ELSE \E j \in Leading(promising \ {i}) : Enter(<<Point(i), Point(j)>>)
  /\ UNCHANGED <<params, point, promising, iterations, tested, best>>

Mid    == (left + right) \div 2
Narrow == (right - left) \div 4   \* new_radius

\* One bisection: a better middle narrows the window around it, a profitable one
\* moves it on, away from the center, and any other one back towards it.
Bisect ==
  /\ phase = "focus" /\ steps < FocusSteps
  /\ iterations < MaxIterations /\ left < right
  /\ Test(Mid)
  /\ IF Delta(Mid) > best.delta
       THEN /\ left'  = IF Mid > Narrow THEN Mid - Narrow ELSE left
            /\ right' = IF Mid + Narrow < right THEN Mid + Narrow ELSE right
       ELSE IF (Delta(Mid) > 0) = (Mid > Head(regions))
              THEN left' = Mid /\ UNCHANGED right
              ELSE right' = Mid /\ UNCHANGED left
  /\ steps' = steps + 1
  /\ UNCHANGED <<params, phase, point, promising, regions, samples>>

NextRegion ==
  /\ phase = "focus"
  /\ steps = FocusSteps \/ iterations >= MaxIterations \/ right <= left
  /\ Enter(Tail(regions))
  /\ UNCHANGED <<params, point, promising, iterations, tested, best>>

Sample ==
  /\ phase = "random" /\ samples > 0
  /\ \E r \in RandomValues : Test(lower + (r % (upper - lower + 1)))
  /\ samples' = samples - 1
  /\ UNCHANGED <<params, phase, point, promising, regions, window>>

Return ==
  /\ phase = "random" /\ samples = 0
  /\ phase' = "done"
  /\ UNCHANGED <<params, point, promising, regions, window, samples, iterations, tested, best>>

Next == CoarseTest \/ EndCoarse \/ Bisect \/ NextRegion \/ Sample \/ Return

Spec == Init /\ [][Next]_vars

-----------------------------------------------------------------------------

\* No phase tests a quantity outside the worker's bounds, whatever the contract
\* returns: neither the windows around the outermost coarse points nor the
\* narrowing may leave them.
QuantityWithinBounds == tested \in lower .. upper

\* Three phases take at most thirty tests, so the budget of fifty never cuts one
\* short.
BudgetKept == iterations <= CoarsePoints + FocusRegions * FocusSteps + RandomSamples

\* The promise to the worker: the reported profit is the very word with which the
\* contract reverted for the reported quantity, the calldata of the bundle encodes
\* that quantity whole, and no phase gives a profit up for a smaller one.
Search == INSTANCE QuantitySearch WITH
  ProfitKinds <- {"revert"}, Largest <- CalldataMax

ImplementsSearch == Search!SearchSpec
=============================================================================
