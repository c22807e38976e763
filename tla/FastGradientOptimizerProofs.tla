--------------------- MODULE FastGradientOptimizerProofs ---------------------
(***************************************************************************)
(* Proofs about FastGradientOptimizer, for every contract, every default    *)
(* value that fits in 24 bits a hundredfold, and all random numbers: the    *)
(* search stays within the worker's bounds and within its budget.           *)
(***************************************************************************)
EXTENDS FastGradientOptimizer, TLAPS

Centers == {Point(i) : i \in 0 .. CoarsePoints - 1}

\* Where the windows lie, and what each phase may have spent so far.
WindowInv == phase = "focus" => regions # << >> /\ lower <= left /\ right <= upper
BudgetInv ==
  /\ phase = "coarse" => iterations = point
  /\ phase = "focus"  => iterations <= CoarsePoints + FocusSteps * (FocusRegions - Len(regions)) + steps
  /\ phase \in {"random", "done"} =>
       iterations + samples <= CoarsePoints + FocusRegions * FocusSteps + RandomSamples
Typed ==
  /\ landscape \in Landscapes /\ initial \in DefaultValues
  /\ phase \in {"coarse", "focus", "random", "done"}
  /\ point \in 0 .. CoarsePoints /\ promising \subseteq 0 .. CoarsePoints - 1
  /\ regions \in Seq(Centers) /\ Len(regions) <= FocusRegions
  /\ left \in Nat /\ right \in Nat
  /\ steps \in 0 .. FocusSteps /\ samples \in 0 .. RandomSamples
  /\ iterations \in 0 .. MaxIterations
  /\ best.qty \in Nat /\ best.calldata \in 0 .. CalldataMax

IInv == Typed /\ QuantityWithinBounds /\ WindowInv /\ BudgetInv

USE DEF CoarsePoints, FocusSteps, FocusRegions, RandomSamples, MaxIterations

\* The bounds around a default value: ordered, in 24 bits, and so far apart that
\* half a step reaches from zero past the lower one.
LEMMA Bounds ==
  ASSUME NEW d \in DefaultValues
  PROVE  /\ LowerBound(d) \in Nat /\ UpperBound(d) \in Nat
         /\ 1 <= LowerBound(d) /\ LowerBound(d) <= d /\ d <= UpperBound(d)
         /\ UpperBound(d) <= CalldataMax
         /\ LowerBound(d) <= ((UpperBound(d) - LowerBound(d)) \div 10) \div 2
<1>1. d \in Nat /\ 1 <= d /\ UpperBound(d) = d * 100 /\ d * 100 <= CalldataMax
  BY OptimizerAssumption DEF UpperBound, Lesser
<1>2. LowerBound(d) \in Nat /\ 1 <= LowerBound(d) /\ LowerBound(d) <= d
  BY <1>1 DEF LowerBound, Greater
<1>3. UpperBound(d) - LowerBound(d) >= 99 * d
  BY <1>1, <1>2
<1>4. (UpperBound(d) - LowerBound(d)) \div 10 >= 9 * d
  BY <1>1, <1>2, <1>3
<1>5. ((UpperBound(d) - LowerBound(d)) \div 10) \div 2 >= d
  BY <1>1, <1>2, <1>4
<1> QED
  BY <1>1, <1>2, <1>5

\* The same for the parameters of a run.
LEMMA RunBounds ==
  ASSUME initial \in DefaultValues
  PROVE  /\ lower \in Nat /\ upper \in Nat /\ initial \in lower .. upper
         /\ upper <= CalldataMax
         /\ step \in Nat /\ 10 * step <= upper - lower
         /\ Radius \in Nat /\ 2 * Radius <= step /\ lower <= Radius
<1>1. initial \in Nat
  BY OptimizerAssumption
<1>2. /\ lower \in Nat /\ upper \in Nat /\ initial \in lower .. upper
      /\ upper <= CalldataMax /\ lower <= Radius
  BY <1>1, Bounds DEF lower, upper, step, Radius
<1>3. step \in Nat /\ 10 * step <= upper - lower
  BY <1>2 DEF step
<1>4. Radius \in Nat /\ 2 * Radius <= step
  BY <1>3 DEF Radius
<1> QED
  BY <1>2, <1>3, <1>4

\* A coarse point is the lower bound, or at least a step above it; all of them
\* are below the upper bound.
LEMMA CoarsePointsWithin ==
  ASSUME initial \in DefaultValues, NEW i \in 0 .. CoarsePoints - 1
  PROVE  /\ Point(i) \in lower .. upper
         /\ Point(i) = lower \/ Point(i) >= lower + step
<1>1. lower \in Nat /\ upper \in Nat /\ step \in Nat /\ 10 * step <= upper - lower
  BY RunBounds
<1>2. i \in {0, 1, 2, 3, 4, 5, 6, 7, 8, 9}
  OBVIOUS
<1>3. Point(i) \in {lower + 0 * step, lower + 1 * step, lower + 2 * step, lower + 3 * step,
                    lower + 4 * step, lower + 5 * step, lower + 6 * step, lower + 7 * step,
                    lower + 8 * step, lower + 9 * step}
  BY <1>2 DEF Point
<1> QED
  BY <1>1, <1>3

\* The window around a center lies within the bounds.
LEMMA WindowWithin ==
  ASSUME initial \in DefaultValues, NEW c \in Centers
  PROVE  /\ c \in Nat
         /\ WindowLeft(c) \in Nat /\ lower <= WindowLeft(c)
         /\ WindowRight(c) \in Nat /\ WindowRight(c) <= upper
<1>1. c \in lower .. upper /\ (c = lower \/ c >= lower + step)
  BY CoarsePointsWithin DEF Centers
<1>2. /\ lower \in Nat /\ upper \in Nat /\ step \in Nat
      /\ Radius \in Nat /\ 2 * Radius <= step /\ lower <= Radius
  BY RunBounds
<1> QED
  BY <1>1, <1>2 DEF WindowLeft, WindowRight

\* A test within the bounds is what every phase adds to the state.
LEMMA TestWithin ==
  ASSUME IInv, NEW q \in lower .. upper, iterations < MaxIterations, Test(q)
  PROVE  /\ iterations' = iterations + 1 /\ iterations' \in 0 .. MaxIterations
         /\ tested' = q
         /\ best'.qty \in Nat /\ best'.calldata \in 0 .. CalldataMax
<1>1. iterations \in 0 .. MaxIterations /\ initial \in DefaultValues
      /\ best.qty \in Nat /\ best.calldata \in 0 .. CalldataMax
  BY DEF IInv, Typed
<1>2. q \in Nat
  BY <1>1, RunBounds
<1>3. Calldata(q) \in 0 .. CalldataMax
  BY <1>2, OptimizerAssumption DEF Calldata
<1> QED
  BY <1>1, <1>2, <1>3 DEF Test, Tested

\* Entering a list of centers keeps the invariant of the windows and the budget.
LEMMA EnterKeeps ==
  ASSUME IInv, regions' \in Seq(Centers), Len(regions') <= FocusRegions, Enter(regions'),
         iterations <= CoarsePoints + FocusSteps * (FocusRegions - Len(regions')),
         UNCHANGED <<params, point, promising, iterations, tested, best>>
  PROVE  IInv'
<1>1. Typed /\ iterations \in 0 .. MaxIterations /\ initial \in DefaultValues
  BY DEF IInv, Typed
<1>2. UNCHANGED <<lower, upper, Centers, QuantityWithinBounds>>
  BY DEF params, lower, upper, Centers, Point, step, QuantityWithinBounds
<1>3. CASE regions' = << >> \/ iterations >= MaxIterations
  <2>1. /\ phase' = "random" /\ samples' = Lesser(MaxIterations - iterations, RandomSamples)
        /\ UNCHANGED <<left, right>> /\ steps' = 0
    BY <1>3 DEF Enter
  <2>2. samples' \in 0 .. RandomSamples
    BY <2>1, <1>1 DEF Lesser
  <2>3. Len(regions') \in Nat
    OBVIOUS
  <2>4. iterations' + samples' <= CoarsePoints + FocusRegions * FocusSteps + RandomSamples
    <3>1. iterations' = iterations
      OBVIOUS
    <3> QED
      BY <2>1, <2>2, <2>3, <3>1, <1>1 DEF Lesser
  <2>5. Typed'
    BY <2>1, <2>2, <1>1, <1>2 DEF Typed, params
  <2>6. WindowInv' /\ BudgetInv'
    BY <2>1, <2>4 DEF WindowInv, BudgetInv
  <2> QED
    BY <2>5, <2>6, <1>2 DEF IInv
<1>4. CASE ~(regions' = << >> \/ iterations >= MaxIterations)
  <2>1. /\ phase' = "focus" /\ left' = WindowLeft(Head(regions')) /\ right' = WindowRight(Head(regions'))
        /\ samples' = samples /\ steps' = 0
    BY <1>4 DEF Enter
  <2>2. Head(regions') \in Centers
    BY <1>4
  <2>3. left' \in Nat /\ lower <= left' /\ right' \in Nat /\ right' <= upper
    BY <1>1, <2>1, <2>2, WindowWithin
  <2>4. Typed'
    BY <2>1, <2>3, <1>1, <1>2 DEF Typed, params
  <2>5. WindowInv'
    BY <2>1, <2>3, <1>2, <1>4 DEF WindowInv
  <2>6. BudgetInv'
    BY <2>1 DEF BudgetInv
  <2> QED
    BY <2>4, <2>5, <2>6, <1>2 DEF IInv
<1> QED
  BY <1>3, <1>4

LEMMA OptimizerInit == Init => IInv
<1> SUFFICES ASSUME Init PROVE IInv
  OBVIOUS
<1>1. initial \in DefaultValues /\ initial \in lower .. upper /\ initial \in Nat
  BY RunBounds, OptimizerAssumption DEF Init
<1>2. Typed
  BY <1>1, OptimizerAssumption DEF Init, Typed
<1> QED
  BY <1>1, <1>2 DEF Init, IInv, QuantityWithinBounds, WindowInv, BudgetInv

LEMMA OptimizerStep == IInv /\ [Next]_vars => IInv'
<1> SUFFICES ASSUME IInv, [Next]_vars PROVE IInv'
  OBVIOUS
<1>1. /\ initial \in DefaultValues /\ iterations \in 0 .. MaxIterations
      /\ lower \in Nat /\ upper \in Nat /\ upper >= lower
  BY RunBounds DEF IInv, Typed
<1>2. ASSUME UNCHANGED params
      PROVE  lower' = lower /\ upper' = upper /\ Centers' = Centers
  BY <1>2 DEF params, lower, upper, Centers, Point, step
<1>3. CASE CoarseTest
  <2>1. Point(point) \in lower .. upper
    <3>1. point \in 0 .. CoarsePoints - 1
      BY <1>3 DEF CoarseTest, IInv, Typed
    <3> QED
      BY <3>1, <1>1, CoarsePointsWithin DEF Point
  <2>2. /\ iterations' = iterations + 1 /\ iterations' \in 0 .. MaxIterations
        /\ tested' = Point(point)
        /\ best'.qty \in Nat /\ best'.calldata \in 0 .. CalldataMax
    BY <1>3, <2>1, TestWithin DEF CoarseTest
  <2>3. Typed'
    BY <1>3, <1>2, <2>2 DEF CoarseTest, IInv, Typed, params, window
  <2>4. QuantityWithinBounds'
    BY <1>3, <1>2, <2>1, <2>2 DEF CoarseTest, QuantityWithinBounds
  <2>5. WindowInv' /\ BudgetInv'
    BY <1>3, <2>2 DEF CoarseTest, IInv, WindowInv, BudgetInv, Typed
  <2> QED
    BY <2>3, <2>4, <2>5 DEF IInv
<1>4. CASE EndCoarse
  <2>1. iterations <= CoarsePoints
    BY <1>4 DEF EndCoarse, IInv, BudgetInv, Typed
  <2>2. UNCHANGED <<params, point, promising, iterations, tested, best>>
    BY <1>4 DEF EndCoarse
  <2>3. \A i \in promising : Point(i) \in Centers
    BY DEF IInv, Typed, Centers
  <2>4. CASE promising = {} /\ Enter(<< >>)
    <3>1. << >> \in Seq(Centers) /\ Len(<< >>) = 0
      OBVIOUS
    <3>2. regions' = << >> /\ Enter(regions')
      BY <2>4 DEF Enter, WindowLeft, WindowRight
    <3> QED
      BY <1>1, <2>1, <2>2, <3>1, <3>2, EnterKeeps
  <2>5. ASSUME NEW i \in promising, Enter(<<Point(i)>>) PROVE IInv'
    <3>1. <<Point(i)>> \in Seq(Centers) /\ Len(<<Point(i)>>) = 1
      BY <2>3
    <3>2. regions' = <<Point(i)>> /\ Enter(regions')
      BY <2>5 DEF Enter, WindowLeft, WindowRight
    <3> QED
      BY <1>1, <2>1, <2>2, <3>1, <3>2, EnterKeeps
  <2>6. ASSUME NEW i \in promising, NEW j \in promising, Enter(<<Point(i), Point(j)>>) PROVE IInv'
    <3>1. <<Point(i), Point(j)>> \in Seq(Centers) /\ Len(<<Point(i), Point(j)>>) = 2
      BY <2>3
    <3>2. regions' = <<Point(i), Point(j)>> /\ Enter(regions')
      BY <2>6 DEF Enter, WindowLeft, WindowRight
    <3> QED
      BY <1>1, <2>1, <2>2, <3>1, <3>2, EnterKeeps
  <2> QED
    BY <1>4, <2>4, <2>5, <2>6 DEF EndCoarse, Leading
<1>5. CASE Bisect
  <2>1. /\ left \in Nat /\ right \in Nat /\ lower <= left /\ right <= upper /\ left < right
        /\ iterations < MaxIterations /\ regions # << >>
    BY <1>5 DEF Bisect, IInv, Typed, WindowInv
  <2>2. /\ Mid \in Nat /\ left <= Mid /\ Mid <= right
        /\ Narrow \in Nat /\ left <= Mid - Narrow
    BY <2>1 DEF Mid, Narrow
  <2>3. /\ iterations' = iterations + 1 /\ iterations' \in 0 .. MaxIterations
        /\ tested' = Mid
        /\ best'.qty \in Nat /\ best'.calldata \in 0 .. CalldataMax
    BY <1>1, <1>5, <2>1, <2>2, TestWithin DEF Bisect
  <2>4. left' \in Nat /\ right' \in Nat /\ lower <= left' /\ right' <= upper
    BY <1>1, <1>5, <2>1, <2>2 DEF Bisect
  <2>5. steps' = steps + 1 /\ steps' \in 0 .. FocusSteps
    BY <1>5 DEF Bisect, IInv, Typed
  <2>6. Typed'
    BY <1>5, <1>2, <2>3, <2>4, <2>5 DEF Bisect, IInv, Typed, params
  <2>7. QuantityWithinBounds'
    BY <1>1, <1>5, <1>2, <2>1, <2>2, <2>3 DEF Bisect, QuantityWithinBounds
  <2>8. WindowInv'
    BY <1>5, <1>2, <2>1, <2>4 DEF Bisect, WindowInv
  <2>9. BudgetInv'
    <3>1. Len(regions) \in Nat
      BY DEF IInv, Typed
    <3> QED
      BY <1>1, <1>5, <2>3, <2>5, <3>1 DEF Bisect, IInv, Typed, BudgetInv
  <2> QED
    BY <2>6, <2>7, <2>8, <2>9 DEF IInv
<1>6. CASE NextRegion
  <2>1. /\ regions \in Seq(Centers) /\ regions # << >> /\ Len(regions) <= FocusRegions
        /\ steps \in 0 .. FocusSteps
        /\ iterations <= CoarsePoints + FocusSteps * (FocusRegions - Len(regions)) + steps
    BY <1>6 DEF NextRegion, IInv, Typed, WindowInv, BudgetInv
  <2>2. Tail(regions) \in Seq(Centers) /\ Len(Tail(regions)) = Len(regions) - 1 /\ Len(regions) \in Nat
    BY <2>1
  <2>3. iterations <= CoarsePoints + FocusSteps * (FocusRegions - Len(Tail(regions)))
    BY <1>1, <2>1, <2>2
  <2> QED
    <3>1. regions' = Tail(regions) /\ Enter(regions')
      BY <1>6 DEF NextRegion, Enter, WindowLeft, WindowRight
    <3>2. UNCHANGED <<params, point, promising, iterations, tested, best>>
      BY <1>6 DEF NextRegion
    <3> QED
      BY <2>1, <2>2, <2>3, <3>1, <3>2, EnterKeeps
<1>7. CASE Sample
  <2>1. /\ phase = "random" /\ samples \in 1 .. RandomSamples
        /\ iterations + samples <= CoarsePoints + FocusRegions * FocusSteps + RandomSamples
    BY <1>7 DEF Sample, IInv, Typed, BudgetInv
  <2>2. PICK r \in RandomValues : Test(lower + (r % (upper - lower + 1)))
    BY <1>7 DEF Sample
  <2>3. r \in Nat /\ upper - lower + 1 \in Nat \ {0}
    BY <1>1, OptimizerAssumption
  <2>4. lower + (r % (upper - lower + 1)) \in lower .. upper
    <3>1. r % (upper - lower + 1) \in 0 .. upper - lower
      BY <2>3, <1>1
    <3> QED
      BY <3>1, <1>1
  <2>5. /\ iterations' = iterations + 1 /\ iterations' \in 0 .. MaxIterations
        /\ tested' = lower + (r % (upper - lower + 1))
        /\ best'.qty \in Nat /\ best'.calldata \in 0 .. CalldataMax
    BY <1>1, <2>1, <2>2, <2>4, TestWithin
  <2>6. Typed'
    BY <1>7, <1>2, <2>1, <2>5 DEF Sample, IInv, Typed, params, window
  <2>7. QuantityWithinBounds'
    BY <1>7, <1>2, <2>4, <2>5 DEF Sample, QuantityWithinBounds
  <2>8. WindowInv' /\ BudgetInv'
    BY <1>1, <1>7, <2>1, <2>5 DEF Sample, WindowInv, BudgetInv
  <2> QED
    BY <2>6, <2>7, <2>8 DEF IInv
<1>8. CASE Return
  <2>1. Typed' /\ QuantityWithinBounds'
    BY <1>8, <1>2 DEF Return, IInv, Typed, params, window, QuantityWithinBounds
  <2>2. WindowInv' /\ BudgetInv'
    BY <1>8 DEF Return, IInv, WindowInv, BudgetInv, window
  <2> QED
    BY <2>1, <2>2 DEF IInv
<1>9. CASE UNCHANGED vars
  <2>1. UNCHANGED <<params, lower, upper, Centers>>
    BY <1>9, <1>2 DEF vars
  <2> QED
    BY <1>9, <2>1 DEF vars, params, window, IInv, Typed, QuantityWithinBounds, WindowInv, BudgetInv
<1> QED
  BY <1>3, <1>4, <1>5, <1>6, <1>7, <1>8, <1>9 DEF Next

\* Every quantity a search tests lies within the bounds the worker gave it
\* (optimize_quantity under the bounds of search_backrun).
THEOREM OptimizerWithinBounds == Spec => []QuantityWithinBounds
<1>1. IInv => QuantityWithinBounds
  BY DEF IInv
<1> QED
  BY <1>1, OptimizerInit, OptimizerStep, PTL DEF Spec

\* Every state of a search is well typed.
THEOREM OptimizerTypeOK == Spec => []TypeOK
<1>1. IInv => TypeOK
  <2> SUFFICES ASSUME IInv PROVE TypeOK
    OBVIOUS
  <2>1. lower \in Nat /\ upper \in Nat
    BY RunBounds DEF IInv, Typed
  <2>2. tested \in Nat
    BY <2>1 DEF IInv, QuantityWithinBounds
  <2>3. \A c \in Centers : c \in Nat
    BY WindowWithin DEF IInv, Typed
  <2>4. regions \in Seq(Nat)
    BY <2>3 DEF IInv, Typed
  <2> QED
    BY <2>2, <2>4 DEF IInv, Typed, TypeOK
<1> QED
  BY <1>1, OptimizerInit, OptimizerStep, PTL DEF Spec

\* The three phases stay within thirty tests.
THEOREM OptimizerBudget == Spec => []BudgetKept
<1>1. IInv => BudgetKept
  <2> SUFFICES ASSUME IInv PROVE BudgetKept
    OBVIOUS
  <2>1. /\ phase \in {"coarse", "focus", "random", "done"} /\ point \in 0 .. CoarsePoints
        /\ steps \in 0 .. FocusSteps /\ samples \in Nat /\ iterations \in Nat
        /\ Len(regions) \in Nat /\ Len(regions) <= FocusRegions
    BY DEF IInv, Typed
  <2>2. CASE phase = "coarse"
    BY <2>1, <2>2 DEF IInv, BudgetInv, BudgetKept
  <2>3. CASE phase = "focus"
    <3>1. regions # << >>
      BY <2>3 DEF IInv, WindowInv
    <3>2. Len(regions) >= 1
      BY <3>1, <2>1 DEF IInv, Typed
    <3> QED
      BY <2>1, <2>3, <3>2 DEF IInv, BudgetInv, BudgetKept
  <2>4. CASE phase \in {"random", "done"}
    BY <2>1, <2>4 DEF IInv, BudgetInv, BudgetKept
  <2> QED
    BY <2>1, <2>2, <2>3, <2>4
<1> QED
  BY <1>1, OptimizerInit, OptimizerStep, PTL DEF Spec

\* The answers of the contract are words of the machine.
WordsFit == \A l \in Landscapes, q \in 1 .. CalldataMax : Output(l, q).word \in 0 .. WordMax

DeltaInv == best.delta \in Nat

\* A positive delta is the word the contract reverted with.
LEMMA DeltaStated ==
  ASSUME WordsFit, landscape \in Landscapes, NEW q \in 1 .. CalldataMax
  PROVE  /\ Delta(q) \in Int /\ Delta(q) <= DeltaMax
         /\ Delta(q) > 0 => Output(landscape, q).kind = "revert"
                             /\ Output(landscape, q).word = Delta(q)
<1> DEFINE kind == Output(landscape, q).kind
           word == Output(landscape, q).word
<1>1. word \in 0 .. WordMax /\ WordMax \in Nat /\ DeltaMax \in Nat
  BY OptimizerAssumption DEF WordsFit
<1>2. Delta(q) = IF kind = "revert" THEN Signed(word) ELSE 0
  BY DEF Delta
<1> HIDE DEF kind, word
<1>3. /\ Signed(word) \in Int /\ Signed(word) <= DeltaMax
      /\ Signed(word) = word \/ Signed(word) <= 0
  BY <1>1 DEF Signed, Lesser
<1>4. CASE kind = "revert"
  BY <1>1, <1>2, <1>3, <1>4 DEF kind, word
<1>5. CASE kind # "revert"
  BY <1>1, <1>2, <1>5
<1> QED
  BY <1>4, <1>5

\* A step that tests something leaves the best output alone, or improves it as the
\* abstract search may.
LEMMA TestImproves ==
  ASSUME WordsFit, IInv, DeltaInv, NEW q, Test(q), UNCHANGED params, IInv'
  PROVE  DeltaInv' /\ [Search!Improve]_<<landscape, best>>
<1>1. /\ landscape \in Landscapes /\ landscape' = landscape
      /\ lower' = lower /\ upper' = upper /\ initial \in DefaultValues
  BY DEF IInv, Typed, params, lower, upper
<1>2. tested' = q /\ best' = IF Delta(q) > best.delta THEN Tested(q) ELSE best
  BY DEF Test
<1>3. q \in lower .. upper
  BY <1>1, <1>2 DEF IInv, QuantityWithinBounds
<1>4. /\ lower \in Nat /\ 1 <= lower /\ upper \in Nat /\ upper <= CalldataMax
      /\ CalldataMax \in Nat
  BY <1>1, Bounds, OptimizerAssumption DEF lower, upper
<1>5. q \in 1 .. CalldataMax
  BY <1>3, <1>4
<1>6. CASE ~(Delta(q) > best.delta)
  BY <1>2, <1>6, <1>1 DEF DeltaInv
<1>7. CASE Delta(q) > best.delta
  <2>1. /\ best'.qty = q /\ best'.delta = Delta(q) /\ best'.calldata = q % (CalldataMax + 1)
    BY <1>2, <1>7, SMT DEF Tested, Calldata
  <2>2. q % (CalldataMax + 1) = q
    BY <1>4, <1>5
  <2>3. /\ Delta(q) \in Nat /\ Delta(q) > 0 /\ Delta(q) <= DeltaMax
        /\ Output(landscape, q).kind = "revert" /\ Output(landscape, q).word = Delta(q)
    BY <1>1, <1>5, <1>7, DeltaStated DEF DeltaInv
  <2>4. DeltaInv'
    BY <2>1, <2>3 DEF DeltaInv
  <2> QED
    BY <1>1, <1>5, <1>7, <2>1, <2>2, <2>3, <2>4 DEF Search!Improve
<1> QED
  BY <1>6, <1>7

LEMMA SearchStep ==
  WordsFit /\ IInv /\ DeltaInv /\ [Next]_vars
    => IInv' /\ DeltaInv' /\ [Search!Improve]_<<landscape, best>>
<1> SUFFICES ASSUME WordsFit, IInv, DeltaInv, [Next]_vars
             PROVE  IInv' /\ DeltaInv' /\ [Search!Improve]_<<landscape, best>>
  OBVIOUS
<1>1. IInv'
  BY OptimizerStep
<1>2. CASE CoarseTest
  BY <1>1, <1>2, TestImproves DEF CoarseTest
<1>3. CASE Bisect
  BY <1>1, <1>3, TestImproves DEF Bisect
<1>4. CASE Sample
  BY <1>1, <1>4, TestImproves DEF Sample
<1>5. CASE EndCoarse \/ NextRegion \/ Return \/ UNCHANGED vars
  <2>1. UNCHANGED <<landscape, best>>
    BY <1>5 DEF EndCoarse, NextRegion, Return, vars, params
  <2> QED
    BY <1>1, <2>1 DEF DeltaInv
<1> QED
  BY <1>2, <1>3, <1>4, <1>5 DEF Next

\* The optimizer keeps its promise to the worker for every contract that answers in
\* words: a profit it returns is the one stated for that quantity, encoded whole, and
\* none is given up for a smaller one.
THEOREM OptimizerImplementsSearch == WordsFit /\ Spec => ImplementsSearch
<1>1. Init => Search!SearchInit /\ IInv /\ DeltaInv
  <2>1. Init => Search!SearchInit /\ DeltaInv
    BY SMT DEF Init, Search!SearchInit, DeltaInv
  <2> QED
    BY <2>1, OptimizerInit
<1>2. SUFFICES ASSUME WordsFit PROVE Spec => ImplementsSearch
  OBVIOUS
<1>3. IInv /\ DeltaInv /\ [Next]_vars
        => IInv' /\ DeltaInv' /\ [Search!Improve]_<<landscape, best>>
  BY <1>2, SearchStep
<1> QED
  BY <1>1, <1>3, PTL DEF Spec, ImplementsSearch, Search!SearchSpec
=============================================================================
