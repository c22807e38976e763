------------------------- MODULE GridOptimizerProofs -------------------------
(***************************************************************************)
(* The grid searches test only what their calldata can hold, and implement   *)
(* QuantitySearch, whatever the contract answers and however their windows   *)
(* turn inside out.                                                          *)
(***************************************************************************)
EXTENDS GridOptimizer, FiniteSetTheorems, TLAPS

\* Everything to be tested lies within the bounds of the search, or in a window
\* whose ends, in whichever order, lie between 1 and the upper bound.
WindowInv ==
  phase \in {"hotspots", "leave"} =>
    hotspots # << >> /\ left \in 1 .. upper /\ right \in 1 .. upper

Tests == [qty : lower .. upper, done : BOOLEAN]

BatchInv ==
  /\ batch \in Seq(Tests) /\ Len(batch) <= Threads
  /\ phase # "grid" => batch = << >>

SpotsInv == hotspots \in Seq(lower .. upper) /\ Len(hotspots) <= MaxHotspots

\* The serial search counts a test for each cell.
CountInv ==
  /\ cell \in 0 .. GridCells
  /\ steps \in 0 .. FocusSteps /\ iterations \in 0 .. MaxIterations
  /\ phase = "grid" /\ variant = "serial" => iterations = cell

BestInv == best.qty \in Nat /\ best.delta \in Nat

InputInv ==
  /\ variant \in Variants /\ search \in Searches /\ landscape \in Landscapes
  /\ phase \in {"grid", "hotspots", "leave", "explore", "done"}
  /\ left \in Nat /\ right \in Nat

GridInv == InputInv /\ WindowInv /\ BatchInv /\ SpotsInv /\ CountInv /\ BestInv

\* How much is left to do at most: cells to draw, quantities under test, threads that
\* have not returned, hotspots, the serial budget, and the way through the phases.
Running == {i \in DOMAIN batch : ~batch[i].done}

Ahead ==
  CASE phase = "grid"     -> FocusSteps + 4
    [] phase = "hotspots" -> FocusSteps - steps + 3
    [] phase = "leave"    -> 2
    [] phase = "explore"  -> 1
    [] OTHER              -> 0

Left == 12 * (GridCells - cell) + 10 * Len(batch) + Cardinality(Running)
          + 9 * Len(hotspots) + (MaxIterations - iterations) + Ahead

-----------------------------------------------------------------------------
LEMMA DivAtMost == ASSUME NEW a \in Nat, NEW b \in Nat \ {0}
                   PROVE  a \div b \in Nat /\ b * (a \div b) <= a
  OBVIOUS

LEMMA HeadTail ==
  ASSUME NEW S, NEW s \in Seq(S), s # << >>
  PROVE  /\ Head(s) \in S /\ Tail(s) \in Seq(S) /\ Len(s) \in Nat /\ Len(Tail(s)) = Len(s) - 1
         /\ Head(s) = s[1]
  OBVIOUS

LEMMA FunctionIsSeq ==
  ASSUME NEW S, NEW n \in Nat, NEW f \in [1 .. n -> S]
  PROVE  f \in Seq(S) /\ Len(f) = n
  OBVIOUS

LEMMA ElementOf ==
  ASSUME NEW S, NEW s \in Seq(S), NEW i \in DOMAIN s
  PROVE  s[i] \in S
  OBVIOUS

LEMMA ReplaceElement ==
  ASSUME NEW S, NEW s \in Seq(S), NEW i \in DOMAIN s, NEW e \in S
  PROVE  [s EXCEPT ![i] = e] \in Seq(S) /\ Len([s EXCEPT ![i] = e]) = Len(s)
  OBVIOUS

LEMMA RememberWithin ==
  ASSUME NEW S, NEW s \in Seq(S), NEW q \in S, Len(s) <= MaxHotspots
  PROVE  Remember(s, q) \in Seq(S) /\ Len(Remember(s, q)) <= MaxHotspots
  BY DEF Remember, MaxHotspots

LEMMA GridConstants ==
  /\ GridCells \in Nat /\ 1 <= GridCells /\ GridCells <= MaxIterations
  /\ MaxIterations \in Nat /\ Focus \in Nat /\ CalldataMax \in Nat
  BY GridAssumption DEF GridCells

LEMMA SearchBounds ==
  ASSUME search \in Searches
  PROVE  /\ lower \in Nat /\ upper \in Nat /\ 1 <= lower /\ lower <= upper
         /\ upper <= CalldataMax
         /\ GridStep \in Nat /\ 1 <= GridStep
         /\ search.initial \in Nat
  <1>1. /\ lower \in Nat /\ upper \in Nat /\ 1 <= lower /\ lower <= upper
        /\ upper <= CalldataMax /\ search.initial \in Nat
    BY GridAssumption DEF lower, upper
  <1>2. upper - lower + 1 \in Nat /\ GridCells \in Nat \ {0}
    BY <1>1, GridConstants
  <1>3. (upper - lower + 1) \div GridCells \in Nat
    BY <1>2, DivAtMost
  <1> QED BY <1>1, <1>3 DEF GridStep

\* A cell does not reach beyond the upper bound.
LEMMA GridPointWithin ==
  ASSUME search \in Searches, NEW i \in Nat, NEW r \in Nat, InRange(i)
  PROVE  GridPoint(i, r) \in lower .. upper
  <1> DEFINE size == upper - lower + 1
             s    == GridStep
  <1>1. lower \in Nat /\ upper \in Nat /\ lower <= upper /\ s \in Nat /\ 1 <= s
    BY SearchBounds
  <1>2. size \in Nat /\ GridCells \in Nat /\ 1 <= GridCells /\ i < GridCells
    BY <1>1, GridConstants DEF InRange
  <1>3. r % s \in 0 .. s - 1
    BY <1>1
  <1>4. i * s \in Nat
    BY <1>1
  <1>5. lower + i * s + (r % s) <= upper
    <2>1. CASE size \div GridCells = 0
      <3>1. s = 1
        BY <2>1 DEF GridStep
      <3>2. r % s = 0
        BY <1>3, <3>1
      <3> QED BY <1>1, <1>4, <3>2 DEF InRange
    <2>2. CASE size \div GridCells # 0
      <3>1. s = size \div GridCells
        BY <2>2 DEF GridStep
      <3>2. GridCells * s <= size
        BY <1>2, <3>1, DivAtMost
      <3> HIDE DEF s
      <3>3. (i + 1) * s <= GridCells * s
        BY <1>1, <1>2, SMT
      <3>4. (i + 1) * s = i * s + s
        BY <1>1, SMT
      <3> QED BY <1>1, <1>2, <1>3, <1>4, <3>2, <3>3, <3>4
    <2> QED BY <2>1, <2>2
  <1> QED BY <1>1, <1>3, <1>4, <1>5 DEF GridPoint

-----------------------------------------------------------------------------
\* A profit is the word the contract answered with.
LEMMA DeltaStated ==
  ASSUME landscape \in Landscapes, NEW q \in 1 .. CalldataMax, Delta(q) > 0
  PROVE  /\ Output(landscape, q).kind \in {"revert", "success"}
         /\ Output(landscape, q).word = Delta(q) /\ Delta(q) \in Nat
  <1> DEFINE kind == Output(landscape, q).kind
             word == Output(landscape, q).word
  <1>1. word \in 0 .. WordMax /\ WordMax \in Nat /\ DeltaMax \in Nat
    BY GridAssumption
  <1>2. /\ kind = "revert" => Delta(q) = Signed(word)
        /\ kind = "success" /\ variant = "serial" =>
             Delta(q) = IF word <= DeltaMax THEN word ELSE 0
        /\ kind # "revert" /\ ~(kind = "success" /\ variant = "serial") => Delta(q) = 0
    BY DEF Delta
  <1> HIDE DEF kind, word
  <1>3. Signed(word) \in Int /\ (Signed(word) = word \/ Signed(word) <= 0)
    BY <1>1 DEF Signed
  <1>4. kind = "revert" \/ (kind = "success" /\ variant = "serial")
    BY <1>2
  <1>5. word = Delta(q)
    <2>1. CASE kind = "revert"
      BY <1>2, <1>3, <2>1
    <2>2. CASE kind = "success" /\ variant = "serial"
      BY <1>1, <1>2, <2>2
    <2> QED BY <1>4, <2>1, <2>2
  <1> QED BY <1>1, <1>4, <1>5 DEF kind, word

\* The comparison that every phase makes either leaves the best output alone or
\* improves it as the abstract search may.
LEMMA KeepImproves ==
  ASSUME InputInv, BestInv, NEW q \in 1 .. CalldataMax,
         best' = Keep(best, q), UNCHANGED landscape
  PROVE  BestInv' /\ [Search!Improve]_<<landscape, best>>
  <1>1. CASE ~Better(best, q)
    BY <1>1 DEF Keep, BestInv
  <1>2. CASE Better(best, q)
    <2>1. best' = Tested(q)
      BY <1>2 DEF Keep
    <2>2. /\ best'.qty = q /\ best'.delta = Delta(q)
          /\ best'.calldata = q % (CalldataMax + 1)
      BY <2>1, SMT DEF Tested
    <2>3. q % (CalldataMax + 1) = q
      BY GridConstants
    <2>4. /\ DeltaMax \in Nat /\ best.delta \in Nat
          /\ Delta(q) > best.delta /\ Delta(q) < DeltaMax \div 2
      BY <1>2, GridAssumption DEF Better, BestInv
    <2>5. Delta(q) \in Nat /\ Output(landscape, q).kind \in {"revert", "success"}
          /\ Output(landscape, q).word = Delta(q)
      <3>1. Delta(q) \in Int => Delta(q) > 0
        BY <2>4
      <3>2. Delta(q) \in Int
        BY GridAssumption DEF InputInv, Delta, Signed
      <3> QED BY <3>1, <3>2, DeltaStated DEF InputInv
    <2>6. BestInv'
      BY <2>2, <2>5 DEF BestInv
    <2> QED BY <2>2, <2>3, <2>4, <2>5, <2>6 DEF Search!Improve
  <1> QED BY <1>1, <1>2

-----------------------------------------------------------------------------
LEMMA GridInit == Init => GridInv
  <1> SUFFICES ASSUME Init PROVE GridInv
    OBVIOUS
  <1>1. search.initial \in Nat
    BY SearchBounds DEF Init
  <1>2. InputInv /\ WindowInv /\ BestInv
    BY <1>1 DEF Init, InputInv, WindowInv, BestInv
  <1>3. BatchInv /\ SpotsInv
    BY GridAssumption DEF Init, BatchInv, SpotsInv, MaxHotspots, Threads, Tests
  <1>4. CountInv
    BY GridConstants DEF Init, CountInv, FocusSteps
  <1> QED BY <1>2, <1>3, <1>4 DEF GridInv

LEMMA SameInput ==
  ASSUME UNCHANGED input
  PROVE  lower' = lower /\ upper' = upper /\ Threads' = Threads /\ GridStep' = GridStep
  BY DEF input, lower, upper, Threads, GridStep

\* The next hotspot, or what comes after the last.
LEMMA EnterInv ==
  ASSUME GridInv, NEW spots \in Seq(lower .. upper), Len(spots) <= MaxHotspots,
         Enter(spots), batch = << >>, UNCHANGED <<input, cell, batch, iterations, best>>
  PROVE  GridInv'
  <1>1. /\ lower \in Nat /\ upper \in Nat /\ 1 <= lower /\ lower <= upper
        /\ GridStep \in Nat /\ 1 <= GridStep
    BY SearchBounds DEF GridInv, InputInv
  <1>2. lower' = lower /\ upper' = upper /\ Threads' = Threads
    BY SameInput
  <1>3. hotspots' = spots /\ steps' = 0 /\ phase' \in {"explore", "done", "hotspots"}
    BY DEF Enter
  <1>4. ASSUME phase' = "hotspots"
        PROVE  spots # << >> /\ left' \in 1 .. upper /\ right' \in 1 .. upper
    <2>1. /\ spots # << >>
          /\ left'  = IF Head(spots) > 2 * GridStep THEN Head(spots) - 2 * GridStep ELSE lower
          /\ right' = IF Head(spots) + 2 * GridStep < upper
                        THEN Head(spots) + 2 * GridStep ELSE upper
      BY <1>4 DEF Enter
    <2>2. Head(spots) \in lower .. upper
      BY <2>1, HeadTail
    <2> QED BY <1>1, <2>1, <2>2
  <1>5. ASSUME phase' # "hotspots" PROVE UNCHANGED <<left, right>>
    BY <1>5 DEF Enter
  <1>6. left' \in Nat /\ right' \in Nat /\ WindowInv'
    BY <1>1, <1>2, <1>3, <1>4, <1>5 DEF WindowInv, GridInv, InputInv
  <1>7. InputInv' /\ BestInv'
    BY <1>3, <1>6 DEF GridInv, InputInv, BestInv, input
  <1>8. BatchInv' /\ SpotsInv'
    BY <1>2, <1>3 DEF GridInv, BatchInv, SpotsInv, Tests
  <1>9. CountInv'
    BY <1>3 DEF GridInv, CountInv, FocusSteps, input
  <1> QED BY <1>6, <1>7, <1>8, <1>9 DEF GridInv

\* A step that only moves the window, having tested its middle.
LEMMA MiddleWithin ==
  ASSUME GridInv, phase = "hotspots"
  PROVE  /\ Mid \in 1 .. upper /\ upper \in Nat /\ upper <= CalldataMax
         /\ left \in 1 .. upper /\ right \in 1 .. upper
         /\ Hotspot \in lower .. upper /\ lower \in Nat /\ 1 <= lower
         /\ GridStep \in Nat /\ 1 <= GridStep
  <1>1. /\ lower \in Nat /\ upper \in Nat /\ 1 <= lower /\ lower <= upper
        /\ upper <= CalldataMax /\ GridStep \in Nat /\ 1 <= GridStep
    BY SearchBounds DEF GridInv, InputInv
  <1>2. hotspots # << >> /\ left \in 1 .. upper /\ right \in 1 .. upper
    BY DEF GridInv, WindowInv
  <1>3. Mid \in 1 .. upper
    BY <1>1, <1>2 DEF Mid
  <1>4. Hotspot \in lower .. upper
    BY <1>2, HeadTail DEF Hotspot, GridInv, SpotsInv
  <1> QED BY <1>1, <1>2, <1>3, <1>4

-----------------------------------------------------------------------------
LEMMA LaunchInv == GridInv /\ Launch => GridInv'
  <1> SUFFICES ASSUME GridInv, Launch PROVE GridInv'
    OBVIOUS
  <1>1. PICK n \in 1 .. Threads :
          /\ \A i \in cell .. cell + n - 1 : InRange(i)
          /\ \E random \in [1 .. n -> RandomValues] :
               batch' = [i \in 1 .. n |->
                           [qty |-> GridPoint(cell + i - 1, random[i]), done |-> FALSE]]
          /\ cell' = cell + n /\ Count(n)
    BY DEF Launch
  <1>2. PICK random \in [1 .. n -> RandomValues] :
          batch' = [i \in 1 .. n |->
                      [qty |-> GridPoint(cell + i - 1, random[i]), done |-> FALSE]]
    BY <1>1
  <1>3. /\ UNCHANGED <<input, phase, hotspots, window, best>> /\ phase = "grid"
        /\ batch = << >>
    BY DEF Launch
  <1>4. /\ cell \in 0 .. GridCells /\ iterations \in Nat /\ Threads \in Nat
        /\ variant = "serial" => iterations = cell
    BY <1>3, GridAssumption DEF GridInv, CountInv, Threads
  <1>5. \A i \in 1 .. n : GridPoint(cell + i - 1, random[i]) \in lower .. upper
    <2> SUFFICES ASSUME NEW i \in 1 .. n
                 PROVE  GridPoint(cell + i - 1, random[i]) \in lower .. upper
      OBVIOUS
    <2>1. cell + i - 1 \in Nat /\ cell + i - 1 \in cell .. cell + n - 1
      BY <1>4
    <2>2. random[i] \in Nat
      BY GridAssumption
    <2>3. InRange(cell + i - 1)
      BY <1>1, <2>1
    <2> HIDE DEF GridPoint
    <2> QED BY <2>1, <2>2, <2>3, GridPointWithin DEF GridInv, InputInv
  <1>6. UNCHANGED <<lower, upper, Threads, GridStep>>
    BY <1>3, SameInput
  <1>7. BatchInv'
    <2>1. \A i \in 1 .. n :
            [qty |-> GridPoint(cell + i - 1, random[i]), done |-> FALSE] \in Tests
      BY <1>5 DEF Tests
    <2> HIDE DEF Tests
    <2>2. batch' \in [1 .. n -> Tests]
      BY <1>2, <2>1
    <2>3. n \in Nat /\ n <= Threads
      BY <1>4
    <2>4. batch' \in Seq(Tests) /\ Len(batch') = n
      BY <2>2, <2>3, FunctionIsSeq
    <2>5. Tests' = Tests
      BY <1>6 DEF Tests
    <2> QED BY <1>3, <1>6, <2>3, <2>4, <2>5 DEF BatchInv
  <1>8. CountInv'
    <2>1. InRange(cell + n - 1)
      BY <1>1, <1>4
    <2>2. cell' \in 0 .. GridCells
      BY <1>1, <1>4, <2>1, GridConstants DEF InRange
    <2>3. variant = "serial" => iterations' = cell'
      BY <1>1, <1>4 DEF Count
    <2>4. iterations' \in 0 .. MaxIterations
      BY <1>1, <2>2, <2>3, GridConstants DEF Count, GridInv, CountInv
    <2> QED BY <1>3, <2>2, <2>3, <2>4 DEF CountInv, GridInv, window, input
  <1>9. InputInv' /\ WindowInv' /\ SpotsInv' /\ BestInv'
    BY <1>3, <1>6 DEF GridInv, InputInv, WindowInv, SpotsInv, BestInv, input, window
  <1> QED BY <1>7, <1>8, <1>9 DEF GridInv

LEMMA FinishInv == ASSUME GridInv, NEW i \in DOMAIN batch, Finish(i) PROVE GridInv'
  <1>1. batch' = [batch EXCEPT ![i].done = TRUE]
        /\ UNCHANGED <<input, phase, cell, hotspots, window, iterations, best>>
    BY DEF Finish
  <1>2. UNCHANGED <<lower, upper, Threads>>
    BY <1>1, SameInput
  <1>3. BatchInv'
    <2>1. batch \in Seq(Tests) /\ Len(batch) <= Threads /\ i \in DOMAIN batch
      BY DEF GridInv, BatchInv
    <2>2. batch[i] \in Tests
      BY <2>1, ElementOf
    <2>3. [batch[i] EXCEPT !.done = TRUE] \in Tests
      BY <2>2 DEF Tests
    <2>4. batch' = [batch EXCEPT ![i] = [batch[i] EXCEPT !.done = TRUE]]
      BY <1>1
    <2>5. batch' \in Seq(Tests) /\ Len(batch') = Len(batch)
      BY <2>1, <2>3, <2>4, ReplaceElement
    <2>6. Tests' = Tests
      BY <1>2 DEF Tests
    <2>7. phase = "grid"
      BY <2>1 DEF GridInv, BatchInv
    <2> QED BY <1>1, <1>2, <2>1, <2>5, <2>6, <2>7 DEF BatchInv
  <1> QED BY <1>1, <1>2, <1>3 DEF GridInv, InputInv, WindowInv, SpotsInv, CountInv, BestInv,
                                 input, window

LEMMA CollectInv ==
  GridInv /\ Collect => GridInv' /\ [Search!Improve]_<<landscape, best>>
  <1> SUFFICES ASSUME GridInv, Collect
               PROVE  GridInv' /\ [Search!Improve]_<<landscape, best>>
    OBVIOUS
  <1> DEFINE q == Head(batch).qty
  <1>1. /\ batch # << >> /\ best' = Keep(best, q) /\ hotspots' = Remember(hotspots, q)
        /\ batch' = Tail(batch)
        /\ UNCHANGED <<input, phase, cell, window, iterations>>
    BY DEF Collect
  <1>11. phase = "grid"
    BY <1>1 DEF GridInv, BatchInv
  <1>2. UNCHANGED <<lower, upper, Threads>>
    BY <1>1, SameInput
  <1>3. /\ Head(batch) \in Tests /\ Tail(batch) \in Seq(Tests)
        /\ Len(Tail(batch)) = Len(batch) - 1 /\ Len(batch) \in Nat /\ Len(batch) <= Threads
    BY <1>1, HeadTail DEF GridInv, BatchInv
  <1>4. Threads \in Nat
    BY GridAssumption DEF Threads
  <1>5. q \in lower .. upper /\ Tests' = Tests
    BY <1>2, <1>3 DEF Tests
  <1> HIDE DEF q
  <1>6. q \in 1 .. CalldataMax
    BY <1>5, SearchBounds, GridConstants DEF GridInv, InputInv
  <1>7. BatchInv'
    BY <1>1, <1>2, <1>3, <1>4, <1>5, <1>11 DEF BatchInv
  <1>8. SpotsInv'
    BY <1>1, <1>2, <1>5, RememberWithin DEF GridInv, SpotsInv
  <1>9. UNCHANGED landscape
    BY <1>1 DEF input
  <1>10. BestInv' /\ [Search!Improve]_<<landscape, best>>
    BY <1>1, <1>6, <1>9, KeepImproves DEF GridInv
  <1>12. InputInv' /\ WindowInv' /\ CountInv'
    BY <1>1, <1>11 DEF GridInv, InputInv, WindowInv, CountInv, input, window
  <1> QED BY <1>7, <1>8, <1>10, <1>12 DEF GridInv

-----------------------------------------------------------------------------
LEMMA EndGridInv == GridInv /\ EndGrid => GridInv'
  <1> SUFFICES ASSUME GridInv, EndGrid PROVE GridInv'
    OBVIOUS
  <1>1. /\ Enter(hotspots) /\ batch = << >>
        /\ UNCHANGED <<input, cell, batch, iterations, best>>
    BY DEF EndGrid
  <1>2. hotspots \in Seq(lower .. upper) /\ Len(hotspots) <= MaxHotspots
    BY DEF GridInv, SpotsInv
  <1> QED BY <1>1, <1>2, EnterInv

LEMMA NextHotspotInv == GridInv /\ NextHotspot => GridInv'
  <1> SUFFICES ASSUME GridInv, NextHotspot PROVE GridInv'
    OBVIOUS
  <1>1. /\ Enter(Tail(hotspots)) /\ phase \in {"leave", "hotspots"}
        /\ UNCHANGED <<input, cell, batch, iterations, best>>
    BY DEF NextHotspot
  <1>2. hotspots # << >> /\ batch = << >>
    BY <1>1 DEF GridInv, WindowInv, BatchInv
  <1>3. hotspots \in Seq(lower .. upper) /\ Len(hotspots) <= MaxHotspots
    BY DEF GridInv, SpotsInv
  <1>4. Tail(hotspots) \in Seq(lower .. upper) /\ Len(Tail(hotspots)) <= MaxHotspots
    BY <1>2, <1>3, HeadTail, SMT DEF MaxHotspots
  <1> QED BY <1>1, <1>2, <1>4, EnterInv

\* What the steps around a hotspot have in common: they test the middle, keep the
\* hotspot, and leave the ends of the window within bounds.
LEMMA AroundHotspotInv ==
  ASSUME GridInv, phase = "hotspots", Probe, UNCHANGED <<input, cell, batch, hotspots>>,
         phase' \in {"hotspots", "leave"}, steps' \in 0 .. FocusSteps,
         left' \in 1 .. upper, right' \in 1 .. upper
  PROVE  GridInv' /\ [Search!Improve]_<<landscape, best>>
  <1>1. best' = Keep(best, Mid) /\ Count(1) /\ InBudget
    BY DEF Probe, Open
  <1>2. Mid \in 1 .. CalldataMax /\ upper \in Nat
    BY MiddleWithin, GridConstants
  <1>3. UNCHANGED <<lower, upper, Threads>> /\ UNCHANGED landscape
    BY SameInput DEF input
  <1>4. BestInv' /\ [Search!Improve]_<<landscape, best>>
    BY <1>1, <1>2, <1>3, KeepImproves DEF GridInv
  <1>5. InputInv'
    BY <1>2 DEF GridInv, InputInv, input
  <1>6. WindowInv'
    BY <1>3 DEF GridInv, WindowInv
  <1>7. BatchInv' /\ SpotsInv'
    BY <1>3 DEF GridInv, BatchInv, SpotsInv, Tests
  <1>8. CountInv'
    <2>1. iterations \in Nat /\ MaxIterations \in Nat /\ iterations <= MaxIterations
      BY GridConstants DEF GridInv, CountInv
    <2>2. iterations' \in 0 .. MaxIterations
      BY <1>1, <2>1 DEF Count, InBudget
    <2> QED BY <2>2 DEF GridInv, CountInv, input
  <1> QED BY <1>4, <1>5, <1>6, <1>7, <1>8 DEF GridInv

\* A window that is not closed has room beside its middle, inside out or not.
LEMMA RoomBesideMiddle ==
  ASSUME GridInv, phase = "hotspots", Open
  PROVE  Mid + 1 \in 1 .. upper
  <1>1. /\ left \in Nat /\ right \in Nat /\ upper \in Nat /\ Mid \in Nat
        /\ 1 <= left /\ left <= upper /\ 1 <= right /\ right <= upper
    BY MiddleWithin
  <1>2. left # right
    <2> SUFFICES ASSUME left = right PROVE FALSE
      OBVIOUS
    <2>1. WordMax \in Nat
      BY GridAssumption
    <2>2. (right - left) % (WordMax + 1) = 0
      BY <1>1, <2>1
    <2> QED BY <2>2 DEF Open, Width
  <1>3. Mid = (left + right) \div 2
    BY DEF Mid
  <1> QED BY <1>1, <1>2, <1>3

LEMMA FocusWithin ==
  ASSUME GridInv, phase = "hotspots", FocusOnMid
  PROVE  left' \in 1 .. upper /\ right' \in 1 .. upper
  <1>1. /\ left' = left \/ (Mid > Focus /\ left' = Mid - Focus)
        /\ right' = right \/ (Mid + Focus < right /\ right' = Mid + Focus)
    BY DEF FocusOnMid
  <1> HIDE DEF Mid
  <1> QED BY <1>1, MiddleWithin, GridConstants

LEMMA StepsKept == GridInv => steps \in 0 .. FocusSteps
  BY DEF GridInv, CountInv

LEMMA ImproveInv ==
  GridInv /\ Improve => GridInv' /\ [Search!Improve]_<<landscape, best>>
  <1> SUFFICES ASSUME GridInv, Improve
               PROVE  GridInv' /\ [Search!Improve]_<<landscape, best>>
    OBVIOUS
  <1>1. /\ phase = "hotspots" /\ Probe /\ FocusOnMid
        /\ UNCHANGED <<input, phase, cell, batch, hotspots, steps>>
    BY DEF Improve, Searching
  <1> QED BY <1>1, FocusWithin, StepsKept, AroundHotspotInv

LEMMA WanderInv ==
  GridInv /\ Wander => GridInv' /\ [Search!Improve]_<<landscape, best>>
  <1> SUFFICES ASSUME GridInv, Wander
               PROVE  GridInv' /\ [Search!Improve]_<<landscape, best>>
    OBVIOUS
  <1>1. /\ phase = "hotspots" /\ Probe
        /\ (right' = Mid /\ left' = left) \/ (left' = Mid + 1 /\ right' = right)
        /\ UNCHANGED <<input, phase, cell, batch, hotspots, steps>>
    BY DEF Wander, Searching
  <1>2. Open
    BY <1>1 DEF Probe
  <1>3. left' \in 1 .. upper /\ right' \in 1 .. upper
    BY <1>1, <1>2, MiddleWithin, RoomBesideMiddle
  <1> QED BY <1>1, <1>3, StepsKept, AroundHotspotInv

LEMMA JumpInv ==
  GridInv /\ Jump => GridInv' /\ [Search!Improve]_<<landscape, best>>
  <1> SUFFICES ASSUME GridInv, Jump
               PROVE  GridInv' /\ [Search!Improve]_<<landscape, best>>
    OBVIOUS
  <1>1. /\ phase = "hotspots" /\ Probe
        /\ left'  = IF Hotspot > GridStep THEN Hotspot - GridStep ELSE left
        /\ right' = IF Hotspot + GridStep < upper THEN Hotspot + GridStep ELSE right
        /\ UNCHANGED <<input, phase, cell, batch, hotspots, steps>>
    BY DEF Jump, Searching
  <1> HIDE DEF Hotspot, GridStep
  <1>2. left' \in 1 .. upper /\ right' \in 1 .. upper
    BY <1>1, MiddleWithin
  <1> QED BY <1>1, <1>2, StepsKept, AroundHotspotInv

LEMMA GiveUpInv ==
  GridInv /\ GiveUp => GridInv' /\ [Search!Improve]_<<landscape, best>>
  <1> SUFFICES ASSUME GridInv, GiveUp
               PROVE  GridInv' /\ [Search!Improve]_<<landscape, best>>
    OBVIOUS
  <1>1. /\ phase = "hotspots" /\ Probe /\ phase' = "leave"
        /\ UNCHANGED <<input, cell, batch, hotspots, left, right, steps>>
    BY DEF GiveUp, Searching, window
  <1>2. left' \in 1 .. upper /\ right' \in 1 .. upper
    BY <1>1, MiddleWithin
  <1> QED BY <1>1, <1>2, StepsKept, AroundHotspotInv

LEMMA StepParallelInv ==
  GridInv /\ StepParallel => GridInv' /\ [Search!Improve]_<<landscape, best>>
  <1> SUFFICES ASSUME GridInv, StepParallel
               PROVE  GridInv' /\ [Search!Improve]_<<landscape, best>>
    OBVIOUS
  <1>1. /\ phase = "hotspots" /\ variant = "parallel" /\ Probe /\ steps' = steps + 1
        /\ (FocusOnMid /\ phase' = phase)
             \/ (phase' = "leave" /\ left' = left /\ right' = right)
        /\ UNCHANGED <<input, cell, batch, hotspots>>
    BY DEF StepParallel, Searching
  <1>2. left' \in 1 .. upper /\ right' \in 1 .. upper
    BY <1>1, FocusWithin, MiddleWithin
  <1>3. steps < FocusSteps
    BY <1>1 DEF Probe, Open, InBudget
  <1>4. steps' \in 0 .. FocusSteps
    BY <1>1, <1>3, StepsKept DEF FocusSteps
  <1> QED BY <1>1, <1>2, <1>4, AroundHotspotInv

LEMMA ExploreInv ==
  GridInv /\ Explore => GridInv' /\ [Search!Improve]_<<landscape, best>>
  <1> SUFFICES ASSUME GridInv, Explore
               PROVE  GridInv' /\ [Search!Improve]_<<landscape, best>>
    OBVIOUS
  <1>1. PICK r \in RandomValues : best' = Keep(best, lower + (r % (upper - lower + 1)))
    BY DEF Explore
  <1>2. /\ phase = "explore" /\ iterations < MaxIterations /\ iterations' = iterations + 1
        /\ UNCHANGED <<input, phase, cell, batch, hotspots, window>>
    BY DEF Explore
  <1>3. /\ lower \in Nat /\ upper \in Nat /\ 1 <= lower /\ lower <= upper
        /\ upper <= CalldataMax /\ CalldataMax \in Nat
    BY SearchBounds, GridConstants DEF GridInv, InputInv
  <1>4. r \in Nat
    BY GridAssumption
  <1>5. r % (upper - lower + 1) \in 0 .. upper - lower
    BY <1>3, <1>4
  <1>6. lower + (r % (upper - lower + 1)) \in 1 .. CalldataMax
    BY <1>3, <1>5
  <1>7. UNCHANGED <<lower, upper, Threads>> /\ UNCHANGED landscape
    BY <1>2, SameInput DEF input
  <1>8. BestInv' /\ [Search!Improve]_<<landscape, best>>
    BY <1>1, <1>6, <1>7, KeepImproves DEF GridInv
  <1>9. InputInv' /\ WindowInv' /\ BatchInv' /\ SpotsInv'
    BY <1>2, <1>7 DEF GridInv, InputInv, WindowInv, BatchInv, SpotsInv, Tests, input, window
  <1>10. CountInv'
    BY <1>2, GridConstants DEF GridInv, CountInv, input, window
  <1> QED BY <1>8, <1>9, <1>10 DEF GridInv

LEMMA ReturnInv == GridInv /\ Return => GridInv'
  BY SameInput DEF Return, GridInv, InputInv, WindowInv, BatchInv, SpotsInv, CountInv, BestInv,
                   Tests, input, window

LEMMA GridStutter == GridInv /\ UNCHANGED vars => GridInv'
  BY SameInput DEF vars, GridInv, InputInv, WindowInv, BatchInv, SpotsInv, CountInv, BestInv,
                   Tests, input, window

-----------------------------------------------------------------------------
\* Every step keeps the invariant, and leaves the best output alone or improves it.
LEMMA GridStepInv ==
  GridInv /\ [Next]_vars => GridInv' /\ [Search!Improve]_<<landscape, best>>
  <1> SUFFICES ASSUME GridInv, [Next]_vars
               PROVE  GridInv' /\ [Search!Improve]_<<landscape, best>>
    OBVIOUS
  <1> DEFINE Kept == UNCHANGED <<landscape, best>>
  <1>1. CASE Launch
    <2>1. Kept BY <1>1 DEF Launch, input
    <2> QED BY <1>1, <2>1, LaunchInv
  <1>2. CASE \E i \in DOMAIN batch : Finish(i)
    <2>1. Kept BY <1>2 DEF Finish, input
    <2> QED BY <1>2, <2>1, FinishInv
  <1>3. CASE EndGrid
    <2>1. Kept BY <1>3 DEF EndGrid, input
    <2> QED BY <1>3, <2>1, EndGridInv
  <1>4. CASE NextHotspot
    <2>1. Kept BY <1>4 DEF NextHotspot, input
    <2> QED BY <1>4, <2>1, NextHotspotInv
  <1>5. CASE Return
    <2>1. Kept BY <1>5 DEF Return, input
    <2> QED BY <1>5, <2>1, ReturnInv
  <1>6. CASE UNCHANGED vars
    <2>1. Kept BY <1>6 DEF vars, input
    <2> QED BY <1>6, <2>1, GridStutter
  <1>7. CASE Collect \/ Improve \/ Wander \/ Jump \/ GiveUp \/ StepParallel \/ Explore
    BY <1>7, CollectInv, ImproveInv, WanderInv, JumpInv, GiveUpInv, StepParallelInv,
       ExploreInv
  <1> QED BY <1>1, <1>2, <1>3, <1>4, <1>5, <1>6, <1>7 DEF Next, Grid, Hotspots

\* Between hotspots, and around one, a window keeps its ends in order unless the serial
\* search jumps back.
LEMMA EnterKeepsOrder ==
  ASSUME GridInv, NEW spots \in Seq(lower .. upper), Enter(spots), left <= right
  PROVE  left' <= right'
  <1>1. /\ lower \in Nat /\ upper \in Nat /\ lower <= upper /\ GridStep \in Nat
        /\ left \in Nat /\ right \in Nat
    BY SearchBounds DEF GridInv, InputInv
  <1>2. CASE UNCHANGED <<left, right>>
    BY <1>1, <1>2
  <1>3. CASE ~UNCHANGED <<left, right>>
    <2>1. /\ spots # << >>
          /\ left'  = IF Head(spots) > 2 * GridStep THEN Head(spots) - 2 * GridStep ELSE lower
          /\ right' = IF Head(spots) + 2 * GridStep < upper
                        THEN Head(spots) + 2 * GridStep ELSE upper
      BY <1>3 DEF Enter
    <2>2. Head(spots) \in lower .. upper
      BY <2>1, HeadTail
    <2> QED BY <1>1, <2>1, <2>2
  <1> QED BY <1>2, <1>3

LEMMA FocusKeepsOrder ==
  ASSUME GridInv, phase = "hotspots", FocusOnMid, left <= right
  PROVE  left' <= right'
  <1>1. /\ left' = left \/ left' = Mid - Focus
        /\ right' = right \/ right' = Mid + Focus
    BY DEF FocusOnMid
  <1>2. /\ left \in Nat /\ right \in Nat /\ Mid = (left + right) \div 2 /\ Focus \in Nat
    BY MiddleWithin, GridConstants DEF Mid
  <1>3. left <= Mid /\ Mid <= right /\ Mid \in Nat
    BY <1>2
  <1> QED BY <1>1, <1>2, <1>3

LEMMA WanderKeepsOrder ==
  ASSUME GridInv, Wander, left <= right
  PROVE  left' <= right'
  <1>1. /\ phase = "hotspots" /\ Open
        /\ (right' = Mid /\ left' = left) \/ (left' = Mid + 1 /\ right' = right)
    BY DEF Wander, Searching, Probe
  <1>2. /\ left \in Nat /\ right \in Nat /\ Mid = (left + right) \div 2
    BY <1>1, MiddleWithin DEF Mid
  <1>3. left # right
    <2> SUFFICES ASSUME left = right PROVE FALSE
      OBVIOUS
    <2>1. WordMax \in Nat
      BY GridAssumption
    <2>2. (right - left) % (WordMax + 1) = 0
      BY <1>2, <2>1
    <2> QED BY <1>1, <2>2 DEF Open, Width
  <1> QED BY <1>1, <1>2, <1>3

\* The bounds on everything that is to be tested: inductive, in both searches.
THEOREM GridInvariant == Spec => []GridInv
  BY GridInit, GridStepInv, PTL DEF Spec

\* The variables have their types, and the serial search keeps to its budget: the
\* grid takes two fifths of it, one test a cell, and no loop starts beyond it.
THEOREM GridTypeOK == Spec => []TypeOK
  <1>1. GridInv => TypeOK
    BY DEF GridInv, InputInv, BatchInv, SpotsInv, CountInv, BestInv, TypeOK
  <1> QED BY <1>1, GridInvariant, PTL

\* Whatever the contract answers, and also after a window has turned inside out, every
\* quantity tested is one that three bytes of calldata hold.
THEOREM GridEncodable == Spec => []QuantityEncodable
  <1>1. GridInv => QuantityEncodable
    <2> SUFFICES ASSUME GridInv PROVE QuantityEncodable
      OBVIOUS
    <2>1. ASSUME NEW i \in DOMAIN batch PROVE batch[i].qty \in lower .. upper
      <3>1. batch[i] \in Tests
        BY ElementOf DEF GridInv, BatchInv
      <3> QED BY <3>1 DEF Tests
    <2> QED BY <2>1, MiddleWithin DEF QuantityEncodable
  <1> QED BY <1>1, GridInvariant, PTL

\* Both searches implement QuantitySearch: what they return the contract stated, for the
\* quantity returned, and they give it up only for more.
THEOREM GridImplementsSearch == Spec => ImplementsSearch
  <1>1. Init => Search!SearchInit
    BY SMT DEF Init, Search!SearchInit
  <1>2. Spec => [][Search!Improve]_<<landscape, best>>
    BY GridInvariant, GridStepInv, PTL DEF Spec
  <1> QED BY <1>1, <1>2, PTL DEF Spec, ImplementsSearch, Search!SearchSpec

\* A window turns inside out only in a jump of the serial search; the parallel search,
\* which never jumps, never wraps around.
THEOREM GridInsideOut == Spec => InsideOutOnlyByJump
  <1>1. GridInv /\ [Next]_vars => [left <= right /\ left' > right' => Jump]_vars
    <2> SUFFICES ASSUME GridInv, Next, left <= right, left' > right', ~Jump PROVE FALSE
      OBVIOUS
    <2>1. left \in Nat /\ right \in Nat
      BY DEF GridInv, InputInv
    <2>2. hotspots \in Seq(lower .. upper)
      BY DEF GridInv, SpotsInv
    <2>3. left' <= right' => FALSE
      <3>1. ASSUME left' <= right' PROVE left' \in Int /\ right' \in Int
        BY GridStepInv DEF GridInv, InputInv
      <3> QED BY <3>1
    <2>4. CASE UNCHANGED window
      BY <2>1, <2>3, <2>4 DEF window
    <2>5. CASE EndGrid
      BY <2>2, <2>3, <2>5, EnterKeepsOrder DEF EndGrid
    <2>6. CASE NextHotspot
      <3>1. hotspots # << >>
        BY <2>6 DEF NextHotspot, GridInv, WindowInv
      <3>2. Tail(hotspots) \in Seq(lower .. upper)
        BY <2>2, <3>1, HeadTail
      <3> QED BY <2>3, <2>6, <3>2, EnterKeepsOrder DEF NextHotspot
    <2>7. CASE Improve
      BY <2>3, <2>7, FocusKeepsOrder DEF Improve, Searching
    <2>8. CASE Wander
      BY <2>3, <2>8, WanderKeepsOrder
    <2>9. CASE StepParallel
      <3>1. FocusOnMid \/ UNCHANGED <<left, right>>
        BY <2>9 DEF StepParallel
      <3> QED BY <2>1, <2>3, <2>9, <3>1, FocusKeepsOrder DEF StepParallel, Searching
    <2>10. CASE Launch \/ (\E i \in DOMAIN batch : Finish(i)) \/ Collect \/ GiveUp
                \/ Explore \/ Return
      BY <2>4, <2>10 DEF Launch, Finish, Collect, GiveUp, Explore, Return
    <2> QED BY <2>5, <2>6, <2>7, <2>8, <2>9, <2>10 DEF Next, Grid, Hotspots
  <1> QED BY <1>1, GridInvariant, PTL DEF Spec, InsideOutOnlyByJump
-----------------------------------------------------------------------------
(* Every step uses something up.                                             *)

LEMMA RunningFinite ==
  GridInv => IsFiniteSet(Running) /\ Cardinality(Running) \in Nat
                                  /\ Cardinality(Running) <= Len(batch)
  <1> SUFFICES ASSUME GridInv
               PROVE  IsFiniteSet(Running) /\ Cardinality(Running) \in Nat
                                           /\ Cardinality(Running) <= Len(batch)
    OBVIOUS
  <1>1. Len(batch) \in Nat /\ Running \subseteq 1 .. Len(batch)
    BY DEF GridInv, BatchInv, Running
  <1>2. IsFiniteSet(1 .. Len(batch)) /\ Cardinality(1 .. Len(batch)) = Len(batch)
    BY <1>1, FS_Interval
  <1>3. IsFiniteSet(Running) /\ Cardinality(Running) <= Cardinality(1 .. Len(batch))
    BY <1>1, <1>2, FS_Subset
  <1> QED BY <1>2, <1>3, FS_CardinalityType

PartsInv ==
  /\ cell \in 0 .. GridCells /\ iterations \in 0 .. MaxIterations
  /\ Len(batch) \in Nat /\ Len(hotspots) \in Nat
  /\ Cardinality(Running) \in 0 .. Len(batch)
  /\ Ahead \in Nat

LEMMA Parts == GridInv => PartsInv
  <1> SUFFICES ASSUME GridInv PROVE PartsInv
    OBVIOUS
  <1>1. Len(batch) \in Nat /\ Len(hotspots) \in Nat
    BY DEF GridInv, BatchInv, SpotsInv
  <1>2. Ahead \in Nat
    BY DEF GridInv, CountInv, InputInv, Ahead, FocusSteps
  <1>3. Cardinality(Running) \in 0 .. Len(batch)
    BY <1>1, RunningFinite
  <1> QED BY <1>1, <1>2, <1>3 DEF PartsInv, GridInv, CountInv

LEMMA PartsNext == GridInv' => PartsInv'
  BY Parts, PTL

\* What a step does to the sum: cells drawn, quantities launched, threads started,
\* hotspots gained, tests counted, and the way through the phases.
Sum(cells, tests, threads, spots, tested, way) ==
  10 * tests + threads + 9 * spots + way - 12 * cells - tested

Change ==
  Sum(cell' - cell, Len(batch') - Len(batch), Cardinality(Running') - Cardinality(Running),
      Len(hotspots') - Len(hotspots), iterations' - iterations, Ahead' - Ahead)

LEMMA LeftLess ==
  ASSUME GridInv, GridInv', Change < 0
  PROVE  Left' < Left
  <1>1. /\ cell \in Int /\ Len(batch) \in Int /\ Cardinality(Running) \in Int
        /\ Len(hotspots) \in Int /\ iterations \in Int /\ Ahead \in Int
    BY Parts, GridConstants DEF PartsInv
  <1>2. /\ cell' \in Int /\ Len(batch') \in Int /\ Cardinality(Running') \in Int
        /\ Len(hotspots') \in Int /\ iterations' \in Int /\ Ahead' \in Int
    BY PartsNext, GridConstants DEF PartsInv
  <1>3. PICK c \in Int, b \in Int, r \in Int, h \in Int, m \in Int, a \in Int :
          /\ c = cell /\ b = Len(batch) /\ r = Cardinality(Running)
          /\ h = Len(hotspots) /\ m = iterations /\ a = Ahead
    BY <1>1
  <1>4. PICK c1 \in Int, b1 \in Int, r1 \in Int, h1 \in Int, m1 \in Int, a1 \in Int :
          /\ c1 = cell' /\ b1 = Len(batch') /\ r1 = Cardinality(Running')
          /\ h1 = Len(hotspots') /\ m1 = iterations' /\ a1 = Ahead'
    BY <1>2
  <1>5. PICK cells \in Int, most \in Int : cells = GridCells /\ most = MaxIterations
    BY GridConstants
  <1>6. /\ Left  = 12 * (cells - c) + 10 * b + r + 9 * h + (most - m) + a
        /\ Left' = 12 * (cells - c1) + 10 * b1 + r1 + 9 * h1 + (most - m1) + a1
    BY <1>3, <1>4, <1>5 DEF Left, GridCells
  <1>7. 10 * (b1 - b) + (r1 - r) + 9 * (h1 - h) + (a1 - a) - 12 * (c1 - c) - (m1 - m) < 0
    BY <1>3, <1>4 DEF Change, Sum
  <1> QED BY <1>6, <1>7

LEMMA LaunchLess == ASSUME GridInv, GridInv', Launch PROVE Left' < Left
  <1>1. PICK n \in 1 .. Threads :
          /\ \E random \in [1 .. n -> RandomValues] :
               batch' = [i \in 1 .. n |->
                           [qty |-> GridPoint(cell + i - 1, random[i]), done |-> FALSE]]
          /\ cell' = cell + n /\ Count(n)
    BY DEF Launch
  <1>2. n \in Nat /\ 1 <= n
    BY GridAssumption DEF Threads
  <1>3. Len(batch') = n
    <2>1. batch' = [i \in 1 .. n |-> batch'[i]]
      BY <1>1
    <2> QED BY <1>2, <2>1
  <1>4. /\ batch = << >> /\ hotspots' = hotspots /\ phase' = phase /\ steps' = steps
        /\ iterations' = iterations \/ iterations' = iterations + n
    BY <1>1 DEF Launch, Count, window
  <1>5. Cardinality(Running') \in 0 .. Len(batch')
    BY PartsNext DEF PartsInv
  <1>6. Running = {} /\ Cardinality(Running) = 0
    BY <1>4, FS_EmptySet DEF Running
  <1>7. Ahead' = Ahead
    BY <1>4 DEF Ahead
  <1>8. Len(batch) = 0 /\ Len(hotspots') = Len(hotspots)
    BY <1>4
  <1>9. Change < 0
    <2>1. PICK r \in Int : r = Cardinality(Running') - Cardinality(Running) /\ r <= n
      BY <1>2, <1>3, <1>5, <1>6
    <2>2. PICK m \in Int : m = iterations' - iterations /\ m >= 0
      BY <1>2, <1>4, Parts, GridConstants DEF PartsInv
    <2>3. /\ cell' - cell = n /\ Len(batch') - Len(batch) = n
          /\ Len(hotspots') - Len(hotspots) = 0
      BY <1>1, <1>2, <1>3, <1>8, Parts, GridConstants DEF PartsInv
    <2>4. Ahead' - Ahead = 0
      BY <1>7, Parts DEF PartsInv
    <2>5. Change = Sum(n, n, r, 0, m, 0)
      BY <2>1, <2>2, <2>3, <2>4, Zenon DEF Change
    <2>6. Sum(n, n, r, 0, m, 0) < 0
      BY <1>2, <2>1, <2>2 DEF Sum
    <2> QED BY <2>5, <2>6, Zenon
  <1> QED BY <1>9, LeftLess

LEMMA FinishLess ==
  ASSUME GridInv, GridInv', NEW i \in DOMAIN batch, Finish(i)
  PROVE  Left' < Left
  <1>1. /\ ~batch[i].done /\ batch' = [batch EXCEPT ![i].done = TRUE]
        /\ UNCHANGED <<phase, cell, hotspots, steps, iterations>>
    BY DEF Finish, window
  <1>2. Len(batch') = Len(batch) /\ DOMAIN batch' = DOMAIN batch
    BY <1>1 DEF GridInv, BatchInv
  <1>3. Running' = Running \ {i} /\ i \in Running
    <2>1. \A j \in DOMAIN batch : j # i => batch'[j] = batch[j]
      BY <1>1
    <2>2. batch'[i].done
      <3>1. batch[i] \in Tests
        BY ElementOf DEF GridInv, BatchInv
      <3>2. batch'[i] = [batch[i] EXCEPT !.done = TRUE]
        BY <1>1
      <3> QED BY <3>1, <3>2 DEF Tests
    <2> QED BY <1>1, <1>2, <2>1, <2>2, Zenon DEF Running
  <1>4. Cardinality(Running') = Cardinality(Running) - 1
    BY <1>3, RunningFinite, FS_RemoveElement
  <1>5. Ahead' = Ahead
    BY <1>1 DEF Ahead
  <1>6. Change < 0
    BY <1>1, <1>2, <1>4, <1>5, Parts DEF Change, Sum, PartsInv
  <1> QED BY <1>6, LeftLess

LEMMA CollectLess == ASSUME GridInv, GridInv', Collect PROVE Left' < Left
  <1>1. /\ batch # << >> /\ \A i \in DOMAIN batch : batch[i].done
        /\ batch' = Tail(batch) /\ hotspots' = Remember(hotspots, Head(batch).qty)
        /\ UNCHANGED <<phase, cell, steps, iterations>>
    BY DEF Collect, window
  <1>2. batch \in Seq(Tests)
    BY DEF GridInv, BatchInv
  <1>3. Len(batch') = Len(batch) - 1
    BY <1>1, <1>2, HeadTail
  <1>4. Running = {}
    BY <1>1 DEF Running
  <1>5. Running' = {}
    <2>1. \A i \in DOMAIN batch' : i + 1 \in DOMAIN batch /\ batch'[i] = batch[i + 1]
      BY <1>1, <1>2
    <2> QED BY <1>1, <2>1 DEF Running
  <1>6. Cardinality(Running) = Cardinality(Running')
    BY <1>4, <1>5
  <1>7. Len(hotspots') = Len(hotspots) \/ Len(hotspots') = Len(hotspots) + 1
    BY <1>1 DEF Remember, GridInv, SpotsInv
  <1>8. Ahead' = Ahead
    BY <1>1 DEF Ahead
  <1>9. Change < 0
    BY <1>1, <1>3, <1>6, <1>7, <1>8, Parts, PartsNext DEF Change, Sum, PartsInv
  <1> QED BY <1>9, LeftLess

\* A window that is entered, or the phase after it, is nearer to the end than the grid,
\* and no further from it than a hotspot's share.
LEMMA EnterAhead ==
  ASSUME NEW spots, Enter(spots)
  PROVE  Ahead' \in Nat /\ Ahead' <= FocusSteps + 3
  BY DEF Enter, Ahead, FocusSteps

LEMMA EndGridLess == ASSUME GridInv, GridInv', EndGrid PROVE Left' < Left
  <1>1. /\ phase = "grid" /\ hotspots' = hotspots /\ UNCHANGED <<cell, batch, iterations>>
    BY DEF EndGrid, Enter
  <1>2. Ahead = FocusSteps + 4
    BY <1>1 DEF Ahead
  <1>3. Ahead' \in Nat /\ Ahead' <= FocusSteps + 3
    BY EnterAhead DEF EndGrid
  <1>4. Cardinality(Running') = Cardinality(Running)
    BY <1>1 DEF Running
  <1>5. Change < 0
    BY <1>1, <1>2, <1>3, <1>4, Parts DEF Change, Sum, PartsInv, FocusSteps
  <1> QED BY <1>5, LeftLess

LEMMA NextHotspotLess == ASSUME GridInv, GridInv', NextHotspot PROVE Left' < Left
  <1>1. /\ phase \in {"hotspots", "leave"} /\ hotspots' = Tail(hotspots)
        /\ UNCHANGED <<cell, batch, iterations>>
    BY DEF NextHotspot, Enter
  <1>2. Len(hotspots') = Len(hotspots) - 1
    BY <1>1, HeadTail DEF GridInv, WindowInv, SpotsInv
  <1>3. Ahead' \in Nat /\ Ahead' <= FocusSteps + 3 /\ Ahead >= 2
    BY <1>1, EnterAhead DEF NextHotspot, Ahead, GridInv, CountInv, FocusSteps
  <1>4. Cardinality(Running') = Cardinality(Running)
    BY <1>1 DEF Running
  <1>5. Ahead' - Ahead \in Int /\ Ahead' - Ahead <= 6
    BY <1>3, Parts DEF PartsInv, FocusSteps
  <1>6. Change < 0
    <2>1. /\ cell' - cell = 0 /\ Len(batch') - Len(batch) = 0 /\ iterations' - iterations = 0
          /\ Cardinality(Running') - Cardinality(Running) = 0
          /\ Len(hotspots') - Len(hotspots) = -1
      BY <1>1, <1>2, <1>4, Parts, GridConstants DEF PartsInv
    <2>2. Change = Sum(0, 0, 0, -1, 0, Ahead' - Ahead)
      BY <2>1, Zenon DEF Change
    <2>3. \A a \in Int : a <= 6 => Sum(0, 0, 0, -1, 0, a) < 0
      BY DEF Sum
    <2> QED BY <1>5, <2>2, <2>3, Zenon
  <1> QED BY <1>6, LeftLess

\* A test uses up the budget of its search.
LEMMA ProbeLess ==
  ASSUME GridInv, GridInv', Improve \/ Wander \/ Jump \/ GiveUp \/ StepParallel \/ Explore
  PROVE  Left' < Left
  <1>1. UNCHANGED <<cell, batch, hotspots>>
    BY DEF Improve, Wander, Jump, GiveUp, StepParallel, Explore
  <1>2. Cardinality(Running') = Cardinality(Running)
    BY <1>1 DEF Running
  <1>3. CASE Improve \/ Wander \/ Jump \/ GiveUp \/ Explore
    <2>1. iterations' = iterations + 1
      BY <1>3 DEF Improve, Wander, Jump, GiveUp, Explore, Probe, Count, Searching
    <2>2. Ahead' <= Ahead
      BY <1>3 DEF Improve, Wander, Jump, GiveUp, Explore, Searching, Ahead, window, GridInv,
                  CountInv, FocusSteps
    <2>3. Change < 0
      BY <1>1, <1>2, <2>1, <2>2, Parts, PartsNext DEF Change, Sum, PartsInv
    <2> QED BY <2>3, LeftLess
  <1>4. CASE StepParallel
    <2>1. iterations' = iterations
      BY <1>4 DEF StepParallel, Probe, Count, Searching
    <2>2. steps' = steps + 1 /\ phase = "hotspots" /\ phase' \in {"hotspots", "leave"}
          /\ steps < FocusSteps
      BY <1>4 DEF StepParallel, Searching, Probe, Open, InBudget
    <2>3. Ahead' < Ahead
      BY <2>2 DEF Ahead, GridInv, CountInv, FocusSteps
    <2>4. Change < 0
      BY <1>1, <1>2, <2>1, <2>3, Parts, PartsNext DEF Change, Sum, PartsInv
    <2> QED BY <2>4, LeftLess
  <1> QED BY <1>3, <1>4

LEMMA ReturnLess == ASSUME GridInv, GridInv', Return PROVE Left' < Left
  <1>1. /\ phase = "explore" /\ phase' = "done"
        /\ UNCHANGED <<cell, batch, hotspots, iterations>>
    BY DEF Return
  <1>2. Ahead = 1 /\ Ahead' = 0 /\ Cardinality(Running') = Cardinality(Running)
    BY <1>1 DEF Ahead, Running
  <1>3. Change < 0
    BY <1>1, <1>2, Parts DEF Change, Sum, PartsInv
  <1> QED BY <1>3, LeftLess

\* No search goes on for ever, however its windows turn and its threads return: what is
\* left to do is a number that every step makes smaller, and it begins at a known one,
\* which bounds the steps.  (That a search is not stuck before its end is the rest of
\* SearchEnds.)
THEOREM GridStepsBounded ==
  Spec => /\ [](Left \in 0 .. 12 * GridCells + MaxIterations + FocusSteps + 4)
          /\ [][Left' < Left]_vars
  <1> DEFINE Most == 12 * GridCells + MaxIterations + FocusSteps + 4
  <1>1. Init => Left = Most
    <2> SUFFICES ASSUME Init PROVE Left = Most
      OBVIOUS
    <2>1. Running = {} /\ Len(batch) = 0 /\ Len(hotspots) = 0
      BY DEF Init, Running
    <2>2. Cardinality(Running) = 0
      BY <2>1, FS_EmptySet
    <2> QED BY <2>1, <2>2, GridConstants DEF Left, Init, Ahead, FocusSteps
  <1>2. GridInv /\ [Next]_vars => [Left' < Left]_vars
    BY GridStepInv, LaunchLess, FinishLess, CollectLess, EndGridLess, NextHotspotLess, ProbeLess, ReturnLess
       DEF Next, Grid, Hotspots
  <1>3. GridInv => Left \in Nat
    <2> SUFFICES ASSUME GridInv PROVE Left \in Nat
      OBVIOUS
    <2>1. Left = 12 * (GridCells - cell) + 10 * Len(batch) + Cardinality(Running)
                   + 9 * Len(hotspots) + (MaxIterations - iterations) + Ahead
      BY DEF Left
    <2>2. /\ GridCells - cell \in Nat /\ Len(batch) \in Nat /\ Len(hotspots) \in Nat
          /\ Cardinality(Running) \in Nat /\ MaxIterations - iterations \in Nat
          /\ Ahead \in Nat
      BY Parts, GridConstants DEF PartsInv
    <2>3. PICK c \in Nat, b \in Nat, r \in Nat, h \in Nat, m \in Nat, a \in Nat :
            /\ c = GridCells - cell /\ b = Len(batch) /\ r = Cardinality(Running)
            /\ h = Len(hotspots) /\ m = MaxIterations - iterations /\ a = Ahead
      BY <2>2
    <2>4. Left = 12 * c + 10 * b + r + 9 * h + m + a
      BY <2>1, <2>3, Zenon
    <2> QED BY <2>4
  <1>4. GridInv /\ GridInv' /\ [Next]_vars /\ Left <= Most => Left' <= Most
    <2> SUFFICES ASSUME GridInv, GridInv', [Next]_vars, Left <= Most PROVE Left' <= Most
      OBVIOUS
    <2>1. Left \in Nat /\ Most \in Nat
      BY <1>3, GridConstants DEF FocusSteps
    <2>2. Left' \in Nat
      <3>1. Left' = 12 * (GridCells - cell') + 10 * Len(batch') + Cardinality(Running')
                      + 9 * Len(hotspots') + (MaxIterations - iterations') + Ahead'
        BY DEF Left, GridCells
      <3>2. /\ GridCells - cell' \in Nat /\ Len(batch') \in Nat /\ Len(hotspots') \in Nat
            /\ Cardinality(Running') \in Nat /\ MaxIterations - iterations' \in Nat
            /\ Ahead' \in Nat
        BY PartsNext, GridConstants DEF PartsInv
      <3>3. PICK c \in Nat, b \in Nat, r \in Nat, h \in Nat, m \in Nat, a \in Nat :
              /\ c = GridCells - cell' /\ b = Len(batch') /\ r = Cardinality(Running')
              /\ h = Len(hotspots') /\ m = MaxIterations - iterations' /\ a = Ahead'
        BY <3>2
      <3>4. Left' = 12 * c + 10 * b + r + 9 * h + m + a
        BY <3>1, <3>3, Zenon
      <3> QED BY <3>4
    <2>3. CASE Left' < Left
      BY <2>1, <2>2, <2>3
    <2>4. CASE UNCHANGED vars
      <3>1. Left' = Left
        BY <2>4 DEF vars, window, Left, Running, Ahead, GridCells
      <3> QED BY <3>1
    <2> QED BY <1>2, <2>3, <2>4
  <1>5. Init => Left <= Most
    BY <1>1, GridConstants DEF FocusSteps
  <1>6. GridInv /\ Left <= Most => Left \in 0 .. Most
    BY <1>3, GridConstants DEF FocusSteps
  <1> HIDE DEF Most
  <1> DEFINE AtMost == Left <= Most
  <1>7. Spec => []AtMost
    <2>1. GridInv /\ GridInv' /\ [Next]_vars /\ AtMost => AtMost'
      BY <1>4, GridConstants DEF Most, GridCells, FocusSteps
    <2> HIDE DEF AtMost
    <2>2. Init => AtMost
      BY <1>5 DEF AtMost
    <2> QED BY <2>1, <2>2, GridInvariant, PTL DEF Spec
  <1>8. Spec => [](Left \in 0 .. Most)
    <2>1. GridInv /\ AtMost => Left \in 0 .. Most
      BY <1>6
    <2> HIDE DEF AtMost
    <2> QED BY <2>1, <1>7, GridInvariant, PTL
  <1>9. Spec => [][Left' < Left]_vars
    BY <1>2, GridInvariant, PTL DEF Spec
  <1> QED BY <1>8, <1>9 DEF Most
=============================================================================
