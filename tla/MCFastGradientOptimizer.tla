----------------------- MODULE MCFastGradientOptimizer -----------------------
(* An instance of FastGradientOptimizer for TLC.                             *)
EXTENDS FastGradientOptimizer

\* A landscape is a set of hills <<quantity at the top, height, slope>>: the profit
\* falls by one for every `slope` of distance, and becomes a loss.
Distance(a, b) == IF a < b THEN b - a ELSE a - b
Height(hill, q) == hill[2] - Distance(q, hill[1]) \div hill[3]
Profit(hills, q) ==
  LET heights == {Height(h, q) : h \in hills}
  IN CHOOSE x \in heights : \A y \in heights : y <= x

\* A call that runs out of gas next to the top, one that returns no word, losses
\* beyond the clamp and profits beyond i128::MAX all happen.
HillOutput(hills, q) ==
  LET p == Profit(hills, q)
  IN [kind |-> IF q % 97 = 5 THEN "halt" ELSE IF q % 89 = 7 THEN "short" ELSE "revert",
      word |-> IF p >= 0 THEN p ELSE Greater(WordMax + 1 + p, WordMax \div 2 + 1)]

Hills ==
  { {<<24000, 90, 130>>}, {<<100, 80, 4>>}, {<<2, 50, 1>>},
    {<<5000, 60, 100>>, <<20000, 90, 33>>}, {<<450000, 95, 4000>>},
    {<<9000, 40, 3>>, <<300000, 70, 1400>>}, {<<24500, 30, 30>>},
    {<<3000, 300, 13>>}, {<<15000000, 99, 90000>>}, {<<60, 20, 5>>},
    {<<7, 3, 1>>}, {<<1, 1, 1>>}, {<<12000, 4, 5000>>, <<8000, 4, 5000>>} }
=============================================================================
