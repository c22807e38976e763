--------------------------- MODULE MCGridOptimizer ---------------------------
(* An instance of GridOptimizer for TLC.                                     *)
EXTENDS GridOptimizer

Between(l, u) == [initial |-> l, lower |-> l, upper |-> u]

\* A wide range, one from the smallest quantity on, one whose lower bound is above
\* two cells, so that the windows reach below it, and one with fewer quantities than
\* the grid has cells.
FourRanges == {Between(3, 43), Between(1, 30), Between(9, 20), Between(5, 6)}

\* A landscape is given by the most profitable quantities and by the remainder that
\* earns nothing: a call out of gas, a short answer and a success among them, and
\* profits and losses too large for the result.
Shapes == {0, 20, 30, 40} \X {2, 3, 7}

Slope(shape, q) ==
  LET d == IF q < shape[1] THEN shape[1] - q ELSE q - shape[1]
  IN IF q % shape[2] = 0 THEN -1 ELSE IF d < 36 THEN 36 - d ELSE -9

ShapeOutput(shape, q) ==
  LET p == Slope(shape, q)
  IN [kind |-> CASE q % 11 = 5 -> "halt" [] q % 11 = 6 -> "success" [] OTHER -> "revert",
      word |-> IF p >= 0 THEN p ELSE WordMax + 1 + p]
=============================================================================
