--------------------------- MODULE QuantitySearch ---------------------------
(***************************************************************************)
(* What an optimizer promises its caller: the output it ends with is the     *)
(* initial one without profit, or a quantity for which the contract itself   *)
(* stated that profit; and what it has found it gives up only for more.      *)
(* FastGradientOptimizer and GridOptimizer implement it.                     *)
(***************************************************************************)
EXTENDS Integers

CONSTANTS
  Landscapes,    \* the contracts and states to search
  Output(_, _),  \* the result of a call: Output(landscape, quantity)
  ProfitKinds,   \* the results that state a profit
  Largest,       \* the largest quantity the calldata holds
  DeltaMax       \* i128::MAX

VARIABLES
  landscape,     \* the state searched
  best           \* best_output

SearchInit == landscape \in Landscapes /\ best.delta = 0

Improve ==
  LET stated == Output(landscape, best'.qty)
  IN /\ best'.qty \in 1 .. Largest /\ best'.calldata = best'.qty
     /\ stated.kind \in ProfitKinds /\ stated.word = best'.delta
     /\ best'.delta > best.delta /\ best'.delta <= DeltaMax
     /\ UNCHANGED landscape

SearchSpec == SearchInit /\ [][Improve]_<<landscape, best>>
=============================================================================
