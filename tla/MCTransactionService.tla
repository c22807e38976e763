------------------------- MODULE MCTransactionService -------------------------
(* Instances of TransactionService for TLC: the configurations give the calls   *)
(* as model values, the strategies and the modes as sets of strings.           *)
EXTENDS TransactionService
=============================================================================
