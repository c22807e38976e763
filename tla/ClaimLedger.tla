----------------------------- MODULE ClaimLedger -----------------------------
(***************************************************************************)
(* What the set `submitted_txs` of the opportunity handler promises: for    *)
(* every (block, processor) key a claim that one opportunity holds at a     *)
(* time.  A holder either gives the claim back, so that a later flashblock  *)
(* can try, or closes it for good.  A free key may also be closed at once.  *)
(* This module is a specification, not a translation: OpportunityHandler    *)
(* is shown to implement it.                                                *)
(***************************************************************************)
CONSTANTS Keys,     \* the (block_number, strategy) pairs
          Holders   \* what may hold a claim

VARIABLES holder,   \* the holder of each key: a set of at most one
          spent     \* the keys that will never be claimed again

ledger == <<holder, spent>>

LedgerInit == holder = [k \in Keys |-> {}] /\ spent = {}

Take(k, h) ==
  /\ holder[k] = {} /\ k \notin spent
  /\ holder' = [holder EXCEPT ![k] = {h}]
  /\ UNCHANGED spent

GiveBack(k) ==
  /\ holder[k] # {}
  /\ holder' = [holder EXCEPT ![k] = {}]
  /\ UNCHANGED spent

Close(k) ==
  /\ k \notin spent
  /\ spent' = spent \cup {k}
  /\ holder' = [holder EXCEPT ![k] = {}]

LedgerNext ==
  \E k \in Keys : GiveBack(k) \/ Close(k) \/ \E h \in Holders : Take(k, h)

LedgerSafety == LedgerInit /\ [][LedgerNext]_ledger

\* A claim is never held for ever.
LedgerSpec ==
  /\ LedgerSafety
  /\ \A k \in Keys : WF_ledger(GiveBack(k) \/ (holder[k] # {} /\ Close(k)))
=============================================================================
