------------------------ MODULE MCOpportunityHandler ------------------------
(* Instances of OpportunityHandler for TLC.                                  *)
EXTENDS OpportunityHandler

Opp(b, s, f, p) == [block |-> b, strategy |-> s, flashblock |-> f, profit |-> p]

\* Three flashblocks of one block find the same strategy, one of them below the
\* threshold of 1; a second strategy and a later block compete for permits.
MixedOpportunities ==
  {Opp(0, "Backrun_a", 0, 2), Opp(0, "Backrun_a", 1, 1), Opp(0, "Backrun_a", 2, 2),
   Opp(0, "Backrun_b", 0, 2)}
=============================================================================
