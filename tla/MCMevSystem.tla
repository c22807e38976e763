----------------------------- MODULE MCMevSystem -----------------------------
(* An instance of MevSystem for TLC.                                         *)
EXTENDS MevSystem

\* One block of two flashblocks, both of which trigger the one configuration.
OneBlock ==
  << [block |-> 1, index |-> 0, reads |-> {}, writes |-> {"token"}, oracle |-> FALSE],
     [block |-> 1, index |-> 1, reads |-> {"token"}, writes |-> {"token"}, oracle |-> FALSE] >>

OneAddress == {"token"}
OneConfig  == [first |-> {"token"}]
=============================================================================
