---------------------------- MODULE MCMevPipeline ----------------------------
(* An instance of MevPipeline for TLC.                                       *)
EXTENDS MevPipeline

Flashblock(b, i, r, w, o) ==
  [block |-> b, index |-> i, reads |-> r, writes |-> w, oracle |-> o]

ThreeAddresses == {"token", "pool", "other"}

\* A block that only updates an oracle, then a block whose first flashblock touches
\* what the configuration watches and whose second does not.
TwoBlocks ==
  << Flashblock(1, 0, {}, {"other"}, TRUE),
     Flashblock(2, 0, {}, {"token"}, FALSE),
     Flashblock(2, 1, {}, {"other"}, FALSE) >>

OneConfig == [first |-> {"token"}]
=============================================================================
