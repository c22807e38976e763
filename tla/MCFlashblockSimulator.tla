------------------------ MODULE MCFlashblockSimulator -------------------------
(* Instances of FlashblockSimulator for TLC.                                 *)
EXTENDS FlashblockSimulator

Tx(s, n, ok) ==
  [sender |-> s, nonce |-> n, success |-> ok, signed |-> TRUE, decodes |-> TRUE]
Deposit(s, n) == [Tx(s, n, TRUE) EXCEPT !.decodes = FALSE]
Block(b, i, t) == [block |-> b, index |-> i, txs |-> t]

TwoSenders == {"alice", "bob"}

\* Three blocks, the first with its last flashblock (index 10); a deposit and a
\* transaction that reverts, each before another one of its sender, and one whose
\* signer cannot be recovered.
ThreeBlocks ==
  << Block(1, 9, <<Deposit("alice", 0), Tx("bob", 0, TRUE)>>),
     Block(1, 10, <<Tx("alice", 1, TRUE)>>),
     Block(2, 0, <<Tx("bob", 1, FALSE), Tx("alice", 2, TRUE)>>),
     Block(2, 1, <<Tx("bob", 2, TRUE)>>),
     Block(3, 0, <<[Tx("bob", 3, TRUE) EXCEPT !.signed = FALSE]>>),
     Block(3, 1, <<Tx("bob", 4, TRUE)>>) >>
=============================================================================
