-------------------------- MODULE MCFlashblocksFeed ---------------------------
(* Instances of FlashblocksFeed for TLC: its constants are numbers and sets    *)
(* given in the configurations.                                              *)
EXTENDS FlashblocksFeed
=============================================================================
