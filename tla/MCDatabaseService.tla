--------------------------- MODULE MCDatabaseService ---------------------------
(* An instance of DatabaseService for TLC.                                    *)
EXTENDS DatabaseService

\* Three flashblocks, one without transactions and one that is replayed; two of
\* them share a hash.
FewBatches ==
  << [source |-> "flashblock_0", hashes |-> <<"h1", "h2">>],
     [source |-> "flashblock_0", hashes |-> <<"h1", "h2">>],
     [source |-> "flashblock_1", hashes |-> << >>],
     [source |-> "flashblock_2", hashes |-> <<"h2", "h3">>] >>
ThreeHashes == {"h1", "h2", "h3"}
=============================================================================
