------------------------------ MODULE MCMerkleTree ------------------------------
(***************************************************************************)
(* A small instance of MerkleTree for TLC.                                 *)
(***************************************************************************)
EXTENDS MerkleTree

\* Two events, and data that look like the content of an inner node.
DataA == <<"a">>
DataB == <<"b">>
PairOfHashes == <<HashLeaf(DataA), HashLeaf(DataB)>>

LookalikeData == {DataA, DataB, PairOfHashes}

===============================================================================
