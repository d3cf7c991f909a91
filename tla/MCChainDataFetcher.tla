------------------------- MODULE MCChainDataFetcher -------------------------
(***************************************************************************)
(* Instance of ChainDataFetcher for TLC.                                   *)
(***************************************************************************)
EXTENDS ChainDataFetcher

\* A range that ends past the last block.
OneRange == {[first |-> MaxHead, last |-> MaxHead + 1]}
=============================================================================
