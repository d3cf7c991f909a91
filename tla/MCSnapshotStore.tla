-------------------------- MODULE MCSnapshotStore --------------------------
(***************************************************************************)
(* Instances of SnapshotStore for TLC; the values are in the cfg files.    *)
(***************************************************************************)
EXTENDS SnapshotStore, TLC

Symmetry == Permutations(Writers)
=============================================================================
