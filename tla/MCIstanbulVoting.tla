-------------------------- MODULE MCIstanbulVoting --------------------------
(***************************************************************************)
(* An instance of IstanbulVoting for TLC: four validators, of which v3     *)
(* votes for everything.  The specification does not look at Index, so the *)
(* correct validators are interchangeable, and so are the blocks.          *)
(***************************************************************************)
EXTENDS IstanbulVoting, TLC

CONSTANTS v0, v1, v2, v3, A, B, D

Four == {v0, v1, v2, v3}
FourIndex == (v0 :> 0) @@ (v1 :> 1) @@ (v2 :> 2) @@ (v3 :> 3)

HeightOne == [b \in Block |-> 1]

Symmetry == Permutations({v0, v1, v2}) \cup Permutations({A, B})

=============================================================================
