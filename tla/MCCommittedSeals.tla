-------------------------- MODULE MCCommittedSeals --------------------------
(***************************************************************************)
(* An instance of CommittedSeals for TLC.                                  *)
(***************************************************************************)
EXTENDS CommittedSeals

Addresses == {"v0", "v1", "v2", "v3", "v4"}
AddressIndex ==
  [v \in Addresses |->
     CASE v = "v0" -> 0 [] v = "v1" -> 1 [] v = "v2" -> 2 [] v = "v3" -> 3 [] v = "v4" -> 4]

=============================================================================
