---------------------------- MODULE ValidatorSet ----------------------------
(***************************************************************************)
(* The part of consensus/istanbul/validator that the consensus core and    *)
(* the header verification read: the thresholds derived from the size of   *)
(* the validator set and the round-robin choice of the proposer.           *)
(*                                                                         *)
(* The committee is the whole set (Size <= SubGroupSize), so IsSubSet is   *)
(* FALSE and CheckInSubList holds for every validator.                     *)
(***************************************************************************)
EXTENDS Integers, FiniteSets

CONSTANTS
  Validators,   \* addresses of the current validator set
  Index,        \* position of a validator in the sorted list valSet.validators
  NoAddress     \* common.Address{}: the author of the genesis block

ASSUME ValidatorsAssumption ==
  /\ IsFiniteSet(Validators)
  /\ Validators # {}
  /\ NoAddress \notin Validators

ASSUME IndexAssumption ==
  /\ Index \in [Validators -> 0 .. Cardinality(Validators) - 1]
  /\ \A i \in 0 .. Cardinality(Validators) - 1 : \E v \in Validators : Index[v] = i

Size == Cardinality(Validators)

-----------------------------------------------------------------------------
(* Thresholds, as functions of the number of validators *)

\* int(math.Ceil(float64(size)/3)) - 1
F(size) == (size + 2) \div 3 - 1

\* The number of PREPARE, COMMIT or ROUND CHANGE messages that lets the core
\* proceed: all of a set of fewer than four, two thirds rounded up otherwise.
RequiredMessageCount(size) ==
  IF size < 4 THEN size ELSE (2 * size + 2) \div 3

\* The final test of verifyCommittedSeals on the number of valid seals.
EnoughCommittedSeals(validSeal, size) == validSeal > 2 * F(size)

-----------------------------------------------------------------------------
(* Proposer selection, policy RoundRobin *)

GetByIndex(i) == CHOOSE v \in Validators : Index[v] = i

calcSeed(proposer, round) ==
  (IF proposer \in Validators THEN Index[proposer] ELSE 0) + round

roundRobinProposer(proposer, round) ==
  LET seed == IF proposer = NoAddress THEN round ELSE calcSeed(proposer, round) + 1
  IN  GetByIndex(seed % Size)

=============================================================================
