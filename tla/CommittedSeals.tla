--------------------------- MODULE CommittedSeals ---------------------------
(***************************************************************************)
(* verifyCommittedSeals (consensus/istanbul/backend/engine.go): the walk   *)
(* over the committed seals of an imported header.  A seal is represented  *)
(* by the address its signature recovers to.                               *)
(***************************************************************************)
EXTENDS ValidatorSet, Sequences

CONSTANTS
  SubGroupSize,  \* committee size of the validator set (subSize)
  Outsider,      \* an address outside the validator set
  Malformed,     \* a signature from which no address is recovered
  MaxSeals       \* bound: length of the list of seals

ASSUME SealsAssumption ==
  /\ SubGroupSize \in Nat \ {0}
  /\ Outsider \notin Validators
  /\ Malformed \notin Validators \cup {Outsider}
  /\ MaxSeals \in Nat

VARIABLES
  seals,       \* extra.CommittedSeal
  pos,         \* index of the next seal
  validators,  \* copy of the validator set from which signers are removed
  validSeal,
  result       \* "pending" while the function runs, then its error

vars == <<seals, pos, validators, validSeal, result>>

Seal == Validators \cup {Outsider, Malformed}

\* The size that F and RequiredMessageCount look at.
CommitteeSize == IF Size > SubGroupSize THEN SubGroupSize ELSE Size

Init ==
  /\ seals \in UNION {[1 .. k -> Seal] : k \in 0 .. MaxSeals}
  /\ pos = 1
  /\ validators = Validators
  /\ validSeal = 0
  /\ result = IF seals = <<>> THEN "empty committed seals" ELSE "pending"

-----------------------------------------------------------------------------
\* The signer is looked up but not removed from the copy.
MutRemoveValidator(addr) ==
  /\ addr \in validators
  /\ validators' = validators

\* RemoveValidator returns whether the address was still there.
RemoveValidator(addr) ==
  /\ addr \in validators
  /\ validators' = validators \ {addr}

CountSeal ==
  /\ result = "pending" /\ pos <= Len(seals)
  /\ RemoveValidator(seals[pos])
  /\ validSeal' = validSeal + 1
  /\ pos' = pos + 1
  /\ UNCHANGED <<seals, result>>

RejectSeal ==
  /\ result = "pending" /\ pos <= Len(seals)
  /\ seals[pos] \notin validators
  /\ result' = IF seals[pos] = Malformed THEN "invalid signature" ELSE "invalid committed seals"
  /\ UNCHANGED <<seals, pos, validators, validSeal>>

\* The comparison with the number of seals is strict by mistake.
MutFinish ==
  /\ result = "pending" /\ pos > Len(seals)
  /\ result' = IF validSeal > 2 * F(CommitteeSize) + 1 THEN "nil" ELSE "invalid committed seals"
  /\ UNCHANGED <<seals, pos, validators, validSeal>>

Finish ==
  /\ result = "pending" /\ pos > Len(seals)
  /\ result' = IF EnoughCommittedSeals(validSeal, CommitteeSize)
               THEN "nil" ELSE "invalid committed seals"
  /\ UNCHANGED <<seals, pos, validators, validSeal>>

Next == CountSeal \/ RejectSeal \/ Finish

Spec == Init /\ [][Next]_vars

-----------------------------------------------------------------------------
(* Properties *)

Signers == {seals[i] : i \in 1 .. Len(seals)}

TypeOK ==
  /\ seals \in Seq(Seal)
  /\ pos \in 1 .. Len(seals) + 1
  /\ validators \subseteq Validators
  /\ validSeal \in Nat
  /\ result \in {"pending", "nil", "empty committed seals", "invalid signature",
                 "invalid committed seals"}

\* A header is accepted only with seals of more than 2F different validators:
\* repeating a seal does not help.
AcceptedBySigners ==
  result = "nil" => /\ Signers \subseteq Validators
                    /\ EnoughCommittedSeals(Cardinality(Signers), CommitteeSize)

\* What handleCommit collects before it commits, one seal each of
\* RequiredMessageCount different validators, is always accepted by importers.
CommittedIsAccepted ==
  /\ Signers \subseteq Validators
  /\ Cardinality(Signers) = Len(seals)
  /\ Cardinality(Signers) >= RequiredMessageCount(CommitteeSize)
  => result \in {"pending", "nil"}

\* The signers of the seals counted so far.
Consumed == {seals[i] : i \in 1 .. pos - 1}

\* Why a header is refused.
Refusable ==
  \/ seals = <<>>
  \/ \E i \in 1 .. Len(seals) : seals[i] \notin Validators
  \/ \E i, j \in 1 .. Len(seals) : i # j /\ seals[i] = seals[j]
  \/ ~EnoughCommittedSeals(Cardinality(Signers), CommitteeSize)

\* The loop invariant of verifyCommittedSeals: validSeal counts the different
\* signers met, which are exactly those missing from the copy of the set, and
\* the result is what the seals as a whole call for.
IInv ==
  /\ TypeOK
  /\ result \in {"pending", "nil"} =>
       /\ Consumed \subseteq Validators
       /\ validators = Validators \ Consumed
       /\ validSeal = Cardinality(Consumed)
  /\ result = "nil" =>
       /\ pos = Len(seals) + 1
       /\ EnoughCommittedSeals(validSeal, CommitteeSize)
  /\ result \notin {"pending", "nil"} => Refusable

=============================================================================
