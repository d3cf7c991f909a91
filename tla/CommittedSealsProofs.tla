------------------------ MODULE CommittedSealsProofs ------------------------
(***************************************************************************)
(* verifyCommittedSeals accepts exactly what it should, for every          *)
(* validator set, committee size and list of seals.                        *)
(***************************************************************************)
EXTENDS CommittedSeals, FiniteSetTheorems, SequenceTheorems, TLAPS

\* The size of the set and of the committee are positive integers.
LEMMA SizeType == Size \in Nat \ {0} /\ CommitteeSize \in Nat \ {0}
<1>1. Size \in Nat
  BY ValidatorsAssumption, FS_CardinalityType DEF Size
<1>2. Size # 0
  BY ValidatorsAssumption, FS_EmptySet DEF Size
<1> QED
  BY <1>1, <1>2, SealsAssumption DEF CommitteeSize

\* A quorum of the core is above the threshold of the importers.
LEMMA QuorumIsEnough ==
  ASSUME NEW size \in Nat \ {0}
  PROVE  /\ RequiredMessageCount(size) > 0
         /\ \A k \in Nat : k >= RequiredMessageCount(size) => EnoughCommittedSeals(k, size)
<1>1. CASE size < 4
  <2>1. size = 1 \/ size = 2 \/ size = 3
    BY <1>1
  <2>2. F(size) = 0
    BY <2>1 DEF F
  <2> QED
    BY <1>1, <2>2 DEF RequiredMessageCount, EnoughCommittedSeals
<1>2. CASE size >= 4
  <2>1. (2 * size + 2) \div 3 > 2 * ((size + 2) \div 3 - 1)
    BY <1>2
  <2>2. (2 * size + 2) \div 3 \in Nat /\ (size + 2) \div 3 \in Nat
    BY <1>2
  <2>3. (2 * size + 2) \div 3 > 0
    BY <1>2
  <2> QED
    BY <1>2, <2>1, <2>2, <2>3 DEF RequiredMessageCount, EnoughCommittedSeals, F
<1> QED
  BY <1>1, <1>2

\* What the type invariant says of the list and of the index.
LEMMA PositionType ==
  ASSUME TypeOK PROVE Len(seals) \in Nat /\ pos \in Nat /\ pos >= 1 /\ pos <= Len(seals) + 1
<1>1. Len(seals) \in Nat
  BY LenProperties DEF TypeOK
<1>2. pos \in 1 .. Len(seals) + 1
  BY DEF TypeOK
<1> QED
  BY <1>1, <1>2

LEMMA InitIInv == Init => IInv
<1> SUFFICES ASSUME Init PROVE IInv
  OBVIOUS
<1>1. PICK k \in 0 .. MaxSeals : seals \in [1 .. k -> Seal]
  BY DEF Init
<1>2. seals \in Seq(Seal) /\ Len(seals) = k
  BY <1>1, SealsAssumption
<1>3. TypeOK
  <2>1. pos \in 1 .. Len(seals) + 1
    <3>1. pos = 1
      BY DEF Init
    <3>2. Len(seals) \in Nat
      BY <1>2, LenProperties
    <3> QED BY <3>1, <3>2
  <2> QED BY <1>2, <2>1 DEF Init, TypeOK
<1>4. Consumed = {}
  <2>1. 1 .. pos - 1 = {}
    <3>1. pos = 1
      BY DEF Init
    <3> QED BY <3>1
  <2> QED BY <2>1 DEF Consumed
<1>5. result \in {"pending", "empty committed seals"}
  BY DEF Init
<1>6. result = "empty committed seals" => seals = <<>>
  BY DEF Init
<1> QED
  BY <1>3, <1>4, <1>5, <1>6, FS_EmptySet DEF Init, IInv, Refusable

\* One seal of a validator that was not met before.
LEMMA CountStep == IInv /\ CountSeal => IInv'
<1> SUFFICES ASSUME IInv, CountSeal PROVE IInv'
  OBVIOUS
<1> DEFINE s == seals[pos]
<1>1. /\ seals' = seals /\ pos' = pos + 1 /\ result' = result /\ result = "pending"
      /\ validSeal' = validSeal + 1 /\ validators' = validators \ {s}
      /\ pos \in 1 .. Len(seals) /\ s \in validators /\ Len(seals) \in Nat
  BY PositionType DEF IInv, CountSeal, RemoveValidator
<1>2. /\ Consumed \subseteq Validators /\ validators = Validators \ Consumed
      /\ validSeal = Cardinality(Consumed)
  BY <1>1 DEF IInv
<1>3. Consumed' = Consumed \cup {s}
  BY <1>1 DEF Consumed
<1>4. s \in Validators /\ s \notin Consumed
  BY <1>1, <1>2
<1>5. IsFiniteSet(Consumed)
  BY <1>2, ValidatorsAssumption, FS_Subset
<1>6. Cardinality(Consumed') = validSeal + 1
  <2> HIDE DEF s
  <2> QED BY <1>2, <1>3, <1>4, <1>5, FS_AddElement, ZenonT(30)
<1>7. TypeOK'
  BY <1>1 DEF IInv, TypeOK
<1>8. Consumed' \subseteq Validators /\ validators' = Validators \ Consumed'
  BY <1>1, <1>2, <1>3, <1>4
<1> QED
  BY <1>1, <1>6, <1>7, <1>8 DEF IInv

\* A seal of no validator, or the second one of a validator.
LEMMA RejectStep == IInv /\ RejectSeal => IInv'
<1> SUFFICES ASSUME IInv, RejectSeal PROVE IInv'
  OBVIOUS
<1>1. /\ pos \in 1 .. Len(seals) /\ Len(seals) \in Nat /\ result = "pending"
      /\ seals[pos] \notin validators
      /\ result' \in {"invalid signature", "invalid committed seals"}
      /\ UNCHANGED <<seals, pos, validators, validSeal>>
  <2>1. TypeOK
    BY DEF IInv
  <2>2. pos <= Len(seals)
    BY DEF RejectSeal
  <2>3. pos \in 1 .. Len(seals) /\ Len(seals) \in Nat
    BY <2>1, <2>2, PositionType
  <2> QED BY <2>3 DEF RejectSeal
<1>2. validators = Validators \ Consumed
  BY <1>1 DEF IInv
<1>3. Refusable
  <2>1. CASE seals[pos] \notin Validators
    BY <1>1, <2>1 DEF Refusable
  <2>2. CASE seals[pos] \in Consumed
    <3>1. PICK i \in 1 .. pos - 1 : seals[i] = seals[pos]
      BY <2>2 DEF Consumed
    <3>2. i \in 1 .. Len(seals) /\ i # pos
      <4>1. pos \in 1 .. Len(seals) /\ Len(seals) \in Nat
        BY <1>1
      <4> QED BY <4>1
    <3> QED
      BY <1>1, <3>1, <3>2 DEF Refusable
  <2> QED
    BY <1>1, <1>2, <2>1, <2>2
<1>4. Refusable'
  BY <1>1, <1>3 DEF Refusable, Signers, EnoughCommittedSeals, F, CommitteeSize, Size
<1>5. TypeOK'
  BY <1>1 DEF IInv, TypeOK
<1> QED
  BY <1>1, <1>4, <1>5 DEF IInv

\* The final comparison.
LEMMA FinishStep == IInv /\ Finish => IInv'
<1> SUFFICES ASSUME IInv, Finish PROVE IInv'
  OBVIOUS
<1>1. /\ pos = Len(seals) + 1 /\ Len(seals) \in Nat /\ result = "pending"
      /\ UNCHANGED <<seals, pos, validators, validSeal>>
  <2>1. TypeOK
    BY DEF IInv
  <2>2. pos > Len(seals)
    BY DEF Finish
  <2>3. pos = Len(seals) + 1 /\ Len(seals) \in Nat
    BY <2>1, <2>2, PositionType
  <2> QED BY <2>3 DEF Finish
<1>2. /\ Consumed \subseteq Validators /\ validators = Validators \ Consumed
      /\ validSeal = Cardinality(Consumed)
  BY <1>1 DEF IInv
<1>3. Consumed = Signers /\ Consumed' = Consumed
  BY <1>1 DEF Consumed, Signers
<1>4. TypeOK'
  BY <1>1 DEF IInv, TypeOK, Finish
<1>5. CASE EnoughCommittedSeals(validSeal, CommitteeSize)
  <2>1. result' = "nil"
    BY <1>5 DEF Finish
  <2>2. EnoughCommittedSeals(validSeal, CommitteeSize)'
    BY <1>1, <1>5 DEF EnoughCommittedSeals, F, CommitteeSize, Size
  <2> QED
    BY <1>1, <1>2, <1>3, <1>4, <2>1, <2>2 DEF IInv
<1>6. CASE ~EnoughCommittedSeals(validSeal, CommitteeSize)
  <2>1. result' = "invalid committed seals"
    BY <1>6 DEF Finish
  <2>2. ~EnoughCommittedSeals(Cardinality(Signers), CommitteeSize)'
    BY <1>1, <1>2, <1>3, <1>6 DEF EnoughCommittedSeals, F, CommitteeSize, Size, Signers
  <2>3. Refusable'
    BY <2>2 DEF Refusable
  <2> QED
    BY <1>4, <2>1, <2>3 DEF IInv
<1> QED
  BY <1>5, <1>6

\* The loop invariant of verifyCommittedSeals holds throughout.
THEOREM LoopInvariant == Spec => []IInv
<1>1. IInv /\ [Next]_vars => IInv'
  <2> SUFFICES ASSUME IInv, [Next]_vars PROVE IInv'
    OBVIOUS
  <2>1. CASE UNCHANGED vars
    BY <2>1 DEF vars, IInv, TypeOK, Consumed, Refusable, Signers, EnoughCommittedSeals,
                F, CommitteeSize, Size
  <2> QED
    BY <2>1, CountStep, RejectStep, FinishStep DEF Next
<1> QED
  BY <1>1, InitIInv, PTL DEF Spec

\* A header is accepted only with seals of more than 2F different validators.
THEOREM SealsAcceptedBySigners == Spec => []AcceptedBySigners
<1>1. IInv => AcceptedBySigners
  <2> SUFFICES ASSUME IInv, result = "nil"
               PROVE  /\ Signers \subseteq Validators
                      /\ EnoughCommittedSeals(Cardinality(Signers), CommitteeSize)
    BY DEF AcceptedBySigners
  <2>1. pos = Len(seals) + 1 /\ Len(seals) \in Nat
    BY DEF IInv, TypeOK
  <2>2. Consumed = Signers
    BY <2>1 DEF Consumed, Signers
  <2> QED
    BY <2>2 DEF IInv
<1> QED
  BY <1>1, LoopInvariant, PTL

\* A list with as many signers as seals names no signer twice.
LEMMA SignersDistinct ==
  ASSUME seals \in Seq(Seal), Cardinality(Signers) = Len(seals)
  PROVE  \A i, j \in 1 .. Len(seals) : seals[i] = seals[j] => i = j
<1> DEFINE D == 1 .. Len(seals)
<1>1. Len(seals) \in Nat /\ seals \in [D -> Seal]
  OBVIOUS
<1>2. IsFiniteSet(D) /\ Cardinality(D) = Len(seals)
  <2> DEFINE n == Len(seals)
  <2>1. n \in Int /\ 1 \in Int /\ n >= 0
    BY <1>1
  <2> HIDE DEF n
  <2>2. IsFiniteSet(1 .. n) /\ Cardinality(1 .. n) = IF 1 > n THEN 0 ELSE n - 1 + 1
    BY <2>1, FS_Interval, ZenonT(30)
  <2>3. Cardinality(1 .. n) = n
    BY <2>1, <2>2
  <2> QED BY <2>2, <2>3 DEF n
<1>3. seals \in Surjection(D, Signers)
  BY <1>1, ZenonT(30) DEF Surjection, Signers
<1>4. seals \in Injection(D, Signers)
  <2> HIDE DEF D
  <2> QED BY <1>2, <1>3, FS_Surjection
<1> QED
  BY <1>4 DEF Injection, IsInjective

\* What handleCommit collects before it commits is accepted by every importer.
THEOREM CommittedSealsAccepted == Spec => []CommittedIsAccepted
<1>1. IInv => CommittedIsAccepted
  <2> SUFFICES ASSUME IInv, Signers \subseteq Validators,
                      Cardinality(Signers) = Len(seals),
                      Cardinality(Signers) >= RequiredMessageCount(CommitteeSize)
               PROVE  ~Refusable
    BY DEF IInv, CommittedIsAccepted
  <2>1. seals \in Seq(Seal) /\ Len(seals) \in Nat
    BY PositionType DEF IInv, TypeOK
  <2>2. EnoughCommittedSeals(Cardinality(Signers), CommitteeSize) /\ Len(seals) > 0
    <3>1. RequiredMessageCount(CommitteeSize) \in Int
      BY SizeType DEF RequiredMessageCount
    <3> QED
      BY <2>1, <3>1, SizeType, QuorumIsEnough
  <2>3. \A i, j \in 1 .. Len(seals) : seals[i] = seals[j] => i = j
    BY <2>1, SignersDistinct
  <2>4. \A i \in 1 .. Len(seals) : seals[i] \in Validators
    BY ZenonT(30) DEF Signers
  <2> QED
    BY <2>1, <2>2, <2>3, <2>4 DEF Refusable
<1> QED
  BY <1>1, LoopInvariant, PTL

=============================================================================
