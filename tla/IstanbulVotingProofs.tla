------------------------ MODULE IstanbulVotingProofs ------------------------
(***************************************************************************)
(* Agreement of IstanbulVoting for every validator set, number of rounds   *)
(* and set of blocks that satisfy the assumptions.                         *)
(***************************************************************************)
EXTENDS IstanbulVoting, FiniteSetTheorems, WellFoundedInduction, TLAPS

-----------------------------------------------------------------------------
(* Quorums *)

\* The thresholds are natural numbers.
LEMMA ThresholdType ==
  /\ Size \in Nat /\ Size >= 1
  /\ F(Size) \in Nat
  /\ RequiredMessageCount(Size) \in Nat
<1>1. Size \in Nat
  BY FS_CardinalityType, ValidatorsAssumption DEF Size
<1>2. Size # 0
  BY FS_EmptySet, ValidatorsAssumption DEF Size
<1> QED
  BY <1>1, <1>2 DEF F, RequiredMessageCount

\* A quorum of votes and a set of committers large enough for
\* verifyCommittedSeals have a correct validator in common.
LEMMA QuorumMeetsCommitters ==
  ASSUME NEW P \in SUBSET Validators, NEW C \in SUBSET Validators,
         Cardinality(P) >= RequiredMessageCount(Size),
         EnoughCommittedSeals(Cardinality(C), Size)
  PROVE  \E v \in P \cap C : v \in Correct
<1> DEFINE B == Validators \ Correct
<1>1. /\ IsFiniteSet(Validators) /\ IsFiniteSet(P) /\ IsFiniteSet(C)
      /\ IsFiniteSet(P \cap C) /\ IsFiniteSet(P \cup C) /\ IsFiniteSet(B)
  <2>1. P \cap C \in SUBSET Validators /\ P \cup C \in SUBSET Validators /\ B \in SUBSET Validators
    OBVIOUS
  <2> HIDE DEF B
  <2> QED
    BY <2>1, FS_Subset, ValidatorsAssumption
<1>2. Cardinality(P \cup C) <= Size
  BY FS_Subset, ValidatorsAssumption DEF Size
<1>3. Cardinality(P \cup C) = Cardinality(P) + Cardinality(C) - Cardinality(P \cap C)
  BY <1>1, FS_Union
<1>4. /\ Cardinality(P) \in Nat /\ Cardinality(C) \in Nat /\ Cardinality(P \cap C) \in Nat
      /\ Cardinality(P \cup C) \in Nat /\ Cardinality(B) \in Nat
  BY <1>1, FS_CardinalityType
<1>5. Cardinality(B) <= F(Size) /\ Size - RequiredMessageCount(Size) <= F(Size)
  BY FaultAssumption
<1>6. Cardinality(C) > 2 * F(Size)
  BY DEF EnoughCommittedSeals
<1>7. Cardinality(P \cap C) > Cardinality(B)
  <2> HIDE DEF B
  <2> QED
    BY <1>2, <1>3, <1>4, <1>5, <1>6, ThresholdType
<1>8. ~(P \cap C \subseteq B)
  <2> HIDE DEF B
  <2> SUFFICES ASSUME P \cap C \in SUBSET B PROVE FALSE
    OBVIOUS
  <2>1. Cardinality(P \cap C) <= Cardinality(B)
    BY <1>1, FS_Subset
  <2> QED
    BY <2>1, <1>4, <1>7
<1> QED
  BY <1>8

\* A nonempty set of rounds has a highest one.
LEMMA HighestRound ==
  ASSUME NEW S \in SUBSET Rounds, S # {}
  PROVE  \E x \in S : \A y \in S : y <= x
<1> DEFINE T == {MaxRound - r : r \in S}
<1>1. T \subseteq Nat /\ T # {}
  <2>1. \A r \in S : MaxRound - r \in Nat
    BY VotingAssumption DEF Rounds
  <2>2. PICK r0 \in S : TRUE
    OBVIOUS
  <2>3. MaxRound - r0 \in T
    OBVIOUS
  <2> QED
    BY <2>1, <2>3
<1>2. PICK x \in T : \A y \in T : ~(<<y, x>> \in OpToRel(<, Nat))
  <2> HIDE DEF T
  <2> QED
    BY <1>1, NatLessThanWellFounded, WFMin
<1>3. \A y \in T : ~(y < x)
  <2> HIDE DEF T
  <2> QED
    BY <1>1, <1>2, ZenonT(30) DEF OpToRel
<1>4. PICK r \in S : x = MaxRound - r
  OBVIOUS
<1>5. ASSUME NEW y \in S PROVE y <= r
  BY <1>3, <1>4, VotingAssumption, SMTT(60) DEF Rounds
<1> QED
  BY <1>5

-----------------------------------------------------------------------------
(* The invariant *)

\* Casting votes never takes a quorum or committers away.
LEMMA VotesGrow ==
  ASSUME votes \subseteq votes'
  PROVE  /\ \A r, b : Polka(r, b) => Polka(r, b)'
         /\ \A b : EnoughCommittedSeals(Cardinality(Committers(b)), Size)
                   => EnoughCommittedSeals(Cardinality(Committers(b)), Size)'
<1>1. ASSUME NEW S \in SUBSET Validators, NEW T \in SUBSET Validators, S \subseteq T
      PROVE  Cardinality(S) \in Nat /\ Cardinality(T) \in Nat /\ Cardinality(S) <= Cardinality(T)
  <2>1. IsFiniteSet(S) /\ IsFiniteSet(T)
    BY FS_Subset, ValidatorsAssumption
  <2> QED
    BY <1>1, <2>1, FS_Subset, FS_CardinalityType
<1>2. ASSUME NEW r, NEW b, Polka(r, b) PROVE Polka(r, b)'
  <2>1. /\ Voters(r, b) \in SUBSET Validators /\ Voters(r, b)' \in SUBSET Validators
        /\ Voters(r, b) \subseteq Voters(r, b)'
    BY DEF Voters
  <2> QED
    BY <1>1, <1>2, <2>1, ThresholdType DEF Polka
<1>3. ASSUME NEW b, EnoughCommittedSeals(Cardinality(Committers(b)), Size)
      PROVE  EnoughCommittedSeals(Cardinality(Committers(b)), Size)'
  <2>1. /\ Committers(b) \in SUBSET Validators /\ Committers(b)' \in SUBSET Validators
        /\ Committers(b) \subseteq Committers(b)'
    BY DEF Committers
  <2> QED
    BY <1>1, <1>3, <2>1, ThresholdType DEF EnoughCommittedSeals
<1> QED
  BY <1>2, <1>3

LEMMA InitIInv == Init => IInv
<1> SUFFICES ASSUME Init PROVE IInv
  OBVIOUS
<1> USE DEF Init
<1>1. TypeOK
  BY DEF TypeOK
<1>2. OneVotePerRound /\ CommitsJustified /\ DecisionsCommitted
  BY DEF OneVotePerRound, CommitsJustified, DecisionsCommitted
<1>3. LocksJustified
  BY DEF LocksJustified
<1> QED
  BY <1>1, <1>2, <1>3 DEF IInv

\* A vote leaves standing the evidence of every validator that is not its
\* sender, and of its sender for the block it votes for.
LEMMA VoteKeepsEvidence ==
  ASSUME IInv, NEW n \in Correct, NEW m \in Vote, CastVote(n, m), height' = height,
         NEW k \in Correct, NEW r \in Rounds, NEW b \in Block, Evidence(k, r, b),
         k = n /\ Number[b] = height[n] => b = m.digest
  PROVE  Evidence(k, r, b)'
<1>1. votes' = votes \cup {m} /\ m.from = n /\ Number[m.digest] = height[n]
  BY DEF CastVote
<1>2. Polka(r, b)'
  BY <1>1, VotesGrow DEF Evidence
<1>3. \A o \in VotesOf(k, Number[b])' : o.digest = b \/ o.round < r
  BY <1>1 DEF Evidence, VotesOf
<1> QED
  BY <1>2, <1>3 DEF Evidence

\* Casting a vote keeps the part of the invariant that is not about the lock
\* the sender holds afterwards.
LEMMA VoteStep ==
  ASSUME IInv, NEW n \in Correct, NEW m \in Vote, CastVote(n, m),
         height' = height, decided' = decided
  PROVE  /\ votes' \subseteq Vote
         /\ OneVotePerRound'
         /\ DecisionsCommitted'
         /\ \A k \in Correct, r \in Rounds, b \in Block \ BadBlock :
              lock[k] = b /\ Evidence(k, r, b) => Evidence(k, r, b)'
         /\ \A o \in votes' : o.code = "commit" /\ o.digest \notin BadBlock
              => /\ \E r \in Rounds : Evidence(o.from, r, o.digest)'
                 /\ Number[o.digest] = height[o.from] => lock[o.from] = o.digest
<1> USE DEF IInv
<1>1. votes' = votes \cup {m} /\ m.from = n /\ Number[m.digest] = height[n]
  BY DEF CastVote
<1>2. votes' \subseteq Vote
  BY <1>1 DEF TypeOK
<1>3. OneVotePerRound'
  <2>1. \A o \in votes : o.from = n /\ o.round = m.round /\ Number[o.digest] = height[n]
                        => o.digest = m.digest
    BY DEF CastVote, VotesOf, Vote, Rounds, TypeOK
  <2>2. height[n] \in Nat
    BY DEF TypeOK
  <2> QED
    BY <1>1, <2>1, <2>2 DEF OneVotePerRound
<1>4. DecisionsCommitted'
  BY <1>1, VotesGrow DEF DecisionsCommitted
<1>5. ASSUME NEW k \in Correct, NEW r \in Rounds, NEW b \in Block \ BadBlock,
             lock[k] = b, Evidence(k, r, b)
      PROVE  Evidence(k, r, b)'
  <2>1. k = n => b = m.digest
    BY <1>5, VotingAssumption DEF CastVote, Free
  <2> QED
    BY <1>5, <2>1, VoteKeepsEvidence
<1>6. ASSUME NEW o \in votes', o.code = "commit", o.digest \notin BadBlock
      PROVE  /\ \E r \in Rounds : Evidence(o.from, r, o.digest)'
             /\ Number[o.digest] = height[o.from] => lock[o.from] = o.digest
  <2>1. o.from \in Correct /\ o.digest \in Block \ BadBlock
    BY <1>2, <1>6 DEF Vote
  <2>2. Number[o.digest] = height[o.from] => lock[o.from] = o.digest
    BY <1>1, <1>6 DEF CommitsJustified, CastVote
  <2>3. PICK r \in Rounds : Evidence(o.from, r, o.digest)
    <3>1. CASE o \in votes
      BY <1>6, <3>1 DEF CommitsJustified
    <3>2. CASE o = m
      <4>1. lock[n] = m.digest
        BY <1>6, <3>2 DEF CastVote
      <4>2. lock[n] # NoBlock /\ lock[n] \notin BadBlock
        BY <2>1, <3>2, <4>1, VotingAssumption
      <4> QED
        BY <1>1, <3>2, <4>1, <4>2 DEF LocksJustified
    <3> QED
      BY <1>1, <3>1, <3>2
  <2>4. o.from = n /\ Number[o.digest] = height[n] => o.digest = m.digest
    BY <2>1, <2>2, VotingAssumption DEF CastVote, Free
  <2> QED
    BY <2>1, <2>2, <2>3, <2>4, VoteKeepsEvidence
<1> QED
  BY <1>2, <1>3, <1>4, <1>5, <1>6

\* After LockBlock the new lock is justified by the quorum of its round, and no
\* lock that a COMMIT depends on has been replaced.
LEMMA LockStep ==
  ASSUME IInv, NEW n \in Correct, NEW r \in Rounds, NEW b \in Block,
         LockBlock(n, r, b), height' = height
  PROVE  /\ lock' \in [Correct -> Block \cup {NoBlock}]
         /\ lock'[n] = b /\ Number[b] = height[n] /\ Evidence(n, r, b)'
         /\ \A k \in Correct : k # n \/ lock[k] \in Block \ BadBlock => lock'[k] = lock[k]
<1>1. lock \in [Correct -> Block \cup {NoBlock}] /\ lock' = [lock EXCEPT ![n] = b]
  BY DEF IInv, TypeOK, LockBlock
<1>2. Number[b] = height[n] /\ Evidence(n, r, b)'
  BY DEF LockBlock, Evidence
<1>3. lock[n] \in Block \ BadBlock => lock[n] = b
  BY VotingAssumption DEF LockBlock, Free
<1> QED
  BY <1>1, <1>2, <1>3

\* Every step preserves the invariant.
LEMMA NextIInv == IInv /\ [Next]_vars => IInv'
<1> SUFFICES ASSUME IInv, [Next]_vars PROVE IInv'
  OBVIOUS
<1> USE DEF IInv
<1>1. ASSUME NEW n \in Correct, NEW m \in Vote, Vote1(n, m) PROVE IInv'
  <2>1. CastVote(n, m) /\ height' = height /\ lock' = lock /\ decided' = decided
    BY <1>1 DEF Vote1
  <2>2. TypeOK'
    BY <2>1, VoteStep DEF TypeOK
  <2>3. LocksJustified'
    <3> SUFFICES ASSUME NEW k \in Correct, lock[k] # NoBlock
                 PROVE  /\ Number[lock[k]] = height[k]
                        /\ lock[k] \notin BadBlock => \E r \in Rounds : Evidence(k, r, lock[k])'
      BY <2>1 DEF LocksJustified
    <3>1. lock[k] \in Block
      BY DEF TypeOK
    <3> QED
      BY <2>1, <3>1, VoteStep DEF LocksJustified
  <2>4. CommitsJustified'
    BY <2>1, VoteStep DEF CommitsJustified
  <2> QED
    BY <2>1, <2>2, <2>3, <2>4, VoteStep
<1>2. ASSUME NEW n \in Correct, NEW m \in Vote, VoteAndLock(n, m) PROVE IInv'
  <2>1. /\ CastVote(n, m) /\ height' = height /\ decided' = decided
        /\ LockBlock(n, m.round, m.digest)
        /\ m.round \in Rounds /\ m.digest \in Block
    BY <1>2 DEF VoteAndLock, Vote
  <2>2. TypeOK'
    BY <2>1, VoteStep, LockStep DEF TypeOK
  <2>3. LocksJustified'
    <3> SUFFICES ASSUME NEW k \in Correct, lock'[k] # NoBlock
                 PROVE  /\ Number[lock'[k]] = height[k]
                        /\ lock'[k] \notin BadBlock => \E r \in Rounds : Evidence(k, r, lock[k])'
      BY <2>1 DEF LocksJustified
    <3>1. CASE k = n
      BY <2>1, <3>1, LockStep
    <3>2. CASE k # n
      <4>1. lock'[k] = lock[k] /\ lock[k] \in Block
        BY <2>1, <3>2, LockStep DEF TypeOK
      <4> QED
        BY <2>1, <4>1, VoteStep DEF LocksJustified
    <3> QED
      BY <3>1, <3>2
  <2>4. CommitsJustified'
    <3>1. \A o \in votes' : o.from \in Correct /\ o.digest \in Block
      BY <2>2 DEF TypeOK, Vote
    <3> QED
      BY <2>1, <3>1, VoteStep, LockStep DEF CommitsJustified
  <2> QED
    BY <2>1, <2>2, <2>3, <2>4, VoteStep
<1>3. ASSUME NEW n \in Correct, NEW r \in Rounds, NEW b \in Block, LockOnly(n, r, b) PROVE IInv'
  <2>1. /\ votes' = votes /\ height' = height /\ decided' = decided
        /\ LockBlock(n, r, b)
    BY <1>3 DEF LockOnly
  <2>2. TypeOK'
    BY <2>1, LockStep DEF TypeOK
  <2>3. OneVotePerRound' /\ DecisionsCommitted'
    BY <2>1 DEF OneVotePerRound, DecisionsCommitted, Committers
  <2>4. \A k, q, a : Evidence(k, q, a) => Evidence(k, q, a)'
    BY <2>1 DEF Evidence, Polka, Voters, VotesOf
  <2>5. LocksJustified'
    <3> SUFFICES ASSUME NEW k \in Correct, lock'[k] # NoBlock
                 PROVE  /\ Number[lock'[k]] = height[k]
                        /\ lock'[k] \notin BadBlock => \E q \in Rounds : Evidence(k, q, lock[k])'
      BY <2>1 DEF LocksJustified
    <3>1. CASE k = n
      BY <2>1, <3>1, LockStep
    <3>2. CASE k # n
      BY <2>1, <2>4, <3>2, LockStep DEF LocksJustified
    <3> QED
      BY <3>1, <3>2
  <2>6. CommitsJustified'
    <3>1. \A o \in votes : o.from \in Correct /\ o.digest \in Block
      BY DEF TypeOK, Vote
    <3> QED
      BY <2>1, <2>4, <3>1, LockStep DEF CommitsJustified
  <2> QED
    BY <2>2, <2>3, <2>5, <2>6
<1>4. ASSUME NEW n \in Correct, Unlock(n) PROVE IInv'
  <2>1. /\ votes' = votes /\ height' = height /\ decided' = decided
        /\ lock[n] \in BadBlock /\ lock' = [lock EXCEPT ![n] = NoBlock]
    BY <1>4 DEF Unlock
  <2>2. TypeOK'
    BY <2>1 DEF TypeOK
  <2>3. OneVotePerRound' /\ DecisionsCommitted'
    BY <2>1 DEF OneVotePerRound, DecisionsCommitted, Committers
  <2>4. \A k, q, a : Evidence(k, q, a) => Evidence(k, q, a)'
    BY <2>1 DEF Evidence, Polka, Voters, VotesOf
  <2>5. LocksJustified'
    BY <2>1, <2>4 DEF LocksJustified, TypeOK
  <2>6. CommitsJustified'
    <3>1. \A o \in votes : o.from \in Correct /\ o.digest \in Block
      BY DEF TypeOK, Vote
    <3> QED
      BY <2>1, <2>4, <3>1 DEF CommitsJustified, TypeOK
  <2> QED
    BY <2>2, <2>3, <2>5, <2>6
<1>5. ASSUME NEW n \in Correct, NEW h \in {Number[b] + 1 : b \in Block}, NextHeight(n, h) PROVE IInv'
  <2>1. /\ votes' = votes /\ decided' = decided /\ h > height[n]
        /\ height' = [height EXCEPT ![n] = h] /\ lock' = [lock EXCEPT ![n] = NoBlock]
    BY <1>5 DEF NextHeight
  <2>2. h \in Nat /\ height \in [Correct -> Nat] /\ lock \in [Correct -> Block \cup {NoBlock}]
    BY VotingAssumption DEF TypeOK
  <2>3. TypeOK'
    BY <2>1, <2>2 DEF TypeOK
  <2>4. \A o \in votes : /\ o.from \in Correct /\ o.digest \in Block /\ Number[o.digest] \in Nat
                         /\ Number[o.digest] <= height[o.from]
    BY VotingAssumption DEF TypeOK, Vote, OneVotePerRound
  <2>5. OneVotePerRound'
    BY <2>1, <2>2, <2>4 DEF OneVotePerRound
  <2>6. DecisionsCommitted'
    BY <2>1 DEF DecisionsCommitted, Committers
  <2>7. \A k, q, a : Evidence(k, q, a) => Evidence(k, q, a)'
    BY <2>1 DEF Evidence, Polka, Voters, VotesOf
  <2>8. LocksJustified'
    BY <2>1, <2>2, <2>7 DEF LocksJustified
  <2>9. CommitsJustified'
    BY <2>1, <2>2, <2>4, <2>7 DEF CommitsJustified
  <2> QED
    BY <2>3, <2>5, <2>6, <2>8, <2>9
<1>6. ASSUME NEW b \in Block, Decide(b) PROVE IInv'
  <2>1. /\ votes' = votes /\ height' = height /\ lock' = lock /\ decided' = decided \cup {b}
        /\ b \notin BadBlock /\ EnoughCommittedSeals(Cardinality(Committers(b)), Size)
    BY <1>6 DEF Decide
  <2>2. TypeOK'
    BY <2>1 DEF TypeOK
  <2>3. OneVotePerRound' /\ DecisionsCommitted'
    BY <2>1, ZenonT(30) DEF OneVotePerRound, DecisionsCommitted, Committers
  <2>4. LocksJustified' /\ CommitsJustified'
    BY <2>1, SMTT(60) DEF LocksJustified, CommitsJustified, Evidence, Polka, Voters, VotesOf
  <2> QED
    BY <2>2, <2>3, <2>4
<1>7. CASE UNCHANGED vars
  <2>1. votes' = votes /\ height' = height /\ lock' = lock /\ decided' = decided
    BY <1>7 DEF vars
  <2>2. TypeOK' /\ OneVotePerRound' /\ DecisionsCommitted'
    BY <2>1 DEF TypeOK, OneVotePerRound, DecisionsCommitted, Committers
  <2>3. LocksJustified' /\ CommitsJustified'
    <3>1. \A k, q, a : Evidence(k, q, a) => Evidence(k, q, a)'
      BY <2>1 DEF Evidence, Polka, Voters, VotesOf
    <3> QED
      BY <2>1, <3>1 DEF LocksJustified, CommitsJustified
  <2> QED
    BY <2>2, <2>3
<1> QED
  BY <1>1, <1>2, <1>3, <1>4, <1>5, <1>6, <1>7 DEF Next

\* Two blocks of one height cannot both be inserted: take the highest round
\* that justifies a COMMIT to either; its quorum contains a correct validator
\* that committed to the other block, whose justification is in a lower or the
\* same round, so that it could no longer vote for this block.
LEMMA IInvAgreement == IInv => Agreement
<1> SUFFICES ASSUME IInv, NEW b1 \in decided, NEW b2 \in decided,
                    Number[b1] = Number[b2], b1 # b2
             PROVE  FALSE
  BY DEF Agreement
<1> USE DEF IInv
<1> DEFINE Justifies(r, b) == \E m \in votes : /\ m.code = "commit" /\ m.digest = b
                                              /\ Evidence(m.from, r, b)
           S == {r \in Rounds : Justifies(r, b1) \/ Justifies(r, b2)}
<1>1. ASSUME NEW x \in decided, NEW P \in SUBSET Validators,
             Cardinality(P) >= RequiredMessageCount(Size)
      PROVE  \E m \in votes : /\ m.code = "commit" /\ m.digest = x /\ m.from \in P
                              /\ \E r \in Rounds : Evidence(m.from, r, x)
  <2>1. /\ x \notin BadBlock /\ EnoughCommittedSeals(Cardinality(Committers(x)), Size)
        /\ Committers(x) \in SUBSET Validators
    BY DEF DecisionsCommitted, Committers
  <2>2. PICK v \in P \cap Committers(x) : v \in Correct
    BY <1>1, <2>1, QuorumMeetsCommitters
  <2> QED
    BY <2>1, <2>2 DEF Committers, CommitsJustified
<1>2. S # {}
  <2>1. Cardinality(Validators) >= RequiredMessageCount(Size)
    BY ThresholdType DEF RequiredMessageCount, Size
  <2> QED
    BY <1>1, <2>1
<1>3. PICK r \in S : \A q \in S : q <= r
  <2> HIDE DEF S
  <2>1. S \in SUBSET Rounds
    BY DEF S
  <2> QED
    BY <1>2, <2>1, HighestRound
<1>4. ASSUME NEW x \in {b1, b2}, NEW y \in {b1, b2}, x # y, Justifies(r, x) PROVE FALSE
  <2>1. Polka(r, x) /\ Voters(r, x) \in SUBSET Validators
    BY <1>4 DEF Evidence, Voters
  <2>2. PICK m \in votes : /\ m.code = "commit" /\ m.digest = y /\ m.from \in Voters(r, x)
                          /\ \E q \in Rounds : Evidence(m.from, q, y)
    BY <1>1, <2>1 DEF Polka
  <2>3. PICK q \in Rounds : Evidence(m.from, q, y)
    BY <2>2
  <2>4. q \in S
    BY <2>2, <2>3
  <2>5. PICK o \in votes : o.from = m.from /\ o.round = r /\ o.digest = x
    BY <2>2 DEF Voters, TypeOK, Vote
  <2>6. o.round < q
    BY <1>4, <2>3, <2>5 DEF Evidence, VotesOf
  <2> QED
    BY <1>3, <2>4, <2>5, <2>6, VotingAssumption DEF Rounds
<1> QED
  BY <1>3, <1>4

\* The blocks inserted anywhere agree at every height, for every validator set
\* whose faulty members are at most F (core.go: RequiredMessageCount,
\* engine.go: verifyCommittedSeals, roundstate.go: LockHash).
THEOREM VotingAgreement == Spec => []Agreement
<1>1. Init => IInv
  BY InitIInv
<1>2. IInv /\ [Next]_vars => IInv'
  BY NextIInv
<1>3. IInv => Agreement
  BY IInvAgreement
<1> QED
  BY <1>1, <1>2, <1>3, PTL DEF Spec

=============================================================================
