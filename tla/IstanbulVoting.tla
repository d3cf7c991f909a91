--------------------------- MODULE IstanbulVoting ---------------------------
(***************************************************************************)
(* What the Istanbul engine promises about votes, without messages in      *)
(* flight, timers, backlogs or round changes: the rules under which a      *)
(* correct validator casts PREPARE and COMMIT votes, locks a block and     *)
(* inserts one.  IstanbulCore implements this specification.               *)
(***************************************************************************)
EXTENDS ValidatorSet

CONSTANTS
  Correct,   \* validators that follow the rules
  Block,
  NoBlock,
  Number,    \* height of a block
  BadBlock,  \* blocks whose insertion fails
  MaxRound   \* bound: no vote is cast in a higher round

ASSUME VotingAssumption ==
  /\ Correct \subseteq Validators
  /\ NoBlock \notin Block
  /\ BadBlock \subseteq Block
  /\ \A b \in Block : Number[b] \in Nat
  /\ MaxRound \in Nat

\* The validators outside Correct are at most F, and a validator set of n has
\* n - RequiredMessageCount(n) <= F(n): n is 3, or not a multiple of 3.
ASSUME FaultAssumption ==
  /\ Cardinality(Validators \ Correct) <= F(Size)
  /\ Size - RequiredMessageCount(Size) <= F(Size)

VARIABLES
  votes,   \* votes cast by correct validators
  height,  \* height[n]: height that n is deciding (current.sequence)
  lock,    \* lock[n]: block n is locked on at this height
  decided  \* blocks some validator has inserted

vars == <<votes, height, lock, decided>>

Rounds == 0 .. MaxRound

Vote == [code : {"prepare", "commit"}, from : Correct, round : Rounds, digest : Block]

VotesOf(n, h) == {m \in votes : m.from = n /\ Number[m.digest] = h}

\* A validator outside Correct votes for everything.
Voters(r, b) ==
  {v \in Validators : v \notin Correct
                      \/ \E m \in votes : m.from = v /\ m.round = r /\ m.digest = b}

Polka(r, b) == Cardinality(Voters(r, b)) >= RequiredMessageCount(Size)

Committers(b) ==
  {v \in Validators : v \notin Correct
                      \/ \E m \in votes : m.from = v /\ m.digest = b /\ m.code = "commit"}

\* The lock is not looked at.
MutFree(n, b) == TRUE

\* n may act for b: its lock allows it.
Free(n, b) == lock[n] \in {NoBlock, b} \cup BadBlock

Init ==
  /\ votes = {}
  /\ height = [n \in Correct |-> 1]
  /\ lock = [n \in Correct |-> NoBlock]
  /\ decided = {}

-----------------------------------------------------------------------------
\* A vote for the block of the current height that the lock allows, in a round
\* that is not lower than that of earlier votes; one block per round; COMMIT
\* only for the locked block.
CastVote(n, m) ==
  /\ m \in Vote /\ m.from = n
  /\ Number[m.digest] = height[n]
  /\ Free(n, m.digest)
  /\ \A o \in VotesOf(n, height[n]) : o.round < m.round \/ (o.round = m.round /\ o.digest = m.digest)
  /\ m.code = "commit" => lock[n] = m.digest
  /\ votes' = votes \cup {m}

\* Votes of different rounds are counted together.
MutLockBlock(n, r, b) ==
  /\ Number[b] = height[n]
  /\ Free(n, b)
  /\ Cardinality(UNION {Voters(q, b) : q \in Rounds})' >= RequiredMessageCount(Size)
  /\ \A o \in VotesOf(n, height[n])' : o.digest = b \/ o.round < r
  /\ lock' = [lock EXCEPT ![n] = b]

\* Lock b after a quorum of PREPARE and COMMIT votes for it in round r.
LockBlock(n, r, b) ==
  /\ Number[b] = height[n]
  /\ Free(n, b)
  /\ Polka(r, b)'
  /\ \A o \in VotesOf(n, height[n])' : o.digest = b \/ o.round < r
  /\ lock' = [lock EXCEPT ![n] = b]

Vote1(n, m) == CastVote(n, m) /\ UNCHANGED <<height, lock, decided>>

LockOnly(n, r, b) == UNCHANGED <<votes, height, decided>> /\ LockBlock(n, r, b)

\* The validator's own vote completes the quorum.
VoteAndLock(n, m) ==
  /\ CastVote(n, m)
  /\ UNCHANGED <<height, decided>>
  /\ LockBlock(n, m.round, m.digest)

\* A lock on a block whose insertion failed is dropped.
Unlock(n) ==
  /\ lock[n] \in BadBlock
  /\ lock' = [lock EXCEPT ![n] = NoBlock]
  /\ UNCHANGED <<votes, height, decided>>

NextHeight(n, h) ==
  /\ h > height[n]
  /\ height' = [height EXCEPT ![n] = h]
  /\ lock' = [lock EXCEPT ![n] = NoBlock]
  /\ UNCHANGED <<votes, decided>>

\* A block is inserted after enough validators have committed to it, in
\* whatever rounds: a committed seal does not name its round.
Decide(b) ==
  /\ b \in Block \ BadBlock
  /\ EnoughCommittedSeals(Cardinality(Committers(b)), Size)
  /\ decided' = decided \cup {b}
  /\ UNCHANGED <<votes, height, lock>>

Next ==
  \/ \E n \in Correct, m \in Vote : Vote1(n, m) \/ VoteAndLock(n, m)
  \/ \E n \in Correct, r \in Rounds, b \in Block : LockOnly(n, r, b)
  \/ \E n \in Correct : Unlock(n)
  \/ \E n \in Correct, h \in {Number[b] + 1 : b \in Block} : NextHeight(n, h)
  \/ \E b \in Block : Decide(b)

Spec == Init /\ [][Next]_vars

-----------------------------------------------------------------------------
(* Properties *)

TypeOK ==
  /\ votes \subseteq Vote
  /\ height \in [Correct -> Nat]
  /\ lock \in [Correct -> Block \cup {NoBlock}]
  /\ decided \subseteq Block

\* At most one block is inserted at a height.
Agreement == \A b1, b2 \in decided : Number[b1] = Number[b2] => b1 = b2

\* Round r is the reason why n backs b: b had a quorum in r, and n voted for
\* other blocks of that height in lower rounds only.
Evidence(n, r, b) ==
  /\ Polka(r, b)
  /\ \A o \in VotesOf(n, Number[b]) : o.digest = b \/ o.round < r

\* A validator votes for one block in a round, and never above its height.
OneVotePerRound ==
  \A m \in votes :
    /\ Number[m.digest] <= height[m.from]
    /\ \A o \in votes :
         /\ o.from = m.from /\ o.round = m.round
         /\ Number[o.digest] = Number[m.digest]
         => o.digest = m.digest

LocksJustified ==
  \A n \in Correct :
    lock[n] # NoBlock =>
      /\ Number[lock[n]] = height[n]
      /\ lock[n] \notin BadBlock => \E r \in Rounds : Evidence(n, r, lock[n])

CommitsJustified ==
  \A m \in votes :
    m.code = "commit" /\ m.digest \notin BadBlock =>
      /\ \E r \in Rounds : Evidence(m.from, r, m.digest)
      /\ Number[m.digest] = height[m.from] => lock[m.from] = m.digest

DecisionsCommitted ==
  \A b \in decided :
    b \notin BadBlock /\ EnoughCommittedSeals(Cardinality(Committers(b)), Size)

\* What makes Agreement inductive: whoever commits to an insertable block does
\* so because of a quorum in some round, and keeps voting for it from that
\* round on.
IInv ==
  /\ TypeOK
  /\ OneVotePerRound
  /\ LocksJustified
  /\ CommitsJustified
  /\ DecisionsCommitted

=============================================================================
