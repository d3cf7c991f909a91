------------------------- MODULE IstanbulCoreProofs -------------------------
(***************************************************************************)
(* Theorems about a single validator of IstanbulCore, for every validator  *)
(* set, set of blocks, environment and bound.                              *)
(***************************************************************************)
EXTENDS IstanbulCore, FiniteSetTheorems, TLAPS

-----------------------------------------------------------------------------
(* Types *)

Hash == Block \cup {NoBlock}

LEMMA SizeType == Size \in Nat \ {0}
  BY ValidatorsAssumption, FS_CardinalityType, FS_EmptySet DEF Size

\* The round robin always finds a validator.
LEMMA ProposerType ==
  ASSUME NEW a \in Validators \cup {NoAddress}, NEW r \in Nat
  PROVE  roundRobinProposer(a, r) \in Validators
<1> DEFINE seed == IF a = NoAddress THEN r ELSE calcSeed(a, r) + 1
<1>1. \A v \in Validators : Index[v] \in Nat
  BY IndexAssumption
<1>2. seed \in Nat
  BY <1>1, ValidatorsAssumption DEF calcSeed
<1>3. seed % Size \in 0 .. Size - 1
  <2> HIDE DEF seed
  <2> QED BY <1>2, SizeType
<1>4. \E v \in Validators : Index[v] = seed % Size
  BY <1>3, IndexAssumption DEF Size
<1> QED
  BY <1>4 DEF roundRobinProposer, GetByIndex

\* c1 is a record of the validator that c is a record of.
SameNode(c, c1) == c1 \in Core /\ c1.address = c.address

LEMMA SameNodeTrans ==
  ASSUME NEW a, NEW b, NEW c, SameNode(a, b), SameNode(b, c)
  PROVE  SameNode(a, c)
  BY DEF SameNode

LEMMA BroadcastType ==
  ASSUME NEW c \in Core, NEW code \in Codes, NEW s \in Nat, NEW r \in Nat, NEW d \in Hash
  PROVE  SameNode(c, broadcast(c, code, s, r, d))
<1> DEFINE m == [code |-> code, sequence |-> s, round |-> r, digest |-> d, from |-> c.address,
                 seal |-> IF code = "commit" THEN c.preprepare ELSE NoBlock]
<1>1. c.address \in Validators /\ c.preprepare \in Hash
  BY NodesAssumption DEF Core, Hash
<1>2. m \in Message
  BY <1>1 DEF Message, Hash
<1> HIDE DEF m
<1>3. [c EXCEPT !.posted = @ \cup {m}] \in Core
  BY <1>2 DEF Core
<1>4. [c EXCEPT !.posted = @ \cup {m}].address = c.address
  BY DEF Core
<1> QED
  BY <1>3, <1>4 DEF m, SameNode, broadcast

LEMMA ProcessBacklogType ==
  ASSUME NEW c \in Core PROVE SameNode(c, processBacklog(c))
<1> DEFINE p == c.posted \cup {m \in c.backlog : checkMessage(c, m) = "nil"}
           b == {m \in c.backlog : checkMessage(c, m) = "future"}
<1>1. p \in SUBSET Message /\ b \in SUBSET Message
  BY DEF Core
<1>2. processBacklog(c) = [c EXCEPT !.posted = p, !.backlog = b]
  BY DEF processBacklog
<1> HIDE DEF p, b
<1>3. [c EXCEPT !.posted = p, !.backlog = b] \in Core
  BY <1>1, ZenonT(60) DEF Core
<1>4. [c EXCEPT !.posted = p, !.backlog = b].address = c.address
  BY DEF Core
<1> QED
  BY <1>2, <1>3, <1>4 DEF SameNode

LEMMA ProcessPendingRequestsType ==
  ASSUME NEW c \in Core PROVE SameNode(c, processPendingRequests(c))
<1> DEFINE q == c.requests \cup {b \in c.pendingRequests : Number[b] = c.sequence}
           p == {b \in c.pendingRequests : Number[b] > c.sequence}
<1>1. p \in SUBSET Block /\ q \in SUBSET Block
  BY DEF Core
<1>2. processPendingRequests(c) = [c EXCEPT !.requests = q, !.pendingRequests = p]
  BY DEF processPendingRequests
<1> HIDE DEF p, q
<1>3. [c EXCEPT !.requests = q, !.pendingRequests = p] \in Core
  BY <1>1, ZenonT(60) DEF Core
<1>4. [c EXCEPT !.requests = q, !.pendingRequests = p].address = c.address
  BY DEF Core
<1> QED
  BY <1>2, <1>3, <1>4 DEF SameNode

LEMMA SetStateType ==
  ASSUME NEW c \in Core, NEW s \in 0 .. 3 PROVE SameNode(c, setState(c, s))
<1> DEFINE c1 == [c EXCEPT !.state = s]
           c2 == IF s = StateAcceptRequest THEN processPendingRequests(c1) ELSE c1
<1>1. SameNode(c, c1)
  BY DEF Core, SameNode
<1> HIDE DEF c1
<1>2. SameNode(c1, c2)
  BY <1>1, ProcessPendingRequestsType DEF SameNode
<1> HIDE DEF c2
<1>3. SameNode(c2, processBacklog(c2))
  BY <1>2, ProcessBacklogType DEF SameNode
<1>4. setState(c, s) = processBacklog(c2)
  BY DEF setState, c1, c2
<1> QED
  BY <1>1, <1>2, <1>3, <1>4, SameNodeTrans

LEMMA NewRoundChangeTimerType ==
  ASSUME NEW c \in Core
  PROVE  /\ SameNode(c, newRoundChangeTimer(c))
         /\ newRoundChangeTimer(c).timers =
              c.timers \cup {[sequence |-> c.sequence, round |-> c.round + 1]}
<1> DEFINE t == c.timers \cup {[sequence |-> c.sequence, round |-> c.round + 1]}
<1>1. t \in SUBSET View
  BY DEF Core, View
<1>2. newRoundChangeTimer(c) = [c EXCEPT !.futurePreprepare = {}, !.timers = t]
  BY DEF newRoundChangeTimer
<1> HIDE DEF t
<1>3. [c EXCEPT !.futurePreprepare = {}, !.timers = t] \in Core
  BY <1>1, ZenonT(60) DEF Core
<1>4. /\ [c EXCEPT !.futurePreprepare = {}, !.timers = t].address = c.address
      /\ [c EXCEPT !.futurePreprepare = {}, !.timers = t].timers = t
  BY DEF Core
<1> QED
  BY <1>2, <1>3, <1>4 DEF SameNode, t

LEMMA UpdateRoundStateType ==
  ASSUME NEW c \in Core, NEW s \in Nat, NEW r \in Nat, NEW rc \in BOOLEAN
  PROVE  /\ SameNode(c, updateRoundState(c, s, r, rc))
         /\ updateRoundState(c, s, r, rc).running
         /\ updateRoundState(c, s, r, rc).sequence = s
         /\ updateRoundState(c, s, r, rc).round = r
<1> DEFINE locked == rc /\ c.running /\ IsHashLocked(c)
           p == IF locked THEN c.preprepare ELSE NoBlock
           l == IF locked THEN c.lockedHash ELSE NoBlock
           q == IF rc /\ c.running THEN c.pendingRequest ELSE NoBlock
           c1 == [c EXCEPT !.running = TRUE, !.sequence = s, !.round = r, !.preprepare = p,
                           !.lockedHash = l, !.prepares = {}, !.commits = {},
                           !.pendingRequest = q]
<1>1. p \in Hash /\ l \in Hash /\ q \in Hash
  BY DEF Core, Hash
<1>2. updateRoundState(c, s, r, rc) = c1
  BY DEF updateRoundState
<1> HIDE DEF p, l, q
<1>3. c1 \in Core
  BY <1>1, ZenonT(60) DEF Core, Hash
<1>4. c1.address = c.address /\ c1.running /\ c1.sequence = s /\ c1.round = r
  BY DEF Core
<1> QED
  BY <1>2, <1>3, <1>4 DEF SameNode

-----------------------------------------------------------------------------
(* What a step of one validator keeps *)

\* The view, the state of the round and the chain are untouched.
SameRound(c, c1) ==
  /\ c1.running = c.running
  /\ c1.sequence = c.sequence /\ c1.round = c.round
  /\ c1.waiting = c.waiting
  /\ c1.head = c.head /\ c1.finalCommitted = c.finalCommitted
  /\ c.timers \subseteq c1.timers

\* ... and neither is what the backlog depends on.
Quiet(c, c1) ==
  /\ SameNode(c, c1)
  /\ SameRound(c, c1)
  /\ c1.state = c.state
  /\ c1.backlog = c.backlog

Released(c) == \A m \in c.backlog : checkMessage(c, m) # "nil"

NextView(c) == [sequence |-> c.sequence, round |-> c.round + 1]

Armed(c) ==
  \/ NextView(c) \in c.timers
  \/ c.finalCommitted /\ Number[c.head] >= c.sequence

Advances(c, c1) ==
  c.sequence < c1.sequence \/ (c.sequence = c1.sequence /\ c.round <= c1.round)

\* A step of a running validator that handles an event.
Step(c, c1) ==
  /\ SameNode(c, c1)
  /\ c1.running
  /\ c1.head = c.head /\ c1.finalCommitted = c.finalCommitted
  /\ Advances(c, c1)
  /\ Released(c) => Released(c1)
  /\ Armed(c) => Armed(c1)

LEMMA QuietTrans ==
  ASSUME NEW a, NEW b, NEW c, Quiet(a, b), Quiet(b, c)
  PROVE  Quiet(a, c)
  BY DEF Quiet, SameNode, SameRound

LEMMA QuietRefl ==
  ASSUME NEW c \in Core PROVE Quiet(c, c)
  BY DEF Quiet, SameNode, SameRound

LEMMA StepTrans ==
  ASSUME NEW a \in Core, NEW b \in Core, NEW c \in Core, Step(a, b), Step(b, c)
  PROVE  Step(a, c)
<1>1. /\ a.sequence \in Nat /\ b.sequence \in Nat /\ c.sequence \in Nat
      /\ a.round \in Nat /\ b.round \in Nat /\ c.round \in Nat
  BY DEF Core
<1>2. Advances(a, c)
  BY <1>1 DEF Step, Advances
<1> QED
  BY <1>2 DEF Step, SameNode

LEMMA StepRefl ==
  ASSUME NEW c \in Core, c.running PROVE Step(c, c)
<1>1. c.sequence \in Nat /\ c.round \in Nat
  BY DEF Core
<1> QED
  BY <1>1 DEF Step, SameNode, Advances

\* checkMessage looks at the view, the state and waitingForRoundChange only.
LEMMA CheckDependsOn ==
  ASSUME NEW c, NEW c1, NEW m,
         c1.sequence = c.sequence, c1.round = c.round,
         c1.waiting = c.waiting, c1.state = c.state
  PROVE  checkMessage(c1, m) = checkMessage(c, m)
  BY DEF checkMessage, Earlier

LEMMA QuietIsStep ==
  ASSUME NEW c \in Core, NEW c1, c.running, Quiet(c, c1)
  PROVE  Step(c, c1)
<1>1. c.sequence \in Nat /\ c.round \in Nat
  BY DEF Core
<1>2. Advances(c, c1)
  BY <1>1 DEF Quiet, SameRound, Advances
<1>3. \A m : checkMessage(c1, m) = checkMessage(c, m)
  BY CheckDependsOn DEF Quiet, SameRound
<1>4. Released(c) => Released(c1)
  BY <1>3 DEF Released, Quiet
<1>5. Armed(c) => Armed(c1)
  BY DEF Armed, NextView, Quiet, SameRound
<1> QED
  BY <1>2, <1>4, <1>5 DEF Step, Quiet, SameRound

LEMMA BroadcastQuiet ==
  ASSUME NEW c \in Core, NEW code \in Codes, NEW s \in Nat, NEW r \in Nat, NEW d \in Hash
  PROVE  Quiet(c, broadcast(c, code, s, r, d))
<1>1. SameNode(c, broadcast(c, code, s, r, d))
  BY BroadcastType
<1> DEFINE m == [code |-> code, sequence |-> s, round |-> r, digest |-> d, from |-> c.address,
                 seal |-> IF code = "commit" THEN c.preprepare ELSE NoBlock]
           c1 == [c EXCEPT !.posted = @ \cup {m}]
<1>2. broadcast(c, code, s, r, d) = c1
  BY DEF broadcast
<1> HIDE DEF m
<1>3. SameRound(c, c1) /\ c1.state = c.state /\ c1.backlog = c.backlog
  BY DEF Core, SameRound
<1> QED
  BY <1>1, <1>2, <1>3 DEF Quiet

LEMMA SendQuiet ==
  ASSUME NEW c \in Core
  PROVE  /\ Quiet(c, sendPrepare(c))
         /\ Quiet(c, sendCommit(c))
         /\ \A b \in Block : Quiet(c, sendPreprepare(c, b))
<1>1. c.sequence \in Nat /\ c.round \in Nat /\ c.preprepare \in Hash
  BY DEF Core, Hash
<1>2. {"prepare", "commit", "preprepare"} \subseteq Codes /\ Block \subseteq Hash
  BY DEF Codes, Hash
<1> QED
  BY <1>1, <1>2, BroadcastQuiet, QuietRefl DEF sendPrepare, sendCommit, sendPreprepare

LEMMA FieldsQuiet ==
  ASSUME NEW c \in Core
  PROVE  /\ Quiet(c, LockHash(c))
         /\ Quiet(c, UnlockHash(c))
         /\ \A b \in Hash : Quiet(c, acceptPreprepare(c, b))
         /\ \A v \in Validators : Quiet(c, [c EXCEPT !.prepares = @ \cup {v}])
         /\ \A v \in Validators : Quiet(c, [c EXCEPT !.commits = @ \cup {v}])
<1>1. ASSUME NEW b \in Hash PROVE Quiet(c, [c EXCEPT !.lockedHash = b])
  <2>1. [c EXCEPT !.lockedHash = b] \in Core
    BY DEF Core, Hash
  <2> QED BY <2>1 DEF Core, Quiet, SameNode, SameRound
<1>2. ASSUME NEW b \in Hash PROVE Quiet(c, acceptPreprepare(c, b))
  <2>1. [c EXCEPT !.preprepare = b] \in Core
    BY DEF Core, Hash
  <2> QED BY <2>1 DEF Core, Quiet, SameNode, SameRound, acceptPreprepare
<1>3. ASSUME NEW v \in Validators PROVE Quiet(c, [c EXCEPT !.prepares = @ \cup {v}])
  <2>1. [c EXCEPT !.prepares = @ \cup {v}] \in Core
    BY DEF Core
  <2> QED BY <2>1 DEF Core, Quiet, SameNode, SameRound
<1>4. ASSUME NEW v \in Validators PROVE Quiet(c, [c EXCEPT !.commits = @ \cup {v}])
  <2>1. [c EXCEPT !.commits = @ \cup {v}] \in Core
    BY DEF Core
  <2> QED BY <2>1 DEF Core, Quiet, SameNode, SameRound
<1>5. c.preprepare \in Hash /\ NoBlock \in Hash
  BY DEF Core, Hash
<1> QED
  BY <1>1, <1>2, <1>3, <1>4, <1>5, QuietRefl DEF LockHash, UnlockHash

\* setState releases from the backlog all that has become current.
LEMMA SetStateStep ==
  ASSUME NEW c \in Core, NEW s \in 0 .. 3
  PROVE  /\ SameNode(c, setState(c, s))
         /\ SameRound(c, setState(c, s))
         /\ setState(c, s).state = s
         /\ Released(setState(c, s))
<1> DEFINE c1 == [c EXCEPT !.state = s]
           c2 == IF s = StateAcceptRequest THEN processPendingRequests(c1) ELSE c1
           c3 == processBacklog(c2)
<1>1. c1 \in Core /\ SameRound(c, c1) /\ c1.state = s
  BY DEF Core, SameRound
<1>2. c2 \in Core
  BY <1>1, ProcessPendingRequestsType DEF SameNode
<1>3. SameRound(c1, c2) /\ c2.state = c1.state
  <2> HIDE DEF c1
  <2> QED BY <1>1 DEF Core, SameRound, processPendingRequests
<1> HIDE DEF c2
<1>4. c3 \in Core
  BY <1>2, ProcessBacklogType DEF SameNode
<1>5. SameRound(c2, c3) /\ c3.state = c2.state
      /\ c3.backlog = {m \in c2.backlog : checkMessage(c2, m) = "future"}
  BY <1>2 DEF Core, SameRound, processBacklog
<1>6. \A m : checkMessage(c3, m) = checkMessage(c2, m)
  <2> HIDE DEF c3
  <2> QED BY <1>5, CheckDependsOn DEF SameRound
<1>7. Released(c3)
  BY <1>5, <1>6 DEF Released
<1>8. setState(c, s) = c3
  BY DEF setState, c2
<1>9. SameRound(c, c3)
  <2> HIDE DEF c1, c3
  <2> QED BY <1>1, <1>3, <1>5 DEF SameRound
<1> QED
  BY <1>1, <1>3, <1>5, <1>7, <1>8, <1>9, SetStateType

LEMMA SetStateIsStep ==
  ASSUME NEW c \in Core, NEW s \in 0 .. 3, c.running
  PROVE  Step(c, setState(c, s))
<1> DEFINE c1 == setState(c, s)
<1>1. SameNode(c, c1) /\ SameRound(c, c1) /\ Released(c1)
  BY SetStateStep
<1>2. c.sequence \in Nat /\ c.round \in Nat
  BY DEF Core
<1> HIDE DEF c1
<1>3. Advances(c, c1)
  BY <1>1, <1>2 DEF SameRound, Advances
<1>4. Armed(c) => Armed(c1)
  BY <1>1 DEF Armed, NextView, SameRound
<1>5. Step(c, c1)
  BY <1>1, <1>3, <1>4 DEF Step, SameRound
<1> QED
  BY <1>5 DEF c1

-----------------------------------------------------------------------------
(* Rounds *)

\* The record of a validator that has just entered a round.
Entered(c, c1) ==
  /\ SameNode(c, c1)
  /\ c1.running
  /\ c1.head = c.head /\ c1.finalCommitted = c.finalCommitted
  /\ Released(c1)
  /\ NextView(c1) \in c1.timers

LEMMA TimerArms ==
  ASSUME NEW c \in Core, c.running
  PROVE  LET c1 == newRoundChangeTimer(c)
         IN  /\ SameNode(c, c1) /\ c1.running
             /\ c1.head = c.head /\ c1.finalCommitted = c.finalCommitted
             /\ c1.sequence = c.sequence /\ c1.round = c.round
             /\ Released(c) => Released(c1)
             /\ NextView(c1) \in c1.timers
<1> DEFINE c1 == newRoundChangeTimer(c)
<1>1. SameNode(c, c1) /\ c1.timers = c.timers \cup {NextView(c)}
  BY NewRoundChangeTimerType DEF NextView
<1>2. /\ c1.running /\ c1.head = c.head /\ c1.finalCommitted = c.finalCommitted
      /\ c1.sequence = c.sequence /\ c1.round = c.round
      /\ c1.waiting = c.waiting /\ c1.state = c.state /\ c1.backlog = c.backlog
  BY DEF newRoundChangeTimer, Core
<1> HIDE DEF c1
<1>3. \A m : checkMessage(c1, m) = checkMessage(c, m)
  BY <1>2, CheckDependsOn
<1>4. Released(c) => Released(c1)
  BY <1>2, <1>3 DEF Released
<1>5. NextView(c1) \in c1.timers
  BY <1>1, <1>2 DEF NextView
<1> QED
  BY <1>1, <1>2, <1>4, <1>5 DEF c1

\* startNewRound does nothing, or enters the next height, or enters a round of
\* this height that is not lower.
LEMMA StartNewRoundCases ==
  ASSUME NEW c \in Core, NEW r \in Nat
  PROVE  LET c1 == startNewRound(c, r)
             fresh == ~c.running \/ Number[c.head] >= c.sequence
         IN  \/ ~fresh /\ c1 = c
             \/ fresh /\ Entered(c, c1) /\ c1.sequence = Number[c.head] + 1
             \/ /\ ~fresh /\ Entered(c, c1)
                /\ c1.sequence = c.sequence /\ c1.round >= c.round
<1> DEFINE last == Number[c.head]
           fresh == ~c.running \/ last >= c.sequence
           rc == ~fresh /\ last = c.sequence - 1 /\ r # 0 /\ r >= c.round
           newRound == IF rc THEN r ELSE 0
           seq == IF rc THEN c.sequence ELSE last + 1
           u == updateRoundState(c, seq, newRound, rc)
           p == roundRobinProposer(Author[c.head], newRound)
           u1 == [u EXCEPT !.roundChanges = {}, !.proposer = p, !.waiting = FALSE]
           c2 == setState(u1, StateAcceptRequest)
           proposal == IF IsHashLocked(c2) THEN c2.preprepare ELSE c2.pendingRequest
           c3 == IF rc /\ isProposer(c2) /\ proposal # NoBlock
                 THEN sendPreprepare(c2, proposal) ELSE c2
           c4 == newRoundChangeTimer(c3)
<1>1. startNewRound(c, r) = IF ~fresh /\ ~rc THEN c ELSE c4
  BY DEF startNewRound
<1>2. /\ c.sequence \in Nat /\ c.round \in Nat /\ c.head \in Block \cup {Genesis}
      /\ c.running \in BOOLEAN
  BY DEF Core
<1>3. last \in Nat /\ Author[c.head] \in Validators \cup {NoAddress}
  BY <1>2, BlockAssumption
<1>4. rc \in BOOLEAN /\ newRound \in Nat /\ seq \in Nat
  BY <1>2, <1>3
<1>5. p \in Validators
  BY <1>3, <1>4, ProposerType
<1>6. /\ SameNode(c, u) /\ u.running /\ u.sequence = seq /\ u.round = newRound
      /\ u.head = c.head /\ u.finalCommitted = c.finalCommitted
  <2>1. SameNode(c, u) /\ u.running /\ u.sequence = seq /\ u.round = newRound
    <3> HIDE DEF rc, newRound, seq
    <3> QED BY <1>4, UpdateRoundStateType
  <2>2. u.head = c.head /\ u.finalCommitted = c.finalCommitted
    <3> HIDE DEF rc, newRound, seq
    <3> QED BY DEF updateRoundState, Core
  <2> QED BY <2>1, <2>2, ZenonT(30)
<1> HIDE DEF p, u, rc, newRound, seq
<1>7. /\ SameNode(c, u1) /\ u1.running /\ u1.sequence = seq /\ u1.round = newRound
      /\ u1.head = c.head /\ u1.finalCommitted = c.finalCommitted
  <2>1. u1 \in Core
    <3>1. u \in Core
      BY <1>6 DEF SameNode
    <3>2. {} \in SUBSET (Nat \X Validators)
      OBVIOUS
    <3>3. [u EXCEPT !.roundChanges = {}] \in Core
      BY <3>1, <3>2 DEF Core
    <3>4. [[u EXCEPT !.roundChanges = {}] EXCEPT !.proposer = p, !.waiting = FALSE] \in Core
      <4> DEFINE w == [u EXCEPT !.roundChanges = {}]
      <4> HIDE DEF w
      <4>1. w \in Core
        BY <3>3 DEF w
      <4>2. [w EXCEPT !.proposer = p] \in Core
        BY <1>5, <4>1 DEF Core
      <4>3. [[w EXCEPT !.proposer = p] EXCEPT !.waiting = FALSE] \in Core
        BY <4>2, ZenonT(60) DEF Core
      <4>4. [w EXCEPT !.proposer = p, !.waiting = FALSE] \in Core
        BY <4>1, <4>3 DEF Core
      <4> QED BY <4>4 DEF w
    <3> QED BY <3>1, <3>4 DEF Core
  <2>2. /\ u1.address = u.address /\ u1.running = u.running /\ u1.sequence = u.sequence
        /\ u1.round = u.round /\ u1.head = u.head /\ u1.finalCommitted = u.finalCommitted
    BY <1>6, ZenonT(30) DEF SameNode, Core
  <2> QED BY <1>6, <2>1, <2>2 DEF SameNode
<1> HIDE DEF u1
<1>8. /\ SameNode(c, c2) /\ c2.running /\ c2.sequence = seq /\ c2.round = newRound
      /\ c2.head = c.head /\ c2.finalCommitted = c.finalCommitted /\ Released(c2)
  <2>1. SameNode(u1, c2) /\ SameRound(u1, c2) /\ Released(c2)
    BY <1>7, SetStateStep DEF SameNode, StateAcceptRequest
  <2> HIDE DEF c2
  <2> QED BY <1>7, <2>1 DEF SameNode, SameRound
<1> HIDE DEF c2
<1>9. Quiet(c2, c3)
  <2>1. proposal \in Block \cup {NoBlock} /\ c2 \in Core
    BY <1>8 DEF SameNode, Core
  <2> HIDE DEF proposal
  <2> QED BY <2>1, SendQuiet, QuietRefl
<1> HIDE DEF c3
<1>10. /\ SameNode(c, c3) /\ c3.running /\ c3.sequence = seq /\ c3.round = newRound
       /\ c3.head = c.head /\ c3.finalCommitted = c.finalCommitted /\ Released(c3)
  <2>1. Step(c2, c3)
    BY <1>8, <1>9, QuietIsStep DEF SameNode
  <2> QED
    BY <1>8, <1>9, <2>1 DEF Step, Quiet, SameNode, SameRound
<1>11. Entered(c, c4) /\ c4.sequence = seq /\ c4.round = newRound
  BY <1>10, TimerArms DEF SameNode, Entered
<1> HIDE DEF c4
<1>12. CASE fresh
  <2>1. ~rc /\ seq = last + 1
    BY <1>12 DEF rc, seq
  <2> QED BY <1>1, <1>11, <1>12, <2>1
<1>13. CASE ~fresh /\ rc
  <2>1. seq = c.sequence /\ newRound = r /\ r >= c.round
    BY <1>13 DEF rc, seq, newRound
  <2> QED BY <1>1, <1>11, <1>13, <2>1
<1> QED
  BY <1>1, <1>12, <1>13

LEMMA StartNewRoundStep ==
  ASSUME NEW c \in Core, NEW r \in Nat, c.running
  PROVE  Step(c, startNewRound(c, r))
<1> DEFINE c1 == startNewRound(c, r)
<1> HIDE DEF c1
<1>1. c.sequence \in Nat /\ c.round \in Nat /\ Number[c.head] \in Nat
  BY BlockAssumption DEF Core
<1>2. CASE c1 = c
  BY <1>2, StepRefl DEF c1
<1>3. CASE Entered(c, c1) /\ Advances(c, c1)
  <2>1. Armed(c1)
    BY <1>3 DEF Entered, Armed
  <2>2. Step(c, c1)
    BY <1>3, <2>1 DEF Entered, Step
  <2> QED BY <2>2 DEF c1
<1> QED
  <2>1. \/ c1 = c
        \/ Entered(c, c1) /\ c1.sequence = Number[c.head] + 1 /\ Number[c.head] >= c.sequence
        \/ Entered(c, c1) /\ c1.sequence = c.sequence /\ c1.round >= c.round
    BY StartNewRoundCases DEF c1
  <2>2. c1 = c \/ (Entered(c, c1) /\ Advances(c, c1))
    <3>1. ASSUME Entered(c, c1) PROVE c1.sequence \in Nat /\ c1.round \in Nat
      BY <3>1 DEF Entered, SameNode, Core
    <3> QED BY <1>1, <2>1, <3>1 DEF Advances
  <2> QED BY <1>2, <1>3, <2>2 DEF c1

\* Catching up with a higher round keeps the backlog closed: what was for a
\* later view is now old, or waits for the end of the round change.
LEMMA CatchUpRoundStep ==
  ASSUME NEW c \in Core, c.running, NEW r \in Nat, r > c.round
  PROVE  /\ Step(c, catchUpRound(c, r))
         /\ NextView(catchUpRound(c, r)) \in catchUpRound(c, r).timers
<1> DEFINE w == [c EXCEPT !.waiting = TRUE]
           u == updateRoundState(w, c.sequence, r, TRUE)
           rcs == {rc \in u.roundChanges : rc[1] >= r}
           u1 == [u EXCEPT !.roundChanges = rcs]
           c1 == newRoundChangeTimer(u1)
<1> HIDE DEF w, u, rcs, u1, c1
<1>1. catchUpRound(c, r) = c1
  BY DEF catchUpRound, w, u, rcs, u1, c1
<1>2. c.sequence \in Nat /\ c.round \in Nat
  BY DEF Core
<1>3. /\ SameNode(c, w) /\ w.head = c.head /\ w.finalCommitted = c.finalCommitted
      /\ w.backlog = c.backlog /\ w.waiting /\ w.sequence = c.sequence
  BY ZenonT(60) DEF w, Core, SameNode
<1>4. SameNode(w, u) /\ u.running /\ u.sequence = c.sequence /\ u.round = r
  BY <1>2, <1>3, UpdateRoundStateType, ZenonT(60) DEF u, SameNode
<1>5. /\ u.head = w.head /\ u.finalCommitted = w.finalCommitted
      /\ u.backlog = w.backlog /\ u.waiting = w.waiting
  BY <1>3, ZenonT(30) DEF u, updateRoundState, Core, SameNode
<1>6. rcs \in SUBSET (Nat \X Validators)
  <2>1. u.roundChanges \in SUBSET (Nat \X Validators)
    BY <1>4 DEF SameNode, Core
  <2> QED BY <2>1 DEF rcs
<1>7. u1 \in Core
  BY <1>4, <1>6 DEF SameNode, Core, u1
<1>8. /\ u1.address = u.address /\ u1.head = u.head /\ u1.finalCommitted = u.finalCommitted
      /\ u1.backlog = u.backlog /\ u1.waiting = u.waiting /\ u1.running = u.running
      /\ u1.sequence = u.sequence /\ u1.round = u.round
  BY <1>4, ZenonT(30) DEF u1, SameNode, Core
<1>9. /\ SameNode(c, u1) /\ u1.running /\ u1.waiting
      /\ u1.head = c.head /\ u1.finalCommitted = c.finalCommitted
      /\ u1.backlog = c.backlog /\ u1.sequence = c.sequence /\ u1.round = r
  BY <1>3, <1>4, <1>5, <1>7, <1>8 DEF SameNode
<1>10. ASSUME NEW m \in c.backlog, checkMessage(c, m) # "nil"
       PROVE  checkMessage(u1, m) # "nil"
  <2>1. m.sequence \in Nat /\ m.round \in Nat
    BY DEF Core, Message
  <2> QED
    BY <1>2, <1>9, <1>10, <2>1 DEF checkMessage, Earlier
<1>11. Released(c) => Released(u1)
  BY <1>9, <1>10 DEF Released
<1>12. /\ SameNode(u1, c1) /\ c1.running /\ c1.head = u1.head
       /\ c1.finalCommitted = u1.finalCommitted /\ c1.sequence = u1.sequence
       /\ c1.round = u1.round /\ (Released(u1) => Released(c1))
       /\ NextView(c1) \in c1.timers
  BY <1>7, <1>9, TimerArms DEF c1
<1>13. Armed(c1)
  BY <1>12 DEF Armed
<1>14. Advances(c, c1)
  BY <1>2, <1>9, <1>12 DEF Advances
<1> QED
  BY <1>1, <1>9, <1>11, <1>12, <1>13, <1>14 DEF Step, SameNode

LEMMA SendRoundChangeStep ==
  ASSUME NEW c \in Core, c.running, NEW r \in Nat
  PROVE  /\ Step(c, sendRoundChange(c, r))
         /\ r > c.round => Armed(sendRoundChange(c, r))
<1>1. c.sequence \in Nat /\ c.round \in Nat
  BY DEF Core
<1>2. CASE c.round >= r
  BY <1>1, <1>2, StepRefl DEF sendRoundChange
<1>3. CASE r > c.round
  <2> DEFINE c1 == catchUpRound(c, r)
             c2 == broadcast(c1, "roundchange", c.sequence, r, NoBlock)
  <2>1. sendRoundChange(c, r) = c2
    BY <1>1, <1>3 DEF sendRoundChange
  <2>2. Step(c, c1) /\ NextView(c1) \in c1.timers
    BY <1>3, CatchUpRoundStep
  <2> HIDE DEF c1
  <2>3. c1 \in Core /\ c1.running
    BY <2>2 DEF Step, SameNode
  <2>4. Quiet(c1, c2)
    BY <1>1, <2>3, BroadcastQuiet DEF Codes, Hash
  <2> HIDE DEF c2
  <2>5. Step(c1, c2) /\ c2 \in Core
    BY <2>3, <2>4, QuietIsStep DEF Quiet, SameNode
  <2>6. Step(c, c2)
    BY <2>2, <2>3, <2>5, StepTrans
  <2>7. Armed(c2)
    BY <2>2, <2>5 DEF Armed, Step
  <2> QED BY <2>1, <2>6, <2>7
<1> QED
  BY <1>1, <1>2, <1>3

LEMMA SendNextRoundChangeStep ==
  ASSUME NEW c \in Core, c.running
  PROVE  Step(c, sendNextRoundChange(c))
<1>1. c.round + 1 \in Nat
  BY DEF Core
<1> QED
  BY <1>1, SendRoundChangeStep DEF sendNextRoundChange

\* A handler's result: a step, and only the untouched record with the error
\* that puts the message into the backlog.
Handled(c, m, res) ==
  /\ Step(c, res.core)
  /\ res.err = "future" => res.core = c /\ checkMessage(c, m) = "future"

LEMMA NilHandled ==
  ASSUME NEW c, NEW m, NEW d, Step(c, d) PROVE Handled(c, m, Nil(d))
  BY DEF Handled, Nil

LEMMA FailHandled ==
  ASSUME NEW c, NEW m, NEW d, Step(c, d), NEW e, e # "future" PROVE Handled(c, m, Fail(d, e))
  BY DEF Handled, Fail

LEMMA FailCore ==
  ASSUME NEW d, NEW e PROVE Fail(d, e).core = d
  BY DEF Fail

LEMMA CheckHandled ==
  ASSUME NEW c \in Core, c.running, NEW m PROVE Handled(c, m, Fail(c, checkMessage(c, m)))
<1>1. Step(c, c)
  BY StepRefl
<1> QED
  BY <1>1 DEF Handled, Fail

LEMMA HandleRoundChangeStep ==
  ASSUME NEW c \in Core, c.running, NEW m \in Message
  PROVE  Handled(c, m, handleRoundChange(c, m))
<1> DEFINE c1 == [c EXCEPT !.roundChanges = @ \cup {<<m.round, m.from>>}]
<1>1. m.round \in Nat /\ m.from \in Validators
  BY DEF Message
<1>2. Quiet(c, c1)
  <2>1. c1 \in Core
    BY <1>1 DEF Core
  <2> QED BY <2>1, ZenonT(30) DEF Core, Quiet, SameNode, SameRound
<1>3. Step(c, c1) /\ c1 \in Core /\ c1.running
  BY <1>2, QuietIsStep, ZenonT(30) DEF Quiet, SameNode, SameRound
<1>4. Step(c1, startNewRound(c1, m.round)) /\ Step(c1, sendRoundChange(c1, m.round))
  BY <1>1, <1>3, StartNewRoundStep, SendRoundChangeStep, ZenonT(30)
<1>5. Step(c, startNewRound(c1, m.round)) /\ Step(c, sendRoundChange(c1, m.round))
  <2> HIDE DEF c1
  <2>1. startNewRound(c1, m.round) \in Core /\ sendRoundChange(c1, m.round) \in Core
    BY <1>4 DEF Step, SameNode
  <2> QED BY <1>3, <1>4, <2>1, StepTrans
<1> DEFINE num == Cardinality(RoundChangesOf(c1, m.round))
           check == checkMessage(c, m)
           res == handleRoundChange(c, m)
<1>7. \/ check # "nil" /\ res = Fail(c, check)
      \/ res = Nil(startNewRound(c1, m.round))
      \/ res = Nil(sendRoundChange(c1, m.round))
      \/ res = Nil(c1)
      \/ res = Fail(c1, "ignored")
  <2>1. res = IF check # "nil" THEN Fail(c, check)
              ELSE IF num = Quorum /\ (c.waiting \/ c.round < m.round)
              THEN Nil(startNewRound(c1, m.round))
              ELSE IF c.waiting /\ num = F(Size) + 1
              THEN Nil(IF c.round < m.round THEN sendRoundChange(c1, m.round) ELSE c1)
              ELSE IF c.round < m.round THEN Fail(c1, "ignored")
              ELSE Nil(c1)
    BY DEF handleRoundChange
  <2> HIDE DEF c1, num, check, res
  <2> QED BY <2>1
<1> HIDE DEF c1, num, check, res
<1> QED
  BY <1>3, <1>5, <1>7, NilHandled, FailHandled, CheckHandled DEF res, check

\* A block that ends the height has been announced to the core.
Settled(c) == Number[c.head] >= c.sequence => c.finalCommitted

\* A timeout event is used up; the handler arms the timer again, or the next
\* height is about to begin.
LEMMA HandleTimeoutStep ==
  ASSUME NEW c0 \in Core, c0.running, NEW v \in View, Settled(c0), Armed(c0), Released(c0)
  PROVE  Step(c0, handleTimeoutMsg([c0 EXCEPT !.timers = @ \ {v}], v))
<1> DEFINE c == [c0 EXCEPT !.timers = @ \ {v}]
           ahead == {r \in maxRounds(c, F(Size) + 1) : r > c.round}
           c1 == handleTimeoutMsg(c, v)
<1>1. /\ c0.sequence \in Nat /\ c0.round \in Nat /\ Number[c0.head] \in Nat
      /\ v.sequence \in Nat /\ v.round \in Nat
  BY BlockAssumption DEF Core, View
<1>2. /\ SameNode(c0, c) /\ c.running /\ c.head = c0.head /\ c.sequence = c0.sequence
      /\ c.finalCommitted = c0.finalCommitted /\ c.round = c0.round
      /\ c.waiting = c0.waiting /\ c.state = c0.state /\ c.backlog = c0.backlog
      /\ c.timers = c0.timers \ {v}
  <2>1. c \in Core
    BY DEF Core
  <2> QED BY <2>1 DEF Core, SameNode
<1> HIDE DEF c
<1>3. Released(c)
  BY <1>2, CheckDependsOn DEF Released
<1>4. v # NextView(c0) => Armed(c)
  BY <1>2 DEF Armed, NextView
<1>5. Number[c0.head] >= c0.sequence => Armed(c)
  BY <1>2 DEF Armed, Settled
<1>6. Advances(c0, c)
  BY <1>1, <1>2 DEF Advances
<1>7. ASSUME NEW d, Step(c, d), Armed(d) PROVE Step(c0, d)
  <2>1. Advances(c0, d)
    BY <1>2, <1>7 DEF Step, Advances
  <2>2. Released(d)
    BY <1>3, <1>7 DEF Step
  <2> QED BY <1>2, <1>7, <2>1, <2>2 DEF Step, SameNode
<1>8. Step(c, c) /\ c \in Core
  BY <1>2, StepRefl DEF SameNode
<1>9. CASE Number[c.head] >= v.sequence
  <2>1. Armed(c)
    BY <1>1, <1>2, <1>4, <1>5, <1>9 DEF NextView
  <2>2. c1 = c
    BY <1>9 DEF handleTimeoutMsg
  <2> QED BY <1>7, <1>8, <2>1, <2>2 DEF c
<1>10. CASE ~(Number[c.head] >= v.sequence) /\ ~c.waiting /\ ahead # {}
  <2> DEFINE r == CHOOSE q \in ahead : TRUE
  <2>1. c1 = sendRoundChange(c, r)
    BY <1>10 DEF handleTimeoutMsg
  <2>2. r \in ahead
    BY <1>10
  <2>3. \A q \in ahead : q \in Nat /\ q > c.round
    <3>1. \A rc \in c.roundChanges : rc[1] \in Nat
      BY <1>8 DEF Core
    <3> QED BY <3>1 DEF maxRounds
  <2> HIDE DEF r, ahead
  <2>4. r \in Nat /\ r > c.round
    BY <2>2, <2>3
  <2>5. Step(c, c1) /\ Armed(c1)
    BY <1>2, <1>8, <2>1, <2>4, SendRoundChangeStep
  <2> QED BY <1>7, <2>5 DEF c
<1>11. CASE ~(Number[c.head] >= v.sequence) /\ ~(~c.waiting /\ ahead # {})
            /\ Number[c.head] >= c.sequence
  <2>1. c1 = startNewRound(c, 0)
    BY <1>11 DEF handleTimeoutMsg
  <2>2. Entered(c, c1)
    <3> HIDE DEF c1
    <3> QED BY <1>8, <1>11, <2>1, StartNewRoundCases
  <2>3. Step(c, c1)
    BY <1>2, <1>8, <2>1, StartNewRoundStep
  <2>4. Armed(c1)
    BY <2>2 DEF Entered, Armed
  <2> QED BY <1>7, <2>3, <2>4 DEF c
<1>12. CASE ~(Number[c.head] >= v.sequence) /\ ~(~c.waiting /\ ahead # {})
            /\ ~(Number[c.head] >= c.sequence)
  <2>1. c1 = sendRoundChange(c, v.round)
    BY <1>12 DEF handleTimeoutMsg
  <2>2. Step(c, c1) /\ (v.round > c.round => Armed(c1))
    BY <1>1, <1>2, <1>8, <2>1, SendRoundChangeStep
  <2>3. ~(v.round > c.round) => Armed(c)
    BY <1>1, <1>2, <1>4 DEF NextView
  <2>4. Armed(c1)
    BY <2>2, <2>3 DEF Step
  <2> QED BY <1>7, <2>2, <2>4 DEF c
<1> QED
  BY <1>9, <1>10, <1>11, <1>12

LEMMA HandleRequestQuiet ==
  ASSUME NEW c \in Core, NEW b \in Block PROVE Quiet(c, handleRequest(c, b))
<1> DEFINE p == [c EXCEPT !.pendingRequests = @ \cup {b}]
           q == [c EXCEPT !.pendingRequest = b]
<1>1. Quiet(c, p)
  <2>1. p \in Core
    BY DEF Core
  <2> QED BY <2>1 DEF Core, Quiet, SameNode, SameRound
<1>2. Quiet(c, q) /\ q \in Core
  <2>1. q \in Core
    BY DEF Core
  <2> QED BY <2>1, ZenonT(30) DEF Core, Quiet, SameNode, SameRound
<1>3. Quiet(c, sendPreprepare(q, b))
  <2> HIDE DEF q
  <2>1. Quiet(q, sendPreprepare(q, b))
    BY <1>2, SendQuiet
  <2> QED BY <1>2, <2>1, QuietTrans
<1>4. Quiet(c, c)
  BY QuietRefl
<1>5. handleRequest(c, b) \in {c, p, q, sendPreprepare(q, b)}
  <2>1. c.sequence \in Nat /\ Number[b] \in Nat
    BY BlockAssumption DEF Core
  <2>2. CASE Number[b] < c.sequence
    BY <2>1, <2>2 DEF handleRequest
  <2>3. CASE Number[b] > c.sequence
    BY <2>1, <2>3 DEF handleRequest
  <2>4. CASE Number[b] = c.sequence
    BY <2>1, <2>4 DEF handleRequest
  <2> QED BY <2>1, <2>2, <2>3, <2>4
<1> HIDE DEF p, q
<1> QED
  BY <1>1, <1>2, <1>3, <1>4, <1>5

-----------------------------------------------------------------------------
(* Message handlers *)

LEMMA StateRange == StatePreprepared \in 0 .. 3 /\ StatePrepared \in 0 .. 3
  BY DEF StatePreprepared, StatePrepared

\* A change that is a step, followed by a quiet one.
LEMMA StepThenQuiet ==
  ASSUME NEW c \in Core, NEW c1, NEW c2, Step(c, c1), Quiet(c1, c2)
  PROVE  Step(c, c2)
<1>1. c1 \in Core /\ c1.running /\ c2 \in Core
  BY DEF Step, Quiet, SameNode
<1> QED
  BY <1>1, QuietIsStep, StepTrans

\* A quiet change, a new state of the round and a vote.
LEMMA QuietThenState ==
  ASSUME NEW c \in Core, c.running, NEW c1, Quiet(c, c1), NEW s \in 0 .. 3
  PROVE  /\ Step(c, setState(c1, s)) /\ setState(c1, s) \in Core
         /\ Step(c, sendPrepare(setState(c1, s)))
         /\ Step(c, sendCommit(setState(c1, s)))
<1> DEFINE c2 == setState(c1, s)
<1>1. c1 \in Core /\ c1.running
  BY DEF Quiet, SameNode, SameRound
<1>2. Step(c1, c2)
  BY <1>1, SetStateIsStep
<1> HIDE DEF c2
<1>3. c2 \in Core /\ c2.running
  BY <1>2 DEF Step, SameNode
<1>4. Step(c, c2)
  BY <1>1, <1>2, <1>3, QuietIsStep, StepTrans
<1>5. Quiet(c2, sendPrepare(c2)) /\ Quiet(c2, sendCommit(c2))
  BY <1>3, SendQuiet
<1>6. Step(c, sendPrepare(c2)) /\ Step(c, sendCommit(c2))
  BY <1>4, <1>5, StepThenQuiet
<1> QED
  BY <1>3, <1>4, <1>6 DEF c2

LEMMA HandlePreprepareStep ==
  ASSUME NEW c \in Core, c.running, NEW m \in Message,
         NEW verdict \in {"nil", "future block", "invalid"}
  PROVE  Handled(c, m, handlePreprepare(c, m, verdict))
<1> DEFINE check == checkMessage(c, m)
           old == broadcast(c, "commit", m.sequence, m.round, m.digest)
           later == [c EXCEPT !.futurePreprepare = {m}]
           next == sendNextRoundChange(c)
           prep == sendPrepare(setState(acceptPreprepare(c, m.digest), StatePreprepared))
           com == sendCommit(setState(acceptPreprepare(c, m.digest), StatePrepared))
           res == handlePreprepare(c, m, verdict)
<1>1. m.sequence \in Nat /\ m.round \in Nat /\ m.digest \in Hash
  BY DEF Message, Hash
<1>2. \/ res = Nil(old)
      \/ check # "nil" /\ res = Fail(c, check)
      \/ res = Fail(c, "not from proposer")
      \/ res = Fail(later, "future block")
      \/ res = Fail(next, "invalid")
      \/ res = Nil(c) \/ res = Nil(prep) \/ res = Nil(com) \/ res = Nil(next)
  <2> DEFINE oldBlock == /\ m.digest \in c.inserted
                         /\ m.from = roundRobinProposer(Author[Parent[m.digest]], m.round)
  <2>1. res = IF check = "old" /\ oldBlock THEN Nil(old)
              ELSE IF check # "nil" THEN Fail(c, check)
              ELSE IF m.from # c.proposer THEN Fail(c, "not from proposer")
              ELSE IF verdict = "future block" THEN Fail(later, verdict)
              ELSE IF verdict = "invalid" THEN Fail(next, verdict)
              ELSE IF c.state # StateAcceptRequest THEN Nil(c)
              ELSE IF ~IsHashLocked(c) THEN Nil(prep)
              ELSE IF m.digest = c.lockedHash THEN Nil(com)
              ELSE Nil(next)
    BY DEF handlePreprepare
  <2> HIDE DEF check, oldBlock, old, later, next, prep, com, res
  <2> QED BY <2>1
<1>3. Step(c, old)
  BY <1>1, BroadcastQuiet, QuietIsStep DEF Codes
<1>4. Step(c, later)
  <2>1. later \in Core
    BY ZenonT(60) DEF Core
  <2>2. Quiet(c, later)
    BY <2>1 DEF Core, Quiet, SameNode, SameRound
  <2> QED BY <2>2, QuietIsStep
<1>5. Step(c, next)
  BY SendNextRoundChangeStep
<1>6. Step(c, prep) /\ Step(c, com)
  <2>1. Quiet(c, acceptPreprepare(c, m.digest))
    BY <1>1, FieldsQuiet
  <2> QED BY <2>1, StateRange, QuietThenState
<1>7. Step(c, c)
  BY StepRefl
<1> HIDE DEF check, old, later, next, prep, com, res
<1> QED
  BY <1>2, <1>3, <1>4, <1>5, <1>6, <1>7, NilHandled, FailHandled, CheckHandled DEF res, check

LEMMA TryPreparedStep ==
  ASSUME NEW c \in Core, c.running, NEW m \in Message
  PROVE  Step(c, tryPrepared(c, m)) /\ tryPrepared(c, m) \in Core
<1>1. Quiet(c, c) /\ Quiet(c, LockHash(c)) /\ Step(c, c)
  BY QuietRefl, FieldsQuiet, StepRefl
<1>2. StatePrepared \in 0 .. 3
  BY DEF StatePrepared
<1>3. /\ Step(c, sendCommit(setState(c, StatePrepared)))
      /\ Step(c, sendCommit(setState(LockHash(c), StatePrepared)))
  BY <1>1, <1>2, QuietThenState
<1>4. Step(c, tryPrepared(c, m))
  BY <1>1, <1>3 DEF tryPrepared
<1> QED
  BY <1>4 DEF Step, SameNode

LEMMA HandlePrepareStep ==
  ASSUME NEW c \in Core, c.running, NEW m \in Message
  PROVE  Handled(c, m, handlePrepare(c, m))
<1> DEFINE c1 == [c EXCEPT !.prepares = @ \cup {m.from}]
<1>1. m.from \in Validators
  BY DEF Message
<1>2. Quiet(c, c1)
  BY <1>1, FieldsQuiet
<1>3. c1 \in Core /\ c1.running
  BY <1>2 DEF Quiet, SameNode, SameRound
<1>4. Step(c, tryPrepared(c1, m))
  <2> HIDE DEF c1
  <2> QED BY <1>2, <1>3, TryPreparedStep, QuietIsStep, StepTrans
<1>5. Step(c, c)
  BY StepRefl
<1>6. \/ checkMessage(c, m) # "nil" /\ handlePrepare(c, m) = Fail(c, checkMessage(c, m))
      \/ handlePrepare(c, m) = Fail(c, "inconsistent subject")
      \/ handlePrepare(c, m) = Nil(tryPrepared(c1, m))
  BY DEF handlePrepare
<1> HIDE DEF c1
<1> QED
  BY <1>4, <1>5, <1>6, NilHandled, FailHandled, CheckHandled

LEMMA CommitStep ==
  ASSUME NEW c \in Core, c.running PROVE Step(c, commit(c))
<1> DEFINE c1 == setState(c, StateCommitted)
           c2 == [c1 EXCEPT !.committing = @ \cup {c1.preprepare}]
<1>1. Step(c, c1)
  BY SetStateIsStep DEF StateCommitted
<1>2. commit(c) = IF c1.preprepare = NoBlock \/ c1.commits = {}
                  THEN sendNextRoundChange(UnlockHash(c1)) ELSE c2
  BY DEF commit
<1> HIDE DEF c1
<1>3. c1 \in Core /\ c1.running
  BY <1>1 DEF Step, SameNode
<1>4. ASSUME c1.preprepare # NoBlock PROVE Step(c, c2)
  <2>1. c1.preprepare \in Block
    BY <1>3, <1>4 DEF Core
  <2>2. c2 \in Core
    BY <1>3, <2>1 DEF Core
  <2>3. Quiet(c1, c2)
    BY <1>3, <2>2, ZenonT(30) DEF Core, Quiet, SameNode, SameRound
  <2> QED BY <1>1, <2>3, StepThenQuiet
<1>5. Step(c, sendNextRoundChange(UnlockHash(c1)))
  <2> DEFINE u == UnlockHash(c1)
  <2>1. Quiet(c1, u)
    BY <1>3, FieldsQuiet
  <2> HIDE DEF u
  <2>2. Step(c, u) /\ u \in Core /\ u.running
    BY <1>1, <1>3, <2>1, StepThenQuiet, ZenonT(30) DEF Quiet, SameNode, SameRound
  <2>3. Step(u, sendNextRoundChange(u))
    BY <2>2, SendNextRoundChangeStep
  <2>4. sendNextRoundChange(u) \in Core
    BY <2>3 DEF Step, SameNode
  <2>5. Step(c, sendNextRoundChange(u))
    BY <2>2, <2>3, <2>4, StepTrans
  <2> QED BY <2>5 DEF u
<1> HIDE DEF c2
<1> QED
  BY <1>2, <1>4, <1>5

LEMMA HandleCommitStep ==
  ASSUME NEW c \in Core, c.running, NEW m \in Message
  PROVE  Handled(c, m, handleCommit(c, m))
<1> DEFINE c0 == [c EXCEPT !.commits = @ \cup {m.from}]
           c1 == tryPrepared(c0, m)
<1>1. Quiet(c, c0)
  BY FieldsQuiet DEF Message
<1>2. c0 \in Core /\ c0.running
  BY <1>1 DEF Quiet, SameNode, SameRound
<1>3. Step(c, c1) /\ c1 \in Core /\ c1.running
  <2> HIDE DEF c0
  <2>1. Step(c0, c1) /\ c1 \in Core
    BY <1>2, TryPreparedStep
  <2>2. Step(c, c0)
    BY <1>1, QuietIsStep
  <2> HIDE DEF c1
  <2> QED BY <1>2, <2>1, <2>2, StepTrans DEF Step
<1>4. \/ checkMessage(c, m) # "nil" /\ handleCommit(c, m) = Fail(c, checkMessage(c, m))
      \/ handleCommit(c, m) = Fail(c, "inconsistent subject")
      \/ handleCommit(c, m) = Nil(commit(LockHash(c1)))
      \/ handleCommit(c, m) = Nil(c1)
  BY DEF handleCommit
<1> HIDE DEF c0, c1
<1>5. Step(c, commit(LockHash(c1)))
  <2> DEFINE l == LockHash(c1)
  <2>1. Quiet(c1, l)
    BY <1>3, FieldsQuiet
  <2> HIDE DEF l
  <2>2. Step(c, l) /\ l \in Core /\ l.running
    BY <1>3, <2>1, StepThenQuiet, ZenonT(30) DEF Quiet, SameNode, SameRound
  <2>3. Step(l, commit(l))
    BY <2>2, CommitStep
  <2>4. Step(c, commit(l))
    BY <2>2, <2>3, StepTrans DEF Step, SameNode
  <2> QED BY <2>4 DEF l
<1>6. Step(c, c)
  BY StepRefl
<1> QED
  BY <1>3, <1>4, <1>5, <1>6, NilHandled, FailHandled, CheckHandled

\* Only a message that cannot be handled yet goes to the backlog.
LEMMA StoreBacklogStep ==
  ASSUME NEW c \in Core, c.running, NEW m \in Message, checkMessage(c, m) = "future"
  PROVE  Step(c, storeBacklog(c, m))
<1> DEFINE c1 == [c EXCEPT !.backlog = @ \cup {m}]
<1>1. c1 \in Core
  BY DEF Core
<1>2. SameNode(c, c1) /\ SameRound(c, c1) /\ c1.state = c.state /\ c1.backlog = c.backlog \cup {m}
  BY <1>1, ZenonT(30) DEF Core, SameNode, SameRound
<1> HIDE DEF c1
<1>3. \A o : checkMessage(c1, o) = checkMessage(c, o)
  BY <1>2, CheckDependsOn DEF SameRound
<1>4. Released(c) => Released(c1)
  BY <1>2, <1>3 DEF Released
<1>5. Advances(c, c1)
  <2>1. c.sequence \in Nat /\ c.round \in Nat
    BY DEF Core
  <2> QED BY <1>2, <2>1 DEF SameRound, Advances
<1>6. Armed(c) => Armed(c1)
  BY <1>2 DEF SameRound, Armed, NextView
<1>7. Step(c, c1)
  BY <1>2, <1>4, <1>5, <1>6 DEF SameRound, Step
<1> QED
  BY <1>7, StepRefl DEF storeBacklog, c1

LEMMA HandleCheckedMsgStep ==
  ASSUME NEW c \in Core, c.running, NEW m \in Message,
         NEW verdict \in {"nil", "future block", "invalid"}
  PROVE  Step(c, handleCheckedMsg(c, m, verdict).core)
<1> DEFINE res == CASE m.code = "preprepare" -> handlePreprepare(c, m, verdict)
                    [] m.code = "prepare" -> handlePrepare(c, m)
                    [] m.code = "commit" -> handleCommit(c, m)
                    [] m.code = "roundchange" -> handleRoundChange(c, m)
<1>1. m.code \in {"preprepare", "prepare", "commit", "roundchange"}
  BY DEF Message, Codes
<1>2. Handled(c, m, res)
  BY <1>1, HandlePreprepareStep, HandlePrepareStep, HandleCommitStep, HandleRoundChangeStep
<1>3. handleCheckedMsg(c, m, verdict) =
        IF res.err = "future" THEN Fail(storeBacklog(res.core, m), res.err) ELSE res
  BY DEF handleCheckedMsg
<1> HIDE DEF res
<1>4. CASE res.err = "future"
  <2>1. res.core = c /\ checkMessage(c, m) = "future"
    BY <1>2, <1>4 DEF Handled
  <2>2. Step(c, storeBacklog(c, m))
    BY <2>1, StoreBacklogStep
  <2>3. handleCheckedMsg(c, m, verdict) = Fail(storeBacklog(c, m), "future")
    BY <1>3, <1>4, <2>1
  <2>4. handleCheckedMsg(c, m, verdict).core = storeBacklog(c, m)
    BY <2>3, FailCore
  <2> QED BY <2>2, <2>4
<1>5. CASE res.err # "future"
  BY <1>2, <1>3, <1>5 DEF Handled
<1> QED
  BY <1>4, <1>5

-----------------------------------------------------------------------------
(* The system *)

Fine(c) == c.running => Released(c) /\ Armed(c) /\ Settled(c)

LocalInv ==
  /\ TypeOK
  /\ \A n \in Nodes : Fine(core[n])
  /\ \A n \in Steady : core[n].running

\* d is a proper successor of the record of n.
Successor(n, d) ==
  /\ SameNode(core[n], d)
  /\ Fine(d)
  /\ n \in Steady => d.running /\ Advances(core[n], d)

\* A step changes the record of one validator.
NodeStep ==
  /\ \E n \in Nodes : \E d : core' = [core EXCEPT ![n] = d] /\ Successor(n, d)
  /\ net' \in SUBSET Message

AllAdvance == \A n \in Steady : Advances(core[n], core'[n])

LEMMA NodeStepInv ==
  ASSUME LocalInv, NodeStep PROVE LocalInv' /\ AllAdvance
<1>1. PICK n \in Nodes : \E d : core' = [core EXCEPT ![n] = d] /\ Successor(n, d)
  BY ZenonT(30) DEF NodeStep
<1>2. PICK d : core' = [core EXCEPT ![n] = d] /\ Successor(n, d)
  BY <1>1, ZenonT(30)
<1>3. core \in [Nodes -> Core] /\ \A k \in Nodes : core[k].address = k
  BY DEF LocalInv, TypeOK
<1>4. core' \in [Nodes -> Core]
  BY <1>2, <1>3 DEF Successor, SameNode
<1>5. core'[n] = d /\ \A k \in Nodes \ {n} : core'[k] = core[k]
  BY <1>2, <1>3
<1>6. TypeOK'
  <2>1. \A k \in Nodes : core'[k].address = k
    BY <1>2, <1>3, <1>5 DEF Successor, SameNode
  <2>2. net' \subseteq Message
    BY DEF NodeStep
  <2> QED BY <1>4, <2>1, <2>2 DEF TypeOK
<1>7. \A k \in Nodes : Fine(core'[k])
  BY <1>2, <1>5 DEF LocalInv, Successor
<1>8. Steady \subseteq Nodes
  BY DEF Steady
<1>9. \A k \in Steady : core'[k].running
  BY <1>2, <1>5, <1>8 DEF LocalInv, Successor
<1>10. \A k \in Steady : Advances(core[k], core[k])
  <2>1. \A k \in Steady : core[k].sequence \in Nat /\ core[k].round \in Nat
    BY <1>3, <1>8 DEF Core
  <2> QED BY <2>1 DEF Advances
<1>11. AllAdvance
  BY <1>2, <1>5, <1>8, <1>10 DEF AllAdvance, Successor
<1>12. (\A k \in Nodes : Fine(core[k]))'
  BY <1>7
<1>13. (\A k \in Steady : core[k].running)'
  BY <1>9
<1> QED
  BY <1>6, <1>11, <1>12, <1>13 DEF LocalInv

LEMMA StepSuccessor ==
  ASSUME LocalInv, NEW n \in Nodes, core[n].running, NEW d, Step(core[n], d)
  PROVE  Successor(n, d)
<1>1. core[n] \in Core /\ d \in Core
  BY DEF LocalInv, TypeOK, Step, SameNode
<1>2. Released(core[n]) /\ Armed(core[n]) /\ Settled(core[n])
  BY DEF LocalInv, Fine
<1>3. /\ core[n].sequence \in Nat /\ d.sequence \in Nat /\ d.head = core[n].head
      /\ Number[d.head] \in Nat /\ d.finalCommitted = core[n].finalCommitted
  BY <1>1, BlockAssumption, ZenonT(30) DEF Core, Step
<1>4. Settled(d)
  BY <1>2, <1>3, SMTT(60) DEF Settled, Step, Advances
<1> QED
  BY <1>2, <1>4 DEF Successor, Fine, Step

LEMMA QuietSuccessor ==
  ASSUME LocalInv, NEW n \in Nodes, NEW d, Quiet(core[n], d)
  PROVE  Successor(n, d)
<1>1. core[n] \in Core
  BY DEF LocalInv, TypeOK
<1>2. CASE core[n].running
  BY <1>1, <1>2, QuietIsStep, StepSuccessor
<1>3. CASE ~core[n].running
  BY <1>3 DEF LocalInv, Quiet, SameRound, Successor, Fine
<1> QED
  BY <1>2, <1>3

LEMMA HandleMessageStep ==
  ASSUME LocalInv, NEW n \in Nodes, NEW c, Quiet(core[n], c), c.running,
         NEW m \in Message, HandleMessage(n, c, m)
  PROVE  NodeStep
<1> DEFINE V == IF m.code = "preprepare" THEN Verify(c, m.digest) ELSE {"nil"}
<1>1. V \subseteq {"nil", "future block", "invalid"}
  BY DEF Verify
<1>2. PICK verdict \in V :
        LET res == handleCheckedMsg(c, m, verdict)
            seen == IF res.err = "nil" /\ ~Evicts THEN {m} ELSE {}
        IN  /\ core' = [core EXCEPT ![n] = [res.core EXCEPT !.known = @ \cup seen]]
            /\ net' = IF res.err = "nil" /\ m.from \in Nodes THEN net \cup {m} ELSE net
  BY ZenonT(30) DEF HandleMessage
<1> DEFINE res == handleCheckedMsg(c, m, verdict)
           seen == IF res.err = "nil" /\ ~Evicts THEN {m} ELSE {}
           d == [res.core EXCEPT !.known = @ \cup seen]
<1>3. core[n] \in Core /\ c \in Core /\ core[n].running
  BY DEF LocalInv, TypeOK, Quiet, SameNode, SameRound
<1>4. Step(c, res.core)
  BY <1>1, <1>3, HandleCheckedMsgStep
<1>5. core' = [core EXCEPT ![n] = d] /\ net' \in {net, net \cup {m}}
  BY <1>2
<1>6. seen \in SUBSET Message
  OBVIOUS
<1> HIDE DEF res, seen
<1>7. Quiet(res.core, d)
  <2>1. res.core \in Core
    BY <1>4 DEF Step, SameNode
  <2>2. d \in Core
    BY <1>6, <2>1 DEF Core
  <2> QED BY <2>1, <2>2, ZenonT(30) DEF Core, Quiet, SameNode, SameRound
<1> HIDE DEF d
<1>8. Step(core[n], d)
  <2>1. Step(c, d)
    BY <1>3, <1>4, <1>7, StepThenQuiet
  <2>2. Step(core[n], c) /\ d \in Core
    BY <1>3, <2>1, QuietIsStep DEF Step, SameNode
  <2> QED BY <1>3, <2>1, <2>2, StepTrans
<1>9. Successor(n, d)
  BY <1>3, <1>8, StepSuccessor
<1>10. net' \in SUBSET Message
  BY <1>5 DEF LocalInv, TypeOK
<1> QED
  BY <1>5, <1>9, <1>10, ZenonT(30) DEF NodeStep

LEMMA InsertBlockSuccessor ==
  ASSUME LocalInv, NEW n \in Nodes, NEW b \in Block, Parent[b] = core[n].head
  PROVE  Successor(n, insertBlock(core[n], b))
<1> DEFINE c == core[n]
           bad == [c EXCEPT !.bad = @ \cup {b}, !.committing = @ \ {b}]
           good == [c EXCEPT !.inserted = @ \cup {b}, !.head = b, !.committing = @ \ {b},
                             !.finalCommitted = @ \/ c.running]
<1>1. c \in Core
  BY DEF LocalInv, TypeOK
<1>2. c.sequence \in Nat /\ Number[c.head] \in Nat /\ Number[b] = Number[c.head] + 1
  BY <1>1, BlockAssumption DEF Core
<1>3. Fine(c) /\ (n \in Steady => c.running)
  BY DEF LocalInv
<1>4. insertBlock(core[n], b) = IF b \in BadBlock THEN bad ELSE good
  BY DEF insertBlock
<1> HIDE DEF c
<1>5. Quiet(c, bad)
  <2>1. bad \in Core
    BY <1>1, ZenonT(60) DEF Core
  <2> QED BY <1>1, <2>1 DEF Core, Quiet, SameNode, SameRound
<1>6. Successor(n, bad)
  <2> HIDE DEF bad
  <2> QED BY <1>5, QuietSuccessor DEF c
<1>7. good \in Core
  <2> DEFINE fc == c.finalCommitted \/ c.running
             g == [c EXCEPT !.inserted = @ \cup {b}, !.head = b, !.committing = @ \ {b},
                            !.finalCommitted = fc]
  <2>1. fc \in BOOLEAN
    OBVIOUS
  <2>2. good = g
    OBVIOUS
  <2> HIDE DEF fc
  <2>3. g \in Core
    BY <1>1, <2>1, ZenonT(60) DEF Core
  <2> HIDE DEF g
  <2> QED BY <2>2, <2>3
<1>8. /\ good.address = c.address /\ good.running = c.running
      /\ good.sequence = c.sequence /\ good.round = c.round /\ good.head = b
      /\ good.waiting = c.waiting /\ good.state = c.state /\ good.backlog = c.backlog
      /\ good.timers = c.timers /\ good.finalCommitted = (c.finalCommitted \/ c.running)
  BY <1>1 DEF Core
<1> HIDE DEF good
<1>9. ASSUME c.running PROVE Released(good) /\ Armed(good) /\ Settled(good)
  <2>1. \A m : checkMessage(good, m) = checkMessage(c, m)
    BY <1>8, CheckDependsOn
  <2>2. Released(c) /\ Armed(c)
    BY <1>3, <1>9 DEF Fine
  <2>3. Released(good)
    BY <1>8, <2>1, <2>2 DEF Released
  <2>4. good.finalCommitted
    BY <1>8, <1>9, ZenonT(30)
  <2>5. Armed(good)
    BY <1>2, <1>8, <2>2, <2>4 DEF Armed, NextView
  <2> QED BY <2>3, <2>4, <2>5 DEF Settled
<1>10. Advances(c, good)
  <2>1. c.round \in Nat
    BY <1>1 DEF Core
  <2> QED BY <1>2, <1>8, <2>1 DEF Advances
<1>11. Successor(n, good)
  BY <1>3, <1>7, <1>8, <1>9, <1>10 DEF Successor, SameNode, Fine, c
<1> QED
  BY <1>4, <1>6, <1>11

LEMMA FinalCommittedSuccessor ==
  ASSUME LocalInv, NEW n \in Nodes, core[n].running
  PROVE  Successor(n, startNewRound([core[n] EXCEPT !.finalCommitted = FALSE], 0))
<1> DEFINE c == core[n]
           c0 == [c EXCEPT !.finalCommitted = FALSE]
           d == startNewRound(c0, 0)
<1>1. c \in Core /\ Released(c) /\ Armed(c)
  BY DEF LocalInv, TypeOK, Fine
<1>2. c.running
  OBVIOUS
<1> HIDE DEF c
<1>3. c0 \in Core
  BY <1>1, ZenonT(60) DEF Core
<1>4. /\ c0.address = c.address /\ c0.running = c.running /\ c0.finalCommitted = FALSE
      /\ c0.sequence = c.sequence /\ c0.round = c.round /\ c0.head = c.head
      /\ c0.waiting = c.waiting /\ c0.state = c.state /\ c0.backlog = c.backlog
      /\ c0.timers = c.timers
  BY <1>1 DEF Core
<1> HIDE DEF c0, d
<1>5. c.sequence \in Nat /\ c.round \in Nat /\ Number[c.head] \in Nat
  BY <1>1, BlockAssumption DEF Core
<1>6. \/ ~(Number[c.head] >= c.sequence) /\ d = c0
      \/ /\ Number[c.head] >= c.sequence /\ Entered(c0, d)
         /\ d.sequence = Number[c.head] + 1
      \/ /\ ~(Number[c.head] >= c.sequence) /\ Entered(c0, d)
         /\ d.sequence = c.sequence /\ d.round >= c.round
  BY <1>2, <1>3, <1>4, StartNewRoundCases, ZenonT(30) DEF d
<1>7. CASE ~(Number[c.head] >= c.sequence) /\ d = c0
  <2>1. Settled(d)
    BY <1>4, <1>7 DEF Settled
  <2>2. Armed(d)
    BY <1>1, <1>4, <1>7 DEF Armed, NextView
  <2>3. \A m : checkMessage(c0, m) = checkMessage(c, m)
    BY <1>4, CheckDependsOn
  <2>4. Released(d)
    BY <1>1, <1>4, <1>7, <2>3 DEF Released
  <2>5. Advances(c, d)
    BY <1>4, <1>5, <1>7 DEF Advances
  <2>6. SameNode(c, d) /\ d.running
    BY <1>2, <1>3, <1>4, <1>7, ZenonT(30) DEF SameNode
  <2> QED BY <2>1, <2>2, <2>4, <2>5, <2>6 DEF Successor, Fine, c, c0, d
<1>8. CASE Entered(c0, d) /\ ~(Number[c.head] >= d.sequence) /\ Advances(c, d)
  <2>1. Armed(d) /\ Released(d) /\ d.running
    BY <1>8 DEF Entered, Armed
  <2>2. Settled(d)
    BY <1>4, <1>8 DEF Entered, Settled
  <2>3. SameNode(c, d)
    BY <1>4, <1>8 DEF Entered, SameNode
  <2> QED BY <1>8, <2>1, <2>2, <2>3 DEF Successor, Fine, c, c0, d
<1>9. ASSUME Entered(c0, d) PROVE d.sequence \in Nat /\ d.round \in Nat
  BY <1>9 DEF Entered, SameNode, Core
<1> QED
  BY <1>5, <1>6, <1>7, <1>8, <1>9 DEF Advances

LEMMA StartSuccessor ==
  ASSUME LocalInv, NEW n \in Nodes, ~core[n].running
  PROVE  Successor(n, startNewRound(core[n], 0))
<1> DEFINE c == core[n]
           d == startNewRound(c, 0)
<1> HIDE DEF d
<1>1. c \in Core /\ n \notin Steady
  BY DEF LocalInv, TypeOK
<1>2. Entered(c, d) /\ d.sequence = Number[c.head] + 1
  BY <1>1, StartNewRoundCases DEF d
<1>3. Number[c.head] \in Nat
  BY <1>1, BlockAssumption DEF Core
<1>4. Settled(d) /\ Armed(d)
  BY <1>2, <1>3, SMTT(60) DEF Entered, Settled, Armed
<1>5. Successor(n, d)
  BY <1>1, <1>2, <1>4 DEF Successor, Fine, Entered
<1> QED
  BY <1>5 DEF d

LEMMA StopSuccessor ==
  ASSUME LocalInv, NEW n \in Restartable, NEW late \in {core[n].timers, {}}
  PROVE  Successor(n, [core[n] EXCEPT !.running = FALSE, !.preprepare = NoBlock, !.prepares = {},
                                      !.commits = {}, !.lockedHash = NoBlock, !.timers = late,
                                      !.pendingRequest = NoBlock, !.futurePreprepare = {}])
<1> DEFINE c == core[n]
           d == [c EXCEPT !.running = FALSE, !.preprepare = NoBlock, !.prepares = {},
                          !.commits = {}, !.lockedHash = NoBlock, !.timers = late,
                          !.pendingRequest = NoBlock, !.futurePreprepare = {}]
<1>1. c \in Core /\ n \notin Steady
  BY NodesAssumption DEF LocalInv, TypeOK, Steady
<1> HIDE DEF c
<1>2. late \in SUBSET View
  <2>1. c.timers \in SUBSET View
    BY <1>1 DEF Core
  <2> QED BY <2>1 DEF c
<1>3. d \in Core
  BY <1>1, <1>2, ZenonT(60) DEF Core
<1>4. d.address = c.address /\ d.running = FALSE
  BY <1>1 DEF Core
<1> HIDE DEF d
<1>5. Successor(n, d)
  BY <1>1, <1>3, <1>4 DEF Successor, SameNode, Fine, c
<1> QED
  BY <1>5 DEF c, d

\* Every action changes one validator's record to a proper successor.
LEMMA NextNodeStep ==
  ASSUME LocalInv, Next PROVE NodeStep
<1>1. PICK n \in Nodes :
        \/ \E m \in core[n].posted : HandlePosted(n, m)
        \/ \E m \in net \cup EnvMessage : Deliver(n, m)
        \/ \E b \in Block : Seal(n, b)
        \/ \E b \in core[n].requests : HandleRequest(n, b)
        \/ FuturePreprepareTimer(n)
        \/ \E v \in core[n].timers : HandleTimeout(n, v)
        \/ HandleFinalCommitted(n)
        \/ \E b \in core[n].committing : InsertCommitted(n, b)
        \/ \E b \in Block : Import(n, b)
        \/ Stop(n)
        \/ Start(n)
  BY ZenonT(30) DEF Next
<1> DEFINE c == core[n]
<1>2. c \in Core /\ net \in SUBSET Message
  BY DEF LocalInv, TypeOK
<1>3. /\ c.posted \in SUBSET Message /\ c.requests \in SUBSET Block /\ c.timers \in SUBSET View
      /\ c.committing \in SUBSET Block /\ c.futurePreprepare \in SUBSET Message
      /\ c.known \in SUBSET Message
  BY <1>2 DEF Core
<1>4. ASSUME NEW m \in c.posted, HandlePosted(n, m) PROVE NodeStep
  <2> DEFINE c1 == [c EXCEPT !.posted = @ \ {m}]
  <2>1. c.running /\ HandleMessage(n, c1, m) /\ m \in Message
    BY <1>3, <1>4 DEF HandlePosted
  <2>2. Quiet(c, c1)
    <3> HIDE DEF c
    <3>1. c1 \in Core
      BY <1>2 DEF Core
    <3> QED BY <1>2, <3>1 DEF Core, Quiet, SameNode, SameRound
  <2> HIDE DEF c1
  <2> QED BY <2>1, <2>2, HandleMessageStep, ZenonT(30) DEF Quiet, SameRound
<1>5. ASSUME NEW m \in net \cup EnvMessage, Deliver(n, m) PROVE NodeStep
  <2> DEFINE k == IF Evicts THEN c.known ELSE c.known \cup {m}
             c1 == [c EXCEPT !.known = k]
  <2>1. m \in Message
    BY <1>2, EnvironmentAssumption
  <2>2. c.running /\ HandleMessage(n, c1, m)
    BY <1>5 DEF Deliver
  <2>3. k \in SUBSET Message
    BY <1>3, <2>1
  <2>4. Quiet(c, c1)
    <3> HIDE DEF c, k
    <3>1. c1 \in Core
      BY <1>2, <2>3 DEF Core
    <3> QED BY <1>2, <3>1 DEF Core, Quiet, SameNode, SameRound
  <2> HIDE DEF c1
  <2> QED BY <2>1, <2>2, <2>4, HandleMessageStep, ZenonT(30) DEF Quiet, SameRound
<1>6. ASSUME NEW b \in Block, Seal(n, b) PROVE NodeStep
  <2> DEFINE d == [c EXCEPT !.requests = @ \cup {b}, !.sealed = @ \cup {b}]
  <2>1. core' = [core EXCEPT ![n] = d] /\ net' = net
    BY <1>6, ZenonT(30) DEF Seal, LocalInv, TypeOK
  <2>2. Quiet(c, d)
    <3> HIDE DEF c
    <3>1. d \in Core
      BY <1>2, ZenonT(60) DEF Core
    <3> QED BY <1>2, <3>1 DEF Core, Quiet, SameNode, SameRound
  <2> HIDE DEF d
  <2> QED BY <1>2, <2>1, <2>2, QuietSuccessor, ZenonT(30) DEF NodeStep
<1>7. ASSUME NEW b \in c.requests, HandleRequest(n, b) PROVE NodeStep
  <2> DEFINE c1 == [c EXCEPT !.requests = @ \ {b}]
             d == handleRequest(c1, b)
  <2>1. core' = [core EXCEPT ![n] = d] /\ net' = net
    BY <1>7 DEF HandleRequest
  <2>2. Quiet(c, c1) /\ c1 \in Core
    <3> HIDE DEF c
    <3>1. c1 \in Core
      BY <1>2 DEF Core
    <3> QED BY <1>2, <3>1, ZenonT(30) DEF Core, Quiet, SameNode, SameRound
  <2>3. b \in Block
    BY <1>3
  <2> HIDE DEF c1
  <2>4. Quiet(c, d)
    BY <2>2, <2>3, HandleRequestQuiet, QuietTrans
  <2> HIDE DEF d
  <2> QED BY <1>2, <2>1, <2>4, QuietSuccessor, ZenonT(30) DEF NodeStep
<1>8. ASSUME FuturePreprepareTimer(n) PROVE NodeStep
  <2> DEFINE d == [c EXCEPT !.posted = @ \cup c.futurePreprepare, !.futurePreprepare = {}]
  <2>1. core' = [core EXCEPT ![n] = d] /\ net' = net
    BY <1>8, ZenonT(30) DEF FuturePreprepareTimer, LocalInv, TypeOK
  <2>2. Quiet(c, d)
    <3> HIDE DEF c
    <3>1. d \in Core
      BY <1>2, ZenonT(60) DEF Core
    <3> QED BY <1>2, <3>1 DEF Core, Quiet, SameNode, SameRound
  <2> HIDE DEF d
  <2> QED BY <1>2, <2>1, <2>2, QuietSuccessor, ZenonT(30) DEF NodeStep
<1>9. ASSUME NEW v \in c.timers, HandleTimeout(n, v) PROVE NodeStep
  <2> DEFINE d == handleTimeoutMsg([c EXCEPT !.timers = @ \ {v}], v)
  <2>1. core' = [core EXCEPT ![n] = d] /\ net' = net /\ c.running
    BY <1>9 DEF HandleTimeout
  <2>2. v \in View
    BY <1>3
  <2>3. Released(c) /\ Armed(c) /\ Settled(c)
    BY <2>1 DEF LocalInv, Fine
  <2>4. Step(c, d)
    <3> HIDE DEF c
    <3> QED BY <1>2, <2>1, <2>2, <2>3, HandleTimeoutStep
  <2> HIDE DEF d
  <2> QED BY <1>2, <2>1, <2>4, StepSuccessor, ZenonT(30) DEF NodeStep
<1>10. ASSUME HandleFinalCommitted(n) PROVE NodeStep
  BY <1>2, <1>10, FinalCommittedSuccessor, ZenonT(30) DEF HandleFinalCommitted, NodeStep
<1>11. ASSUME NEW b \in Block, Parent[b] = c.head, net' = net,
              core' = [core EXCEPT ![n] = insertBlock(c, b)]
       PROVE  NodeStep
  BY <1>2, <1>11, InsertBlockSuccessor, ZenonT(30) DEF NodeStep
<1>12. ASSUME NEW b \in c.committing, InsertCommitted(n, b) PROVE NodeStep
  BY <1>3, <1>11, <1>12, ZenonT(30) DEF InsertCommitted
<1>13. ASSUME NEW b \in Block, Import(n, b) PROVE NodeStep
  BY <1>11, <1>13, ZenonT(30) DEF Import
<1>14. ASSUME Stop(n) PROVE NodeStep
  <2>1. n \in Restartable /\ net' = net
    BY <1>14 DEF Stop
  <2>2. PICK late \in {c.timers, {}} :
          core' = [core EXCEPT ![n] =
                  [@ EXCEPT !.running = FALSE, !.preprepare = NoBlock, !.prepares = {},
                            !.commits = {}, !.lockedHash = NoBlock, !.timers = late,
                            !.pendingRequest = NoBlock, !.futurePreprepare = {}]]
    BY <1>14, ZenonT(30) DEF Stop
  <2> DEFINE d == [c EXCEPT !.running = FALSE, !.preprepare = NoBlock, !.prepares = {},
                            !.commits = {}, !.lockedHash = NoBlock, !.timers = late,
                            !.pendingRequest = NoBlock, !.futurePreprepare = {}]
  <2>3. core' = [core EXCEPT ![n] = d]
    BY <2>2
  <2>4. Successor(n, d)
    BY <2>1, StopSuccessor, ZenonT(30)
  <2> HIDE DEF d
  <2> QED BY <1>2, <2>1, <2>3, <2>4, ZenonT(30) DEF NodeStep
<1>15. ASSUME Start(n) PROVE NodeStep
  <2>1. core' = [core EXCEPT ![n] = startNewRound(c, 0)] /\ net' = net /\ ~c.running
    BY <1>15 DEF Start
  <2> QED BY <1>2, <2>1, StartSuccessor, ZenonT(30) DEF NodeStep
<1> QED
  BY <1>1, <1>4, <1>5, <1>6, <1>7, <1>8, <1>9, <1>10, <1>12, <1>13, <1>14, <1>15, ZenonT(30)

LEMMA NewCoreType ==
  ASSUME NEW n \in Nodes
  PROVE  NewCore(n) \in Core /\ NewCore(n).address = n /\ ~NewCore(n).running
<1>1. roundRobinProposer(NoAddress, 0) \in Validators
  BY ProposerType
<1>2. NewCore(n) \in Core
  <2>1. StateAcceptRequest \in 0 .. 3 /\ 0 \in Nat
    BY DEF StateAcceptRequest
  <2> QED BY <1>1, <2>1, ZenonT(60) DEF NewCore, Core
<1> QED
  BY <1>2, ZenonT(30) DEF NewCore

LEMMA InitLocalInv == Init => LocalInv
<1> SUFFICES ASSUME Init PROVE LocalInv
  OBVIOUS
<1>1. ASSUME NEW n \in Nodes
      PROVE  /\ SameNode(NewCore(n), core[n]) /\ core[n].address = n
             /\ Fine(core[n]) /\ core[n].running
  <2> DEFINE c == NewCore(n)
             d == startNewRound(c, 0)
  <2>1. c \in Core /\ c.address = n /\ ~c.running
    BY NewCoreType
  <2>2. core[n] = d
    BY DEF Init
  <2> HIDE DEF c, d
  <2>3. Entered(c, d) /\ d.sequence = Number[c.head] + 1
    BY <2>1, StartNewRoundCases DEF d
  <2>4. Number[c.head] \in Nat
    BY <2>1, BlockAssumption DEF Core
  <2>5. Settled(d) /\ Armed(d)
    BY <2>3, <2>4 DEF Entered, Settled, Armed
  <2>6. SameNode(c, d) /\ d.address = n /\ Fine(d) /\ d.running
    BY <2>1, <2>3, <2>5 DEF Entered, Fine, SameNode
  <2> QED BY <2>2, <2>6 DEF c
<1>2. core \in [Nodes -> Core]
  <2>1. \A n \in Nodes : core[n] \in Core
    BY <1>1 DEF SameNode
  <2>2. core = [n \in Nodes |-> core[n]]
    BY DEF Init
  <2> QED BY <2>1, <2>2
<1>3. net \subseteq Message
  BY DEF Init
<1> QED
  BY <1>1, <1>2, <1>3 DEF LocalInv, TypeOK, Steady

LEMMA StutterLocalInv == LocalInv /\ UNCHANGED vars => LocalInv'
  BY DEF LocalInv, TypeOK, vars

\* The invariant of a single validator, whatever the others send.
THEOREM CoreLocalInvariant == Spec => []LocalInv
<1>1. LocalInv /\ [Next]_vars => LocalInv'
  BY NextNodeStep, NodeStepInv, StutterLocalInv
<1> QED
  BY <1>1, InitLocalInv, PTL DEF Spec

\* Every field keeps its Go type: rounds, states, votes and queues of the
\* engine, for every validator set, environment and bound.
THEOREM CoreTypeOK == Spec => []TypeOK
<1>1. LocalInv => TypeOK
  BY DEF LocalInv
<1> QED
  BY <1>1, CoreLocalInvariant, PTL

\* No message that could be handled now is left in the backlog.
THEOREM CoreBacklogReleased == Spec => []BacklogReleased
<1>1. LocalInv => BacklogReleased
  BY DEF LocalInv, Fine, Released, BacklogReleased
<1> QED
  BY <1>1, CoreLocalInvariant, PTL

\* A running validator always has a timeout for its view pending, or the event
\* that moves it to the next height.
THEOREM CoreTimerPending == Spec => []TimerPending
<1>1. LocalInv => TimerPending
  BY DEF LocalInv, Fine, Armed, NextView, TimerPending
<1> QED
  BY <1>1, CoreLocalInvariant, PTL

\* A validator that is not restarted never returns to an earlier view.
THEOREM CoreViewsAdvance == Spec => ViewsAdvance
<1>1. LocalInv /\ [Next]_vars =>
        [\A n \in Steady :
           \/ core[n].sequence < core'[n].sequence
           \/ core[n].sequence = core'[n].sequence /\ core[n].round <= core'[n].round]_vars
  <2> SUFFICES ASSUME LocalInv, Next
               PROVE  \A n \in Steady :
                        \/ core[n].sequence < core'[n].sequence
                        \/ core[n].sequence = core'[n].sequence /\ core[n].round <= core'[n].round
    OBVIOUS
  <2> QED
    BY NextNodeStep, NodeStepInv DEF AllAdvance, Advances
<1> QED
  BY <1>1, CoreLocalInvariant, PTL DEF Spec, ViewsAdvance

=============================================================================
