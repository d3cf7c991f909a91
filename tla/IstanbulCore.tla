---------------------------- MODULE IstanbulCore ----------------------------
(***************************************************************************)
(* The Istanbul BFT engine of consensus/istanbul/core together with the    *)
(* calls it makes into consensus/istanbul/backend, for a set Nodes of      *)
(* validators that run this code and an environment of other validators    *)
(* that may send any well-formed message of EnvMessage at any time.        *)
(*                                                                         *)
(* core[n] is the record of one validator.  The operators named after the  *)
(* methods of *core take such a record and return the changed one, in the  *)
(* order in which the method makes its changes; an action of Next is one   *)
(* turn of the loop in handleEvents, or one step of the chain or worker.   *)
(***************************************************************************)
EXTENDS ValidatorSet

CONSTANTS
  Nodes,        \* validators that run this code
  Restartable,  \* those of Nodes whose engine may be stopped and started
  Block,        \* proposals
  Genesis,      \* the block of height 0
  NoBlock,      \* common.Hash{} and nil proposals
  Number,       \* height of a block
  Parent,       \* parent of a block
  Author,       \* validator that sealed a block
  ValidBlock,   \* blocks whose header and transaction root verify
  BadBlock,     \* blocks whose execution fails when they are inserted
  FutureBlock,  \* blocks whose timestamp may still be in the future
  EnvMessage,   \* messages the validators outside Nodes may send
  Evicts,       \* TRUE: knownMessages has always evicted a message when a copy arrives
  MaxRound,     \* bound: no validator enters a higher round
  MaxHeight     \* bound: no round change is started above this height

StateAcceptRequest == 0
StatePreprepared == 1
StatePrepared == 2
StateCommitted == 3

Codes == {"preprepare", "prepare", "commit", "roundchange"}

\* PREPREPARE carries its proposal in digest; seal is the block whose hash
\* CommittedSeal signs, NoBlock when the field is empty or invalid.
Message ==
  [code : Codes, sequence : Nat, round : Nat, digest : Block \cup {NoBlock},
   from : Validators, seal : Block \cup {NoBlock}]

View == [sequence : Nat, round : Nat]

ASSUME NodesAssumption ==
  /\ Nodes \subseteq Validators
  /\ Restartable \subseteq Nodes

ASSUME BlockAssumption ==
  /\ Genesis \notin Block
  /\ NoBlock \notin Block \cup {Genesis}
  /\ Number \in [Block \cup {Genesis} -> Nat]
  /\ Number[Genesis] = 0
  /\ Parent \in [Block -> Block \cup {Genesis}]
  /\ \A b \in Block : Number[b] = Number[Parent[b]] + 1
  /\ Author \in [Block \cup {Genesis} -> Validators \cup {NoAddress}]
  /\ Author[Genesis] = NoAddress
  /\ ValidBlock \subseteq Block
  /\ BadBlock \subseteq Block
  /\ FutureBlock \subseteq Block

\* A PREPREPARE proposes a block of the height of its view, as every
\* PREPREPARE this code sends does (sendPreprepare compares the two).
ASSUME EnvironmentAssumption ==
  /\ EnvMessage \subseteq Message
  /\ \A m \in EnvMessage :
       /\ m.from \notin Nodes
       /\ m.code = "preprepare" => m.digest \in Block /\ Number[m.digest] = m.sequence

ASSUME BoundsAssumption ==
  /\ Evicts \in BOOLEAN
  /\ MaxRound \in Nat
  /\ MaxHeight \in Nat

VARIABLES
  core,  \* core[n]: state of validator n
  net    \* messages of Nodes that have been gossiped

vars == <<core, net>>

Core ==
  [address : Nodes,
   \* type core
   running : BOOLEAN,               \* c.current # nil
   state : 0 .. 3,
   waiting : BOOLEAN,               \* waitingForRoundChange
   proposer : Validators,           \* valSet.proposer
   backlog : SUBSET Message,        \* backlogs
   roundChanges : SUBSET (Nat \X Validators),
   pendingRequests : SUBSET Block,
   futurePreprepare : SUBSET Message,
   timers : SUBSET View,            \* timeout events not handled yet
   \* type roundState
   sequence : Nat,
   round : Nat,
   preprepare : Block \cup {NoBlock},
   prepares : SUBSET Validators,
   commits : SUBSET Validators,
   lockedHash : Block \cup {NoBlock},
   pendingRequest : Block \cup {NoBlock},
   \* events posted to the core's subscriptions
   posted : SUBSET Message,
   requests : SUBSET Block,
   finalCommitted : BOOLEAN,
   \* type backend, worker and chain
   known : SUBSET Message,          \* knownMessages
   sealed : SUBSET Block,           \* blocks passed to Seal
   committing : SUBSET Block,       \* blocks passed to Commit, not inserted
   inserted : SUBSET Block,
   head : Block \cup {Genesis},
   bad : SUBSET Block]

-----------------------------------------------------------------------------
(* Views and rounds *)

Earlier(m, c) ==
  m.sequence < c.sequence \/ (m.sequence = c.sequence /\ m.round < c.round)

Quorum == RequiredMessageCount(Size)

IsHashLocked(c) == c.lockedHash # NoBlock /\ c.lockedHash \notin c.bad

LockHash(c) ==
  IF c.preprepare = NoBlock THEN c ELSE [c EXCEPT !.lockedHash = c.preprepare]

UnlockHash(c) == [c EXCEPT !.lockedHash = NoBlock]

isProposer(c) == c.proposer = c.address

\* The result of a message handler: the changed core and its error.
Nil(c) == [core |-> c, err |-> "nil"]
Fail(c, e) == [core |-> c, err |-> e]

-----------------------------------------------------------------------------
(* Sending: finalizeMessage and Broadcast, which posts to the sender only *)

broadcast(c, code, sequence, round, digest) ==
  LET m == [code |-> code, sequence |-> sequence, round |-> round,
            digest |-> digest, from |-> c.address,
            seal |-> IF code = "commit" THEN c.preprepare ELSE NoBlock]
  IN  [c EXCEPT !.posted = @ \cup {m}]

sendPreprepare(c, b) ==
  IF c.sequence = Number[b] /\ isProposer(c)
  THEN broadcast(c, "preprepare", c.sequence, c.round, b) ELSE c

sendPrepare(c) == broadcast(c, "prepare", c.sequence, c.round, c.preprepare)

sendCommit(c) ==
  IF c.preprepare = NoBlock THEN c
  ELSE broadcast(c, "commit", c.sequence, c.round, c.preprepare)

-----------------------------------------------------------------------------
(* backlog.go and request.go *)

checkMessage(c, m) ==
  CASE Earlier(m, c) -> "old"
    [] m.sequence > c.sequence -> "future"
    [] /\ m.sequence = c.sequence /\ m.round >= c.round
       /\ m.code # "roundchange"
       /\ \/ m.round > c.round
          \/ c.waiting
          \/ c.state = StateAcceptRequest /\ m.code # "preprepare" -> "future"
    [] OTHER -> "nil"

storeBacklog(c, m) ==
  IF m.from = c.address THEN c ELSE [c EXCEPT !.backlog = @ \cup {m}]

processBacklog(c) ==
  [c EXCEPT !.posted = @ \cup {m \in c.backlog : checkMessage(c, m) = "nil"},
            !.backlog = {m \in @ : checkMessage(c, m) = "future"}]

processPendingRequests(c) ==
  [c EXCEPT !.requests = @ \cup {b \in c.pendingRequests : Number[b] = c.sequence},
            !.pendingRequests = {b \in @ : Number[b] > c.sequence}]

\* The backlog is not looked at when the state changes.
MutSetState(c, state) ==
  LET c1 == [c EXCEPT !.state = state]
  IN  IF state = StateAcceptRequest THEN processPendingRequests(c1) ELSE c1

setState(c, state) ==
  LET c1 == [c EXCEPT !.state = state]
  IN  processBacklog(IF state = StateAcceptRequest THEN processPendingRequests(c1) ELSE c1)

handleRequest(c, b) ==
  CASE Number[b] < c.sequence -> c
    [] Number[b] > c.sequence -> [c EXCEPT !.pendingRequests = @ \cup {b}]
    [] Number[b] = c.sequence ->
         LET c1 == [c EXCEPT !.pendingRequest = b]
         IN  IF c.state = StateAcceptRequest THEN sendPreprepare(c1, b) ELSE c1

-----------------------------------------------------------------------------
(* core.go and roundchange.go: rounds *)

\* The timer announces the previous round.
MutNewRoundChangeTimer(c) ==
  [c EXCEPT !.futurePreprepare = {},
            !.timers = @ \cup {[sequence |-> c.sequence, round |-> c.round - 1]}]

newRoundChangeTimer(c) ==
  [c EXCEPT !.futurePreprepare = {},
            !.timers = @ \cup {[sequence |-> c.sequence, round |-> c.round + 1]}]

\* The lock is forgotten in a round change.
MutUpdateRoundState(c, sequence, round, roundChange) ==
  [c EXCEPT !.running = TRUE, !.sequence = sequence, !.round = round,
            !.preprepare = NoBlock, !.lockedHash = NoBlock, !.prepares = {}, !.commits = {},
            !.pendingRequest = IF roundChange /\ c.running THEN @ ELSE NoBlock]

\* A round change keeps the lock, its proposal and the pending request.
updateRoundState(c, sequence, round, roundChange) ==
  LET locked == roundChange /\ c.running /\ IsHashLocked(c)
  IN  [c EXCEPT !.running = TRUE,
                !.sequence = sequence,
                !.round = round,
                !.preprepare = IF locked THEN @ ELSE NoBlock,
                !.lockedHash = IF locked THEN @ ELSE NoBlock,
                !.prepares = {},
                !.commits = {},
                !.pendingRequest = IF roundChange /\ c.running THEN @ ELSE NoBlock]

startNewRound(c, round) ==
  LET last == Number[c.head]
      newSequence == ~c.running \/ last >= c.sequence
      roundChange == ~newSequence /\ last = c.sequence - 1 /\ round # 0 /\ round >= c.round
      newRound == IF roundChange THEN round ELSE 0
      c1 == updateRoundState(c, IF roundChange THEN c.sequence ELSE last + 1, newRound, roundChange)
      c2 == setState([c1 EXCEPT !.roundChanges = {},
                                !.proposer = roundRobinProposer(Author[c.head], newRound),
                                !.waiting = FALSE],
                     StateAcceptRequest)
      proposal == IF IsHashLocked(c2) THEN c2.preprepare ELSE c2.pendingRequest
  IN  IF ~newSequence /\ ~roundChange THEN c
      ELSE newRoundChangeTimer(
             IF roundChange /\ isProposer(c2) /\ proposal # NoBlock
             THEN sendPreprepare(c2, proposal) ELSE c2)

\* The timer is not armed again after catching up.
MutCatchUpTimer(c, round) ==
  LET c1 == updateRoundState([c EXCEPT !.waiting = TRUE], c.sequence, round, TRUE)
  IN  [c1 EXCEPT !.roundChanges = {rc \in @ : rc[1] >= round}]

catchUpRound(c, round) ==
  LET c1 == updateRoundState([c EXCEPT !.waiting = TRUE], c.sequence, round, TRUE)
  IN  newRoundChangeTimer([c1 EXCEPT !.roundChanges = {rc \in @ : rc[1] >= round}])

\* A late timeout is not compared with the current round.
MutSendRoundChange(c, round) ==
  broadcast(catchUpRound(c, round), "roundchange", c.sequence, round, NoBlock)

sendRoundChange(c, round) ==
  IF c.round >= round THEN c
  ELSE broadcast(catchUpRound(c, round), "roundchange", c.sequence, round, NoBlock)

sendNextRoundChange(c) == sendRoundChange(c, c.round + 1)

\* The senders of the ROUND CHANGE messages collected for a round.
RoundChangesOf(c, round) == {v \in Validators : <<round, v>> \in c.roundChanges}

handleRoundChange(c, m) ==
  LET c1 == [c EXCEPT !.roundChanges = @ \cup {<<m.round, m.from>>}]
      num == Cardinality(RoundChangesOf(c1, m.round))
      check == checkMessage(c, m)
  IN  IF check # "nil" THEN Fail(c, check)
      ELSE IF num = Quorum /\ (c.waiting \/ c.round < m.round)
      THEN Nil(startNewRound(c1, m.round))
      ELSE IF c.waiting /\ num = F(Size) + 1
      THEN Nil(IF c.round < m.round THEN sendRoundChange(c1, m.round) ELSE c1)
      ELSE IF c.round < m.round THEN Fail(c1, "ignored")
      ELSE Nil(c1)

\* roundChangeSet.MaxRound(num) as a set: empty or the highest round that num
\* messages ask for.
maxRounds(c, num) ==
  LET full == {r \in {rc[1] : rc \in c.roundChanges} :
                 Cardinality(RoundChangesOf(c, r)) >= num}
  IN  {r \in full : \A q \in full : q <= r}

handleTimeoutMsg(c, nextView) ==
  LET ahead == {r \in maxRounds(c, F(Size) + 1) : r > c.round}
  IN  IF Number[c.head] >= nextView.sequence THEN c
      ELSE IF ~c.waiting /\ ahead # {} THEN sendRoundChange(c, CHOOSE r \in ahead : TRUE)
      ELSE IF Number[c.head] >= c.sequence THEN startNewRound(c, 0)
      ELSE sendRoundChange(c, nextView.round)

-----------------------------------------------------------------------------
(* preprepare.go, prepare.go, commit.go *)

\* What backend.Verify may answer for proposal b at this moment.
Verify(c, b) ==
  IF b \in c.bad \/ b \notin ValidBlock \/ Parent[b] \notin c.inserted \cup {Genesis}
  THEN {"invalid"}
  ELSE {"nil"} \cup (IF b \in FutureBlock THEN {"future block"} ELSE {})

acceptPreprepare(c, b) == [c EXCEPT !.preprepare = b]

\* The sender is not compared with the proposer.
MutAnyProposer(c, m, verdict) ==
  LET check == checkMessage(c, m)
  IN  IF check # "nil" THEN Fail(c, check)
      ELSE IF verdict # "nil" THEN Fail(c, verdict)
      ELSE IF c.state # StateAcceptRequest THEN Nil(c)
      ELSE IF ~IsHashLocked(c)
      THEN Nil(sendPrepare(setState(acceptPreprepare(c, m.digest), StatePreprepared)))
      ELSE Nil(sendNextRoundChange(c))

\* A second proposal of the round is accepted after the first.
MutAcceptTwice(c, m, verdict) ==
  LET check == checkMessage(c, m)
  IN  IF check # "nil" THEN Fail(c, check)
      ELSE IF m.from # c.proposer THEN Fail(c, "not from proposer")
      ELSE IF verdict # "nil" THEN Fail(c, verdict)
      ELSE IF ~IsHashLocked(c)
      THEN Nil(sendPrepare(setState(acceptPreprepare(c, m.digest), StatePreprepared)))
      ELSE Nil(sendNextRoundChange(c))

handlePreprepare(c, m, verdict) ==
  LET check == checkMessage(c, m)
      oldBlock == /\ m.digest \in c.inserted
                  /\ m.from = roundRobinProposer(Author[Parent[m.digest]], m.round)
  IN  IF check = "old" /\ oldBlock
      THEN Nil(broadcast(c, "commit", m.sequence, m.round, m.digest))
      ELSE IF check # "nil" THEN Fail(c, check)
      ELSE IF m.from # c.proposer THEN Fail(c, "not from proposer")
      ELSE IF verdict = "future block" THEN Fail([c EXCEPT !.futurePreprepare = {m}], verdict)
      ELSE IF verdict = "invalid" THEN Fail(sendNextRoundChange(c), verdict)
      ELSE IF c.state # StateAcceptRequest THEN Nil(c)
      ELSE IF ~IsHashLocked(c)
      THEN Nil(sendPrepare(setState(acceptPreprepare(c, m.digest), StatePreprepared)))
      ELSE IF m.digest = c.lockedHash
      THEN Nil(sendCommit(setState(acceptPreprepare(c, m.digest), StatePrepared)))
      ELSE Nil(sendNextRoundChange(c))

\* verifyPrepare and verifyCommit: the message is about the current subject
\* (checkMessage has compared the views).
SubjectMatches(c, m) == c.preprepare # NoBlock /\ m.digest = c.preprepare

\* F + 1 votes suffice to lock.
MutTryPrepared(c, m) ==
  IF c.state >= StatePrepared THEN c
  ELSE IF Cardinality(c.prepares \cup c.commits) >= F(Size) + 1
  THEN sendCommit(setState(LockHash(c), StatePrepared))
  ELSE c

\* The step to StatePrepared that handlePrepare and handleCommit share.
tryPrepared(c, m) ==
  IF c.state >= StatePrepared THEN c
  ELSE IF IsHashLocked(c) /\ m.digest = c.lockedHash
  THEN sendCommit(setState(c, StatePrepared))
  ELSE IF Cardinality(c.prepares \cup c.commits) >= Quorum
  THEN sendCommit(setState(LockHash(c), StatePrepared))
  ELSE c

handlePrepare(c, m) ==
  LET check == checkMessage(c, m)
  IN  IF check # "nil" THEN Fail(c, check)
      ELSE IF ~SubjectMatches(c, m) THEN Fail(c, "inconsistent subject")
      ELSE Nil(tryPrepared([c EXCEPT !.prepares = @ \cup {m.from}], m))

\* backend.Commit fails only without a proposal or without seals; it hands the
\* block to the worker (commitCh) or to the fetcher and returns.
commit(c) ==
  LET c1 == setState(c, StateCommitted)
  IN  IF c1.preprepare = NoBlock \/ c1.commits = {}
      THEN sendNextRoundChange(UnlockHash(c1))
      ELSE [c1 EXCEPT !.committing = @ \cup {c1.preprepare}]

\* COMMIT messages of an earlier view are handled.
MutHandleCommit(c, m) ==
  LET c1 == [c EXCEPT !.commits = @ \cup {m.from}]
  IN  IF Cardinality(c1.commits) >= Quorum THEN Nil(commit(LockHash(c1))) ELSE Nil(c1)

handleCommit(c, m) ==
  LET check == checkMessage(c, m)
      c1 == tryPrepared([c EXCEPT !.commits = @ \cup {m.from}], m)
  IN  IF check # "nil" THEN Fail(c, check)
      ELSE IF ~SubjectMatches(c, m) THEN Fail(c, "inconsistent subject")
      ELSE IF c1.state < StateCommitted /\ Cardinality(c1.commits) >= Quorum
      THEN Nil(commit(LockHash(c1)))
      ELSE Nil(c1)

handleCheckedMsg(c, m, verdict) ==
  LET res == CASE m.code = "preprepare" -> handlePreprepare(c, m, verdict)
               [] m.code = "prepare" -> handlePrepare(c, m)
               [] m.code = "commit" -> handleCommit(c, m)
               [] m.code = "roundchange" -> handleRoundChange(c, m)
  IN  IF res.err = "future" THEN Fail(storeBacklog(res.core, m), res.err) ELSE res

-----------------------------------------------------------------------------
(* The chain, as the engine sees it *)


\* NewChainHead posts FinalCommittedEvent to a running engine.  A block that
\* fails is remembered as bad (HasBadProposal).
insertBlock(c, b) ==
  IF b \in BadBlock
  THEN [c EXCEPT !.bad = @ \cup {b}, !.committing = @ \ {b}]
  ELSE [c EXCEPT !.inserted = @ \cup {b}, !.head = b, !.committing = @ \ {b},
                 !.finalCommitted = @ \/ c.running]

\* Validators whose committed seal for b has been on the wire.
Sealers(b) ==
  {v \in Validators : \E m \in net \cup EnvMessage :
                        m.code = "commit" /\ m.from = v /\ m.seal = b}

-----------------------------------------------------------------------------
(* Behaviours *)

\* New: the engine before its first Start.
NewCore(n) ==
  [address |-> n, running |-> FALSE, state |-> StateAcceptRequest, waiting |-> FALSE,
   proposer |-> roundRobinProposer(NoAddress, 0), backlog |-> {}, roundChanges |-> {},
   pendingRequests |-> {}, futurePreprepare |-> {}, timers |-> {},
   sequence |-> 0, round |-> 0, preprepare |-> NoBlock, prepares |-> {}, commits |-> {},
   lockedHash |-> NoBlock, pendingRequest |-> NoBlock,
   posted |-> {}, requests |-> {}, finalCommitted |-> FALSE,
   known |-> {}, sealed |-> {}, committing |-> {}, inserted |-> {}, head |-> Genesis,
   bad |-> {}]

Init ==
  /\ core = [n \in Nodes |-> startNewRound(NewCore(n), 0)]
  /\ net = {}

\* One turn of handleEvents on message m: handle it and gossip it when the
\* handler returned no error.
HandleMessage(n, c, m) ==
  \E verdict \in IF m.code = "preprepare" THEN Verify(c, m.digest) ELSE {"nil"} :
    LET res == handleCheckedMsg(c, m, verdict)
        seen == IF res.err = "nil" /\ ~Evicts THEN {m} ELSE {}
    IN  /\ res.core.round <= MaxRound
        /\ core' = [core EXCEPT ![n] = [res.core EXCEPT !.known = @ \cup seen]]
        /\ net' = IF res.err = "nil" /\ m.from \in Nodes THEN net \cup {m} ELSE net

\* A message event the core posted to itself: its own broadcast, or a message
\* released from the backlog or by the future-preprepare timer.
HandlePosted(n, m) ==
  LET c == core[n]
  IN  /\ c.running
      /\ m \in c.posted
      /\ HandleMessage(n, [c EXCEPT !.posted = @ \ {m}], m)

\* HandleMsg: a message from a peer, unless it is known.  The event it posts is
\* handled in the same step, the delay between the two being one of the network.
Deliver(n, m) ==
  LET c == core[n]
  IN  /\ c.running
      /\ m \in net \cup EnvMessage
      /\ m \notin c.known
      /\ HandleMessage(n, [c EXCEPT !.known = IF Evicts THEN @ ELSE @ \cup {m}], m)

\* The worker passes a new block on top of its head to Seal.
Seal(n, b) ==
  LET c == core[n]
  IN  /\ c.running
      /\ Author[b] = n /\ Parent[b] = c.head /\ b \in ValidBlock \ BadBlock
      /\ b \notin c.sealed
      /\ core' = [core EXCEPT ![n].requests = @ \cup {b}, ![n].sealed = @ \cup {b}]
      /\ net' = net

HandleRequest(n, b) ==
  LET c == core[n]
  IN  /\ c.running
      /\ b \in c.requests
      /\ core' = [core EXCEPT ![n] = handleRequest([c EXCEPT !.requests = @ \ {b}], b)]
      /\ net' = net

FuturePreprepareTimer(n) ==
  LET c == core[n]
  IN  /\ c.futurePreprepare # {}
      /\ core' = [core EXCEPT ![n].posted = @ \cup c.futurePreprepare,
                              ![n].futurePreprepare = {}]
      /\ net' = net

\* A round change timer that was armed for an earlier view may have fired just
\* before it was stopped, so any unhandled timeout event may come.
HandleTimeout(n, nextView) ==
  LET c == core[n]
      c1 == handleTimeoutMsg([c EXCEPT !.timers = @ \ {nextView}], nextView)
  IN  /\ c.running
      /\ nextView \in c.timers
      /\ nextView.sequence <= MaxHeight
      /\ nextView.round <= MaxRound
      /\ c1.round <= MaxRound
      /\ core' = [core EXCEPT ![n] = c1]
      /\ net' = net

HandleFinalCommitted(n) ==
  LET c == core[n]
  IN  /\ c.running
      /\ c.finalCommitted
      /\ core' = [core EXCEPT ![n] = startNewRound([c EXCEPT !.finalCommitted = FALSE], 0)]
      /\ net' = net

\* The worker or the fetcher inserts a block the core committed.
InsertCommitted(n, b) ==
  LET c == core[n]
  IN  /\ b \in c.committing
      /\ Parent[b] = c.head
      /\ core' = [core EXCEPT ![n] = insertBlock(c, b)]
      /\ net' = net

\* The downloader or the fetcher imports a block with verified seals.
Import(n, b) ==
  LET c == core[n]
  IN  /\ b \in ValidBlock \ c.bad
      /\ Parent[b] = c.head
      /\ EnoughCommittedSeals(Cardinality(Sealers(b)), Size)
      /\ core' = [core EXCEPT ![n] = insertBlock(c, b)]
      /\ net' = net

\* Stop ends handleEvents, which sets c.current to nil, and stops the timers.
\* Events that were posted before the engine is started again may be lost or
\* delayed, the timeout event among them.
Stop(n) ==
  /\ n \in Restartable
  /\ core[n].running
  /\ \E late \in {core[n].timers, {}} :
       core' = [core EXCEPT ![n] =
                  [@ EXCEPT !.running = FALSE, !.preprepare = NoBlock, !.prepares = {},
                            !.commits = {}, !.lockedHash = NoBlock, !.timers = late,
                            !.pendingRequest = NoBlock, !.futurePreprepare = {}]]
  /\ net' = net

\* The event loop is started without a new round.
MutStart(n) ==
  /\ ~core[n].running
  /\ core' = [core EXCEPT ![n].running = TRUE]
  /\ net' = net

Start(n) ==
  /\ ~core[n].running
  /\ core' = [core EXCEPT ![n] = startNewRound(@, 0)]
  /\ net' = net

Next ==
  \E n \in Nodes :
    \/ \E m \in core[n].posted : HandlePosted(n, m)
    \/ \E m \in net \cup EnvMessage : Deliver(n, m)
    \/ \E b \in Block : Seal(n, b)
    \/ \E b \in core[n].requests : HandleRequest(n, b)
    \/ FuturePreprepareTimer(n)
    \/ \E v \in core[n].timers : HandleTimeout(n, v)
    \/ HandleFinalCommitted(n)
    \/ \E b \in core[n].committing : InsertCommitted(n, b)
    \/ \E b \in Block : Import(n, b)
    \/ Stop(n)
    \/ Start(n)

Spec == Init /\ [][Next]_vars

\* Steps that are bound to come: the turns of the loops of handleEvents and of
\* the worker, the delivery of what is sent, timers below the bound on rounds,
\* and the import of a block that another validator has (other imports are not).
Progress(n) ==
  \/ \E b \in Block : Seal(n, b)
  \/ \E b \in core[n].committing : InsertCommitted(n, b)
  \/ HandleFinalCommitted(n)
  \/ \E k \in Nodes : \E b \in core[k].inserted : Import(n, b)
  \/ \E b \in core[n].requests : HandleRequest(n, b)
  \/ \E v \in core[n].timers : HandleTimeout(n, v)
  \/ \E m \in core[n].posted : HandlePosted(n, m)
  \/ \E m \in net \cup EnvMessage : Deliver(n, m)

\* Some validator that has such a step takes one.
Fairness == WF_vars(\E n \in Nodes : Progress(n))

FairSpec == Spec /\ Fairness

-----------------------------------------------------------------------------
(* Properties *)

\* Validators that run this code and never lose their lock by a restart.
Steady == Nodes \ Restartable

IsVote(m) == m.code \in {"prepare", "commit"}

\* Every field keeps its Go type and every gossiped message is well formed.
TypeOK ==
  /\ core \in [Nodes -> Core]
  /\ \A n \in Nodes : core[n].address = n
  /\ net \subseteq Message

\* No two validators ever insert different blocks at the same height, whatever
\* order messages, timeouts, insertions and imports come in.
Agreement ==
  \A n1, n2 \in Nodes :
    \A b1 \in core[n1].inserted, b2 \in core[n2].inserted :
      Number[b1] = Number[b2] => b1 = b2

\* A validator's gossiped PREPARE and COMMIT messages of one view name one block.
OneVotePerView ==
  \A m1, m2 \in net :
    /\ IsVote(m1) /\ IsVote(m2)
    /\ m1.from = m2.from /\ m1.from \in Steady
    /\ m1.sequence = m2.sequence /\ m1.round = m2.round
    => m1.digest = m2.digest


\* A gossiped COMMIT carries the seal of the block it votes for, although
\* finalizeMessage seals the current proposal and not the subject's digest
\* (sendCommitForOldBlock asks it to do so for another block).
SealsMatchDigests ==
  \A m \in net : m.code = "commit" => m.seal = m.digest

\* A PREPREPARE that a validator gossips comes from the proposer of its view,
\* although catchUpRound advances the round and leaves valSet.proposer stale.
OnlyProposerProposes ==
  \A m \in net :
    m.code = "preprepare" =>
      m.from = roundRobinProposer(Author[Parent[m.digest]], m.round)

\* No message that could be processed now stays in the backlog: every change of
\* state or view that makes a message current also releases it.
BacklogReleased ==
  \A n \in Nodes :
    core[n].running => \A m \in core[n].backlog : checkMessage(core[n], m) # "nil"

\* A running validator can always leave its view: a timeout for it is pending,
\* or the final-committed event that moves it to the next height is.
TimerPending ==
  \A n \in Nodes :
    LET c == core[n]
    IN  c.running => \/ [sequence |-> c.sequence, round |-> c.round + 1] \in c.timers
                     \/ c.finalCommitted /\ Number[c.head] >= c.sequence

\* A validator that is not restarted never returns to an earlier view.
ViewsAdvance ==
  [][\A n \in Steady :
       \/ core[n].sequence < core'[n].sequence
       \/ core[n].sequence = core'[n].sequence /\ core[n].round <= core'[n].round]_vars

\* Every validator inserts a block and moves to the next height, whatever order
\* messages and timeouts come in, if the timers of the last round are long
\* enough: votes that overtake the PREPREPARE or the round change wait in the
\* backlog and are released, and ROUND CHANGE messages are counted again after
\* catchUpRound.
RoundCompletes == <>(\A n \in Nodes : core[n].sequence = 2)

\* The votes, locks and insertions of this specification are those that
\* IstanbulVoting allows.
Voting ==
  INSTANCE IstanbulVoting WITH
    Correct <- Steady,
    votes <- {[code |-> m.code, from |-> m.from, round |-> m.round, digest |-> m.digest] :
                m \in {o \in net : IsVote(o) /\ o.from \in Steady}},
    height <- [n \in Steady |-> core[n].sequence],
    lock <- [n \in Steady |-> core[n].lockedHash],
    decided <- UNION {core[n].inserted : n \in Nodes}

\* Every step of the engine is a step that the voting rules allow, or changes
\* no vote, lock, height or inserted block.
ImplementsVoting == Voting!Spec

=============================================================================
