--------------------------- MODULE SnapshotStore ---------------------------
(***************************************************************************)
(* The voting snapshots of the Istanbul backend: snapshot() and regen() in *)
(* backend/engine.go, the in-memory cache recents, the checkpoints on      *)
(* disk, and the callers that insert, verify, read, rewind and restart.    *)
(*                                                                         *)
(* Istanbul chains do not fork, so a block is its number and its hash too. *)
(* A snapshot is the sequence of the headers applied to the genesis one.   *)
(* Writers are the goroutines that insert blocks (worker.wait and          *)
(* insertChain); their calls are writable.  Readers call with              *)
(* writable = false: the engine's getValidators and the RPC API.           *)
(*                                                                         *)
(* Headers are those of one valid chain, so apply does not fail.  What     *)
(* governance does with a vote is outside; `handled` records which headers *)
(* a writable apply has handed to it.                                      *)
(***************************************************************************)
EXTENDS Integers, Sequences, FiniteSets, FiniteSetsExt

CONSTANTS Writers, Readers,
          CheckpointInterval,  \* params.CheckpointInterval
          Epoch,               \* Istanbul.Epoch
          CacheSize,           \* inmemorySnapshots
          Isolated,            \* read-only calls overlap neither the time from a write
                               \* to its CreateSnapshot nor the purge after a rewind
          MaxHeight,           \* bound: blocks of the chain
          MaxRewinds,          \* bound: calls of SetHead
          MaxRestarts          \* bound: restarts of the node

ASSUME StoreAssumption ==
  /\ CheckpointInterval \in Nat \ {0}
  /\ Epoch \in Nat \ {0}
  /\ MaxHeight \in Nat

Threads == Writers \cup Readers

VARIABLES
  head,                  \* number of the current block
  disk,                  \* snapshots in the database, by block
  recents,               \* snapshots in memory, by block
  isRestoringSnapshots,
  call,                  \* the call of snapshot() each thread is in
  verified,              \* last block on which a writer verified a header
  handled,               \* headers whose votes a writable apply passed to governance
  up,                    \* the node has finished starting
  rewinding,             \* SetHead has rewound the chain and not yet the cache
  rewinds, restarts      \* bounded counters

vars == <<head, disk, recents, isRestoringSnapshots, call, verified, handled,
          up, rewinding, rewinds, restarts>>

Idle == [pc |-> "idle"]

IsCheckpointInterval(n) == n # 0 /\ n % CheckpointInterval = 0

Headers(from, to) == [i \in 1..(to - from + 1) |-> from + i - 1]

Init ==
  /\ head = 0
  /\ disk = <<>>
  /\ recents = <<>>
  /\ isRestoringSnapshots = FALSE
  /\ call = [t \in Threads |-> Idle]
  /\ verified = [t \in Writers |-> -1]
  /\ handled = {}
  /\ up = FALSE
  /\ rewinding = FALSE
  /\ rewinds = 0
  /\ restarts = 0

(***************************************************************************)
(* snapshot()                                                              *)
(***************************************************************************)

(* The search: the last block up to n with a snapshot in memory, or on     *)
(* disk if it is a checkpoint, or the genesis block.                       *)
Base(n) == Max({b \in 0..n : \/ b = 0
                             \/ b \in DOMAIN recents
                             \/ IsCheckpointInterval(b) /\ b \in DOMAIN disk})

BaseSnapshot(b) == IF b \in DOMAIN recents THEN recents[b]
                   ELSE IF b # 0 THEN disk[b]
                   ELSE <<>>

apply(s, from, to) == s \o Headers(from, to)

(* s.Hash is the key: a stored snapshot replaces the one with its hash.    *)
Store(store, n, s) ==
  [m \in DOMAIN store \cup {n} |-> IF m = n THEN s ELSE store[m]]

(* A search that reaches the genesis block stores a snapshot for it.       *)
WithGenesis(b) == IF b = 0 /\ 0 \notin DOMAIN recents THEN Store(disk, 0, <<>>) ELSE disk

(* The cache grows without bound.                                          *)
MutAdd(n, s) == {Store(recents, n, s)}

(* lru.ARCCache.Add: when the cache is full some other entry goes.         *)
Add(n, s) ==
  LET full == Store(recents, n, s)
  IN IF Cardinality(DOMAIN full) <= CacheSize
     THEN {full}
     ELSE {[m \in DOMAIN full \ {victim} |-> full[m]] : victim \in DOMAIN full \ {n}}

(* Thread t calls snapshot() for block n, parents being known up to the    *)
(* block `parents`, on behalf of `caller`.                                 *)
Call(t, n, parents, writable, caller) ==
  /\ call[t] = Idle
  /\ call' = [call EXCEPT ![t] = [pc |-> "search", number |-> n, parents |-> parents,
                                  writable |-> writable, caller |-> caller]]

(* The call of t returns; ok: without an error.                            *)
Return(t, ok) ==
  /\ call' = [call EXCEPT ![t] = Idle]
  /\ verified' = IF ok /\ call[t].caller = "verify"
                 THEN [verified EXCEPT ![t] = call[t].number]
                 ELSE verified
  /\ up' = (up \/ call[t].caller = "startup")

(* apply changes the cached snapshot instead of a copy.                    *)
MutSearch(t) ==
  /\ call[t].pc = "search"
  /\ LET n == call[t].number
         b == Base(n)
         snap == apply(BaseSnapshot(b), b + 1, n)
     IN /\ disk' = IF call[t].writable /\ IsCheckpointInterval(n) /\ b < n
                   THEN Store(WithGenesis(b), n, snap)
                   ELSE WithGenesis(b)
        /\ recents' = IF b \in DOMAIN recents THEN [recents EXCEPT ![b] = snap] ELSE recents
        /\ handled' = IF call[t].writable THEN handled \cup ((b + 1)..n) ELSE handled
        /\ call' = [call EXCEPT ![t] = [pc |-> "regen", number |-> n, from |-> b + 1,
                                        snap |-> snap, todo |-> {},
                                        caller |-> call[t].caller]]
  /\ UNCHANGED <<head, isRestoringSnapshots, verified, up, rewinding, rewinds, restarts>>

(* Search, apply and, for a new checkpoint of a writable call, store.      *)
Search(t) ==
  /\ call[t].pc = "search"
  /\ LET n == call[t].number
         b == Base(n)
         snap == apply(BaseSnapshot(b), b + 1, n)
     IN \/ /\ \E h \in (b + 1)..n : h > head /\ h > call[t].parents
           /\ Return(t, FALSE)
           /\ UNCHANGED <<disk, handled>>
        \/ /\ \A h \in (b + 1)..n : h <= head \/ h <= call[t].parents
           /\ disk' = IF call[t].writable /\ IsCheckpointInterval(n) /\ b < n
                      THEN Store(WithGenesis(b), n, snap)
                      ELSE WithGenesis(b)
           /\ handled' = IF call[t].writable THEN handled \cup ((b + 1)..n) ELSE handled
           /\ call' = [call EXCEPT ![t] = [pc |-> "regen", number |-> n, from |-> b + 1,
                                           snap |-> snap, todo |-> {},
                                           caller |-> call[t].caller]]
           /\ UNCHANGED <<verified, up>>
  /\ UNCHANGED <<head, recents, isRestoringSnapshots, rewinding, rewinds, restarts>>

(***************************************************************************)
(* regen()                                                                 *)
(***************************************************************************)

Checkpoints(from, to) == {c \in from..to : IsCheckpointInterval(c)}

(* The test at the head of regen: the flag is taken before the number of   *)
(* headers is looked at, and the deferred reset comes after both.          *)
Regen(t) ==
  /\ call[t].pc = "regen"
  /\ LET from == call[t].from
         to == call[t].number
         taken == ~isRestoringSnapshots
         runs == taken /\ to - from + 1 > 1
         todo == Checkpoints(from, to)
         shortcut == to - (to % CheckpointInterval) < from
     IN /\ isRestoringSnapshots' = (isRestoringSnapshots \/ (taken /\ ~(runs /\ shortcut)))
        /\ call' = [call EXCEPT ![t] =
             [@ EXCEPT !.pc = IF runs /\ ~shortcut THEN "restore" ELSE "add",
                       !.todo = IF runs /\ ~shortcut THEN todo ELSE {}]]
  /\ UNCHANGED <<head, disk, recents, verified, handled, up, rewinding, rewinds, restarts>>

(* One checkpoint of the loop.  The nested snapshot() finds the flag taken *)
(* in its own regen, caches its snapshot and returns; regen stores it.     *)
RestoreOne(t) ==
  /\ call[t].pc = "restore"
  /\ call[t].todo # {}
  /\ LET c == Min(call[t].todo)
         b == Base(c)
         snap == apply(BaseSnapshot(b), b + 1, c)
     IN /\ \/ /\ c \in DOMAIN disk \/ (\E h \in (b + 1)..c : h > head)
              /\ UNCHANGED <<disk, recents>>
           \/ /\ c \notin DOMAIN disk
              /\ \A h \in (b + 1)..c : h <= head
              /\ recents' \in Add(c, snap)
              /\ disk' = Store(WithGenesis(b), c, snap)
        /\ call' = [call EXCEPT ![t].todo = @ \ {c}]
  /\ UNCHANGED <<head, isRestoringSnapshots, verified, handled, up, rewinding, rewinds, restarts>>

RegenDone(t) ==
  /\ call[t].pc = "restore"
  /\ call[t].todo = {}
  /\ isRestoringSnapshots' = FALSE
  /\ call' = [call EXCEPT ![t].pc = "add"]
  /\ UNCHANGED <<head, disk, recents, verified, handled, up, rewinding, rewinds, restarts>>

(* recents.Add and the return.                                             *)
Finish(t) ==
  /\ call[t].pc = "add"
  /\ recents' \in Add(call[t].number, call[t].snap)
  /\ Return(t, TRUE)
  /\ UNCHANGED <<head, disk, isRestoringSnapshots, handled, rewinding, rewinds, restarts>>

(***************************************************************************)
(* The callers                                                             *)
(***************************************************************************)

(* The node starts and restores the governance state before the sync.      *)
Startup(t) ==
  /\ ~up
  /\ \A w \in Threads : call[w] = Idle
  /\ Call(t, head, 0, TRUE, "startup")
  /\ UNCHANGED <<head, disk, recents, isRestoringSnapshots, verified, handled,
                 up, rewinding, rewinds, restarts>>

(* verifySigner, verifyCommittedSeals, Prepare, Seal: the snapshot of the  *)
(* parent.  A batch of headers is verified in order, ahead of insertion.   *)
Verify(t) ==
  /\ up /\ ~rewinding
  /\ \E n \in {head, verified[t] + 1} :
        /\ n \in head..(MaxHeight - 1)
        /\ Call(t, n, n, TRUE, "verify")
  /\ UNCHANGED <<head, disk, recents, isRestoringSnapshots, verified, handled,
                 up, rewinding, rewinds, restarts>>

(* WriteBlockWithState of a verified block; then CreateSnapshot.           *)
WriteBlock(t) ==
  /\ up /\ ~rewinding
  /\ head < MaxHeight
  /\ verified[t] >= head
  /\ head' = head + 1
  /\ Call(t, head + 1, 0, TRUE, "create")
  /\ UNCHANGED <<disk, recents, isRestoringSnapshots, verified, handled,
                 up, rewinding, rewinds, restarts>>

(* The call of CreateSnapshot for the block n has not applied it yet.      *)
Creating(n) ==
  \/ ~up
  \/ \E t \in Writers : call[t].pc = "search" /\ call[t].caller = "create" /\ call[t].number = n

(* getValidators and the API: the snapshot of a block of the chain.        *)
Read(t) ==
  /\ up
  /\ Isolated => ~Creating(head)
  /\ \E n \in 0..head : Call(t, n, 0, FALSE, "read")
  /\ UNCHANGED <<head, disk, recents, isRestoringSnapshots, verified, handled,
                 up, rewinding, rewinds, restarts>>

(* BlockChain.SetHead: removes the blocks above the target with their      *)
(* snapshots and governance data, and the checkpoints of the epoch of the  *)
(* new head.  The synchroniser is stopped meanwhile.                       *)
SetHead ==
  /\ up /\ ~rewinding
  /\ rewinds < MaxRewinds
  /\ \A w \in Writers : call[w] = Idle
  /\ \E target \in 1..(head - 1) :
        LET votingEpoch == Max({1, target - (target % Epoch)})
            gone == {n \in votingEpoch..head : IsCheckpointInterval(n)}
        IN /\ head' = target
           /\ disk' = [n \in DOMAIN disk \ gone |-> disk[n]]
           /\ handled' = handled \ ((target + 1)..head)
  /\ verified' = [t \in Writers |-> -1]
  /\ rewinding' = TRUE
  /\ rewinds' = rewinds + 1
  /\ UNCHANGED <<recents, isRestoringSnapshots, call, up, restarts>>

(* The cache keeps its snapshots across SetHead.                           *)
MutInitSnapshot ==
  /\ rewinding
  /\ Isolated => \A r \in Readers : call[r] = Idle
  /\ rewinding' = FALSE
  /\ UNCHANGED <<head, disk, recents, isRestoringSnapshots, call, verified, handled,
                 up, rewinds, restarts>>

InitSnapshot ==
  /\ rewinding
  /\ Isolated => \A r \in Readers : call[r] = Idle
  /\ recents' = <<>>
  /\ rewinding' = FALSE
  /\ UNCHANGED <<head, disk, isRestoringSnapshots, call, verified, handled,
                 up, rewinds, restarts>>

(* The node stops at any point and starts with an empty memory.            *)
Restart ==
  /\ restarts < MaxRestarts
  /\ call' = [t \in Threads |-> Idle]
  /\ recents' = <<>>
  /\ isRestoringSnapshots' = FALSE
  /\ verified' = [t \in Writers |-> -1]
  /\ up' = FALSE
  /\ rewinding' = FALSE
  /\ restarts' = restarts + 1
  /\ UNCHANGED <<head, disk, handled, rewinds>>

WriterStep(t) == Startup(t) \/ Verify(t) \/ WriteBlock(t)

SnapshotStep(t) == Search(t) \/ Regen(t) \/ RestoreOne(t) \/ RegenDone(t) \/ Finish(t)

Next ==
  \/ \E t \in Writers : WriterStep(t)
  \/ \E t \in Readers : Read(t)
  \/ \E t \in Threads : SnapshotStep(t)
  \/ SetHead
  \/ InitSnapshot
  \/ Restart

Spec == Init /\ [][Next]_vars

(***************************************************************************)
(* Properties                                                              *)
(***************************************************************************)

(* Types of the caches and counters.                                       *)
TypeOK ==
  /\ head \in 0..MaxHeight
  /\ DOMAIN disk \subseteq 0..MaxHeight
  /\ DOMAIN recents \subseteq 0..MaxHeight
  /\ Cardinality(DOMAIN recents) <= CacheSize
  /\ handled \subseteq 1..MaxHeight

(* Every snapshot in memory or on disk has had each header up to its block *)
(* applied once and in order, whatever calls, evictions, rewinds and       *)
(* restarts came before (apply copies, store and Add key by s.Hash).       *)
SnapshotsFaithful ==
  /\ \A n \in DOMAIN recents : recents[n] = Headers(1, n)
  /\ \A n \in DOMAIN disk : disk[n] = Headers(1, n)

(* The votes of every inserted header reach governance through a writable  *)
(* apply, at the latest in the CreateSnapshot that follows the insertion.  *)
InsertedHandled == \A n \in 1..head : n \in handled \/ Creating(n)

(* Past regen, every checkpoint among the headers the call applied has a   *)
(* snapshot in the database.                                               *)
RegenRestores ==
  \A t \in Threads :
     call[t].pc = "add" /\ call[t].number > call[t].from
       => Checkpoints(call[t].from, call[t].number) \subseteq DOMAIN disk
=============================================================================
