------------------------ MODULE SnapshotStoreProofs ------------------------
(***************************************************************************)
(* Every snapshot the backend keeps is faithful, for any number of threads *)
(* and blocks, any checkpoint interval and any size of the cache.          *)
(***************************************************************************)
EXTENDS SnapshotStore, WellFoundedInduction, TLAPS

Callers == {"startup", "verify", "create", "read"}

\* A call of snapshot() that searches, and one that has found its snapshot.
Searching == [pc : {"search"}, number : Nat, parents : Nat, writable : BOOLEAN,
              caller : Callers]
Found == [pc : {"regen", "restore", "add"}, number : Nat, from : Nat, snap : Seq(Nat),
          todo : SUBSET Nat, caller : Callers]

\* A store, in memory or on disk, of faithful snapshots.
Faithful(store) ==
  /\ DOMAIN store \subseteq Nat
  /\ \A n \in DOMAIN store : store[n] = Headers(1, n)

CallsFaithful ==
  /\ call \in [Threads -> {Idle} \cup Searching \cup Found]
  /\ \A t \in Threads : call[t] \in Found => call[t].snap = Headers(1, call[t].number)

\* The inductive invariant: the stores are faithful, and so is the snapshot that
\* a call holds between its search and the cache.
IInv ==
  /\ head \in Nat
  /\ Faithful(recents)
  /\ Faithful(disk)
  /\ CallsFaithful

(***************************************************************************)
(* Operators                                                               *)
(***************************************************************************)

\* A set of naturals with an element has a least one.
LEMMA LeastNatural ==
  ASSUME NEW S, S \subseteq Nat, S # {}
  PROVE  \E x \in S : \A y \in S : x <= y
<1>1. PICK x \in S : \A y \in S : ~(<<y, x>> \in OpToRel(<, Nat))
  BY NatLessThanWellFounded, WFMin
<1>2. \A y \in S : ~(y < x)
  BY <1>1, ZenonT(30) DEF OpToRel
<1>3. \A y \in S : x <= y
  BY <1>2
<1> QED
  BY <1>3

LEMMA MinOfNaturals ==
  ASSUME NEW S, S \subseteq Nat, S # {}
  PROVE  Min(S) \in S
<1>1. PICK x \in S : \A y \in S : x <= y
  BY LeastNatural, ZenonT(30)
<1> QED
  BY <1>1, ZenonT(30) DEF Min

\* A set of naturals up to n with an element has a greatest one.
LEMMA MaxOfNaturals ==
  ASSUME NEW n \in Nat, NEW S, S \subseteq 0..n, S # {}
  PROVE  Max(S) \in S
<1> DEFINE T == {n - x : x \in S}
<1>1. T \subseteq Nat
  <2>1. \A x \in S : n - x \in Nat
    OBVIOUS
  <2> QED
    BY <2>1
<1>2. T # {}
  <2>1. PICK x \in S : TRUE
    BY ZenonT(30)
  <2>2. n - x \in T
    OBVIOUS
  <2> QED
    BY <2>2
<1>3. PICK d \in T : \A y \in T : d <= y
  <2> HIDE DEF T
  <2> QED
    BY <1>1, <1>2, LeastNatural, ZenonT(30)
<1>4. PICK x \in S : d = n - x
  OBVIOUS
<1>5. ASSUME NEW y \in S PROVE x >= y
  BY <1>3, <1>4
<1>6. \A y \in S : x >= y
  BY <1>5
<1> QED
  BY <1>6, ZenonT(30) DEF Max

\* The search ends at a block that has a snapshot, or at the genesis block.
LEMMA BaseFound ==
  ASSUME NEW n \in Nat
  PROVE  /\ Base(n) \in 0..n
         /\ \/ Base(n) = 0
            \/ Base(n) \in DOMAIN recents
            \/ Base(n) \in DOMAIN disk
<1> DEFINE S == {b \in 0..n : \/ b = 0
                              \/ b \in DOMAIN recents
                              \/ IsCheckpointInterval(b) /\ b \in DOMAIN disk}
<1>1. S \subseteq 0..n /\ 0 \in S
  OBVIOUS
<1>2. Max(S) \in S
  BY <1>1, MaxOfNaturals
<1> QED
  BY <1>2 DEF Base

\* Headers applied to the snapshot of block b give the snapshot of block n.
LEMMA ApplyFaithful ==
  ASSUME NEW n \in Nat, NEW b \in 0..n
  PROVE  apply(Headers(1, b), b + 1, n) = Headers(1, n)
<1>1. Headers(1, b) = [i \in 1..b |-> i]
  BY DEF Headers
<1>2. Headers(b + 1, n) = [i \in 1..(n - b) |-> b + i]
  BY DEF Headers
<1>3. Headers(1, n) = [i \in 1..n |-> i]
  BY DEF Headers
<1>4. /\ [i \in 1..b |-> i] \in Seq(Nat)
      /\ [i \in 1..(n - b) |-> b + i] \in Seq(Nat)
  OBVIOUS
<1>5. [i \in 1..b |-> i] \o [i \in 1..(n - b) |-> b + i] = [i \in 1..n |-> i]
  BY <1>4
<1> QED
  BY <1>1, <1>2, <1>3, <1>5, ZenonT(30) DEF apply

LEMMA HeadersType ==
  ASSUME NEW n \in Nat
  PROVE  Headers(1, n) \in Seq(Nat)
  BY DEF Headers

\* What a call computes from its base is faithful.
LEMMA SearchFaithful ==
  ASSUME NEW n \in Nat, Faithful(recents), Faithful(disk)
  PROVE  apply(BaseSnapshot(Base(n)), Base(n) + 1, n) = Headers(1, n)
<1> DEFINE b == Base(n)
<1>1. b \in 0..n /\ (b = 0 \/ b \in DOMAIN recents \/ b \in DOMAIN disk)
  BY BaseFound
<1> HIDE DEF b
<1>2. Headers(1, 0) = <<>>
  BY DEF Headers
<1>3. BaseSnapshot(b) = Headers(1, b)
  BY <1>1, <1>2 DEF BaseSnapshot, Faithful
<1>4. apply(BaseSnapshot(b), b + 1, n) = Headers(1, n)
  BY <1>1, <1>3, ApplyFaithful
<1> QED
  BY <1>4 DEF b

LEMMA StoreFaithful ==
  ASSUME NEW store, Faithful(store), NEW n \in Nat
  PROVE  Faithful(Store(store, n, Headers(1, n)))
  BY DEF Faithful, Store

LEMMA AddFaithful ==
  ASSUME Faithful(recents), NEW n \in Nat, NEW r \in Add(n, Headers(1, n))
  PROVE  Faithful(r)
<1> DEFINE full == Store(recents, n, Headers(1, n))
<1>1. Faithful(full)
  BY StoreFaithful
<1> HIDE DEF full
<1>2. \/ r = full
      \/ \E victim \in DOMAIN full \ {n} : r = [m \in DOMAIN full \ {victim} |-> full[m]]
  BY DEF Add, full
<1> QED
  BY <1>1, <1>2, ZenonT(30) DEF Faithful

LEMMA GenesisFaithful ==
  ASSUME Faithful(disk), NEW b
  PROVE  Faithful(WithGenesis(b))
<1>1. Headers(1, 0) = <<>>
  BY DEF Headers
<1> QED
  BY <1>1, StoreFaithful DEF WithGenesis

(***************************************************************************)
(* Steps                                                                   *)
(***************************************************************************)

LEMMA EmptyFaithful == Faithful(<<>>)
  BY DEF Faithful

LEMMA InitIInv == Init => IInv
  BY EmptyFaithful DEF Init, IInv, CallsFaithful, Found, Idle

\* A thread that is called, or returns, holds no snapshot.
LEMMA CallKeeps ==
  ASSUME CallsFaithful, NEW t \in Threads, NEW n \in Nat, NEW parents \in Nat,
         NEW writable \in BOOLEAN, NEW caller \in Callers,
         Call(t, n, parents, writable, caller)
  PROVE  CallsFaithful'
<1> DEFINE c == [pc |-> "search", number |-> n, parents |-> parents,
                 writable |-> writable, caller |-> caller]
<1>1. c \in Searching /\ c \notin Found
  BY DEF Searching, Found
<1>2. call' = [call EXCEPT ![t] = c]
  BY DEF Call
<1> HIDE DEF c
<1> QED
  BY <1>1, <1>2 DEF CallsFaithful

LEMMA ReturnKeeps ==
  ASSUME CallsFaithful, NEW t \in Threads, NEW ok, Return(t, ok)
  PROVE  CallsFaithful'
<1>1. Idle \notin Found
  BY DEF Idle, Found
<1>2. call' = [call EXCEPT ![t] = Idle]
  BY DEF Return
<1> QED
  BY <1>1, <1>2 DEF CallsFaithful

\* A call is handed a snapshot of its block.
LEMMA HoldKeeps ==
  ASSUME CallsFaithful, NEW t \in Threads, NEW c \in Found,
         c.snap = Headers(1, c.number), call' = [call EXCEPT ![t] = c]
  PROVE  CallsFaithful'
  BY DEF CallsFaithful

LEMMA FoundByPc ==
  ASSUME CallsFaithful, NEW t \in Threads, call[t].pc \in {"regen", "restore", "add"}
  PROVE  call[t] \in Found /\ call[t].snap = Headers(1, call[t].number)
<1>1. call[t] \in {Idle} \cup Searching \cup Found
  BY DEF CallsFaithful
<1>2. call[t] # Idle
  BY DEF Idle
<1>3. call[t] \notin Searching
  BY DEF Searching
<1> QED
  BY <1>1, <1>2, <1>3 DEF CallsFaithful

LEMMA SearchingByPc ==
  ASSUME CallsFaithful, NEW t \in Threads, call[t].pc = "search"
  PROVE  call[t] \in Searching
<1>1. call[t] \in {Idle} \cup Searching \cup Found
  BY DEF CallsFaithful
<1>2. call[t] # Idle
  BY DEF Idle
<1>3. call[t] \notin Found
  BY DEF Found
<1> QED
  BY <1>1, <1>2, <1>3

LEMMA SearchStep ==
  ASSUME IInv, NEW t \in Threads, Search(t)
  PROVE  IInv'
<1> DEFINE n == call[t].number
           b == Base(n)
           snap == apply(BaseSnapshot(b), b + 1, n)
           found == [pc |-> "regen", number |-> n, from |-> b + 1, snap |-> snap,
                     todo |-> {}, caller |-> call[t].caller]
<1>1. call[t] \in Searching /\ CallsFaithful
  BY SearchingByPc DEF Search, IInv
<1>2. n \in Nat /\ call[t].caller \in Callers
  BY <1>1 DEF Searching
<1>3. snap = Headers(1, n) /\ snap \in Seq(Nat)
  BY <1>2, SearchFaithful, HeadersType, ZenonT(30) DEF IInv
<1>4. b \in Nat
  BY <1>2, BaseFound
<1>5. head' = head /\ recents' = recents
  BY DEF Search
<1>6. CASE Return(t, FALSE) /\ UNCHANGED <<disk, handled>>
  <2>1. CallsFaithful'
    BY <1>1, <1>6, ReturnKeeps, ZenonT(30)
  <2> QED
    BY <1>5, <1>6, <2>1 DEF IInv
<1>7. CASE /\ disk' = IF call[t].writable /\ IsCheckpointInterval(n) /\ b < n
                      THEN Store(WithGenesis(b), n, snap)
                      ELSE WithGenesis(b)
           /\ call' = [call EXCEPT ![t] = found]
  <2> HIDE DEF b, snap
  <2>1. found \in Found
    BY <1>2, <1>3, <1>4 DEF Found
  <2>2. found.snap = Headers(1, found.number)
    BY <1>3
  <2>3. CallsFaithful'
    <3> HIDE DEF found
    <3> QED
      BY <1>1, <1>7, <2>1, <2>2, HoldKeeps, ZenonT(30)
  <2>4. Faithful(WithGenesis(b))
    BY GenesisFaithful DEF IInv
  <2>5. Faithful(Store(WithGenesis(b), n, snap))
    BY <1>2, <1>3, <2>4, StoreFaithful
  <2>6. Faithful(disk')
    BY <1>7, <2>4, <2>5
  <2>7. Faithful(recents') /\ head' \in Nat
    BY <1>5 DEF IInv
  <2> QED
    BY <2>3, <2>6, <2>7 DEF IInv, Faithful
<1>8. \/ Return(t, FALSE) /\ UNCHANGED <<disk, handled>>
      \/ /\ disk' = IF call[t].writable /\ IsCheckpointInterval(n) /\ b < n
                     THEN Store(WithGenesis(b), n, snap)
                     ELSE WithGenesis(b)
         /\ call' = [call EXCEPT ![t] = found]
  BY ZenonT(30) DEF Search
<1> QED
  BY <1>6, <1>7, <1>8, ZenonT(30)

LEMMA RegenStep ==
  ASSUME IInv, NEW t \in Threads, Regen(t)
  PROVE  IInv'
<1>1. call[t] \in Found /\ call[t].snap = Headers(1, call[t].number)
  BY FoundByPc DEF Regen, IInv
<1>2. PICK pc \in {"restore", "add"}, todo \in SUBSET Nat :
        call' = [call EXCEPT ![t] = [@ EXCEPT !.pc = pc, !.todo = todo]]
  <2>1. Checkpoints(call[t].from, call[t].number) \in SUBSET Nat
    BY <1>1 DEF Checkpoints, Found
  <2>2. {} \in SUBSET Nat
    OBVIOUS
  <2> QED
    BY <2>1, <2>2, ZenonT(30) DEF Regen
<1> DEFINE c == [call[t] EXCEPT !.pc = pc, !.todo = todo]
<1>3. c \in Found
  BY <1>1, ZenonT(30) DEF Found
<1>4. c.snap = Headers(1, c.number)
  BY <1>1 DEF Found
<1>5. call' = [call EXCEPT ![t] = c]
  BY <1>2
<1> HIDE DEF c
<1>6. CallsFaithful'
  BY <1>3, <1>4, <1>5, HoldKeeps, ZenonT(30) DEF IInv
<1> QED
  BY <1>6 DEF Regen, IInv, Faithful

LEMMA RestoreOneStep ==
  ASSUME IInv, NEW t \in Threads, RestoreOne(t)
  PROVE  IInv'
<1> DEFINE c == Min(call[t].todo)
           b == Base(c)
           snap == apply(BaseSnapshot(b), b + 1, c)
           d == [call[t] EXCEPT !.todo = @ \ {c}]
<1>1. call[t] \in Found /\ call[t].snap = Headers(1, call[t].number)
  BY FoundByPc DEF RestoreOne, IInv
<1>2. call[t].todo \subseteq Nat /\ call[t].todo # {}
  BY <1>1 DEF Found, RestoreOne
<1>3. c \in Nat
  BY <1>2, MinOfNaturals
<1>4. snap = Headers(1, c)
  BY <1>3, SearchFaithful DEF IInv
<1>5. /\ call' = [call EXCEPT ![t] = d]
      /\ head' = head
      /\ \/ UNCHANGED <<disk, recents>>
         \/ recents' \in Add(c, snap) /\ disk' = Store(WithGenesis(b), c, snap)
  BY DEF RestoreOne
<1> HIDE DEF c, b, snap
<1>6. CallsFaithful'
  <2>1. d \in Found
    BY <1>1 DEF Found
  <2>2. d.snap = Headers(1, d.number)
    BY <1>1 DEF Found
  <2> HIDE DEF d
  <2> QED
    BY <1>5, <2>1, <2>2, HoldKeeps, ZenonT(30) DEF IInv
<1>7. Faithful(recents') /\ Faithful(disk')
  <2>1. CASE UNCHANGED <<disk, recents>>
    BY <2>1 DEF IInv
  <2>2. CASE recents' \in Add(c, snap) /\ disk' = Store(WithGenesis(b), c, snap)
    <3>1. Faithful(recents')
      BY <1>3, <1>4, <2>2, AddFaithful DEF IInv
    <3>2. Faithful(WithGenesis(b))
      BY GenesisFaithful DEF IInv
    <3>3. Faithful(disk')
      BY <1>3, <1>4, <2>2, <3>2, StoreFaithful
    <3> QED
      BY <3>1, <3>3
  <2> QED
    BY <1>5, <2>1, <2>2
<1> QED
  BY <1>5, <1>6, <1>7 DEF IInv, Faithful

LEMMA RegenDoneStep ==
  ASSUME IInv, NEW t \in Threads, RegenDone(t)
  PROVE  IInv'
<1> DEFINE d == [call[t] EXCEPT !.pc = "add"]
<1>1. call[t] \in Found /\ call[t].snap = Headers(1, call[t].number)
  BY FoundByPc DEF RegenDone, IInv
<1>2. d \in Found
  BY <1>1 DEF Found
<1>3. d.snap = Headers(1, d.number)
  BY <1>1 DEF Found
<1>4. call' = [call EXCEPT ![t] = d]
  BY DEF RegenDone
<1> HIDE DEF d
<1>5. CallsFaithful'
  BY <1>2, <1>3, <1>4, HoldKeeps, ZenonT(30) DEF IInv
<1> QED
  BY <1>5 DEF RegenDone, IInv, Faithful

LEMMA FinishStep ==
  ASSUME IInv, NEW t \in Threads, Finish(t)
  PROVE  IInv'
<1>1. call[t] \in Found /\ call[t].snap = Headers(1, call[t].number)
  BY FoundByPc DEF Finish, IInv
<1>2. call[t].number \in Nat
  BY <1>1 DEF Found
<1>3. Faithful(recents')
  BY <1>1, <1>2, AddFaithful DEF Finish, IInv
<1>4. CallsFaithful'
  BY ReturnKeeps, ZenonT(30) DEF Finish, IInv
<1> QED
  BY <1>3, <1>4 DEF Finish, IInv, Faithful

\* Calls begin: nothing is stored yet.
LEMMA CallerStep ==
  ASSUME IInv,
         \/ \E t \in Writers : WriterStep(t)
         \/ \E t \in Readers : Read(t)
  PROVE  IInv'
<1>1. /\ head' \in Nat
      /\ UNCHANGED <<disk, recents>>
  <2>1. ASSUME NEW t \in Writers, WriterStep(t)
        PROVE  head' \in {head, head + 1} /\ UNCHANGED <<disk, recents>>
    BY <2>1, ZenonT(30) DEF WriterStep, Startup, Verify, WriteBlock
  <2>2. ASSUME NEW t \in Readers, Read(t)
        PROVE  head' \in {head, head + 1} /\ UNCHANGED <<disk, recents>>
    BY <2>2 DEF Read
  <2>3. head' \in {head, head + 1} /\ UNCHANGED <<disk, recents>>
    BY <2>1, <2>2
  <2>4. head \in Nat
    BY DEF IInv
  <2> QED
    BY <2>3, <2>4
<1>2. \E t \in Threads, n \in Nat, parents \in Nat, writable \in BOOLEAN, caller \in Callers :
         Call(t, n, parents, writable, caller)
  <2>1. head \in Nat /\ Writers \subseteq Threads /\ Readers \subseteq Threads
    BY DEF IInv, Threads
  <2>2. "startup" \in Callers /\ "verify" \in Callers /\ "create" \in Callers /\ "read" \in Callers
    BY DEF Callers
  <2>3. ASSUME NEW t \in Writers, Startup(t)
        PROVE  Call(t, head, 0, TRUE, "startup")
    BY <2>3, ZenonT(30) DEF Startup
  <2>4. ASSUME NEW t \in Writers, Verify(t)
        PROVE  \E n \in Nat : Call(t, n, n, TRUE, "verify")
    <3>1. PICK n \in {head, verified[t] + 1} :
             n \in head..(MaxHeight - 1) /\ Call(t, n, n, TRUE, "verify")
      BY <2>4, ZenonT(30) DEF Verify
    <3>2. n \in Nat
      BY <2>1, <3>1, StoreAssumption
    <3> QED
      BY <3>1, <3>2, ZenonT(30)
  <2>5. ASSUME NEW t \in Writers, WriteBlock(t)
        PROVE  Call(t, head + 1, 0, TRUE, "create") /\ head + 1 \in Nat
    <3>1. Call(t, head + 1, 0, TRUE, "create")
      BY <2>5, ZenonT(30) DEF WriteBlock
    <3>2. head + 1 \in Nat
      BY <2>1
    <3> QED
      BY <3>1, <3>2, ZenonT(30)
  <2>6. ASSUME NEW t \in Readers, Read(t)
        PROVE  \E n \in Nat : Call(t, n, 0, FALSE, "read")
    <3>1. PICK n \in 0..head : Call(t, n, 0, FALSE, "read")
      BY <2>6, ZenonT(30) DEF Read
    <3>2. n \in Nat
      BY <2>1
    <3> QED
      BY <3>1, <3>2, ZenonT(30)
  <2>7. 0 \in Nat /\ TRUE \in BOOLEAN /\ FALSE \in BOOLEAN
    OBVIOUS
  <2> QED
    BY <2>1, <2>2, <2>3, <2>4, <2>5, <2>6, <2>7, ZenonT(30) DEF WriterStep
<1>3. CallsFaithful'
  BY <1>2, CallKeeps DEF IInv
<1> QED
  BY <1>1, <1>3 DEF IInv, Faithful

LEMMA SetHeadStep ==
  ASSUME IInv, SetHead
  PROVE  IInv'
<1>1. head' \in Nat
  BY DEF IInv, SetHead
<1>2. \E gone : disk' = [n \in DOMAIN disk \ gone |-> disk[n]]
  BY ZenonT(30) DEF SetHead
<1>3. Faithful(disk')
  BY <1>2 DEF IInv, Faithful
<1> QED
  BY <1>1, <1>3 DEF IInv, SetHead, Faithful, CallsFaithful

LEMMA PurgeStep ==
  ASSUME IInv, InitSnapshot \/ Restart
  PROVE  IInv'
<1>1. Faithful(recents')
  BY EmptyFaithful DEF InitSnapshot, Restart
<1>2. CallsFaithful'
  <2>1. Idle \notin Found
    BY DEF Idle, Found
  <2> QED
    BY <2>1 DEF IInv, CallsFaithful, InitSnapshot, Restart
<1> QED
  BY <1>1, <1>2 DEF IInv, InitSnapshot, Restart, Faithful

LEMMA NextIInv == IInv /\ [Next]_vars => IInv'
<1> SUFFICES ASSUME IInv, [Next]_vars PROVE IInv'
  OBVIOUS
<1>1. CASE UNCHANGED vars
  BY <1>1 DEF vars, IInv, Faithful, CallsFaithful
<1>2. CASE \E t \in Threads : SnapshotStep(t)
  BY <1>2, SearchStep, RegenStep, RestoreOneStep, RegenDoneStep, FinishStep DEF SnapshotStep
<1> QED
  BY <1>1, <1>2, CallerStep, SetHeadStep, PurgeStep DEF Next

\* Every snapshot in memory or on disk has had each header up to its block
\* applied once and in order, with any number of concurrent calls of snapshot()
\* and regen(), whatever is evicted, rewound or lost in a restart.
THEOREM StoredSnapshotsFaithful == Spec => []SnapshotsFaithful
<1>1. IInv => SnapshotsFaithful
  BY DEF IInv, Faithful, SnapshotsFaithful
<1> QED
  BY <1>1, InitIInv, NextIInv, PTL DEF Spec

=============================================================================
