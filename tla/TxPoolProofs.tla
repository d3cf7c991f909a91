---------------------------- MODULE TxPoolProofs ----------------------------
(***************************************************************************)
(* The lists of the pool and its lookup table stay consistent, whatever    *)
(* the accounts, transactions, blocks and limits.                          *)
(***************************************************************************)
EXTENDS TxPool, TLAPS

\* The transactions of an account.
Of(a) == {t \in Tx : t.from = a}

\* A pool whose lists hold transactions of their accounts, one per nonce, and whose
\* lookup table is told by them transaction by transaction.
Fields(p) ==
  p = [pending |-> p.pending, queue |-> p.queue, all |-> p.all, pendingNonce |-> p.pendingNonce]

Account(a, pending, queue) ==
  /\ pending \subseteq Of(a) /\ queue \subseteq Of(a)
  /\ pending \cap queue = {}
  /\ \A t, u \in pending \cup queue : t.nonce = u.nonce => t = u

Good(p) ==
  /\ Fields(p)
  /\ p.pending \in [Accounts -> SUBSET Tx] /\ p.queue \in [Accounts -> SUBSET Tx]
  /\ p.all \subseteq Tx
  /\ \A a \in Accounts : Account(a, p.pending[a], p.queue[a])
  /\ \A t \in Tx : t \in p.all <=> t \in p.pending[t.from] \cup p.queue[t.from]

\* The operation in progress: its batch and the accounts it cuts.
OpFields ==
  DOMAIN op = {"pc", "batch", "local", "reset", "todo", "need", "promoted", "offenders"}

GoodOp ==
  /\ OpFields
  /\ op.batch \in Seq(Tx) /\ op.offenders \in Seq(Accounts)
  /\ op.pc = "discard" => op.batch # <<>>

IInv == Good(pool) /\ GoodOp

-----------------------------------------------------------------------------
\* A transaction of Tx belongs to an account.
LEMMA Senders == \A t \in Tx : t.from \in Accounts
BY PoolAssumption

\* What a change of the lists of one account must satisfy.
LEMMA AccountStep ==
  ASSUME NEW p, Good(p), NEW q, NEW a \in Accounts, Fields(q),
         NEW P, NEW Q,
         q.pending = [p.pending EXCEPT ![a] = P], q.queue = [p.queue EXCEPT ![a] = Q],
         Account(a, P, Q), q.all \subseteq Tx,
         \A t \in Tx : t \in q.all <=> IF t.from = a THEN t \in P \cup Q ELSE t \in p.all
  PROVE  Good(q)
<1>1. P \subseteq Tx /\ Q \subseteq Tx
  BY DEF Account, Of
<1>2. q.pending \in [Accounts -> SUBSET Tx] /\ q.queue \in [Accounts -> SUBSET Tx]
  BY <1>1 DEF Good
<1>3. \A b \in Accounts : Account(b, q.pending[b], q.queue[b])
  <2>1. q.pending[a] = P /\ q.queue[a] = Q
    BY DEF Good
  <2>2. \A b \in Accounts \ {a} : q.pending[b] = p.pending[b] /\ q.queue[b] = p.queue[b]
    BY DEF Good
  <2> QED BY <2>1, <2>2 DEF Good
<1>4. \A t \in Tx : t \in q.all <=> t \in q.pending[t.from] \cup q.queue[t.from]
  <2> SUFFICES ASSUME NEW t \in Tx
               PROVE  t \in q.all <=> t \in q.pending[t.from] \cup q.queue[t.from]
    OBVIOUS
  <2>1. t.from \in Accounts
    BY Senders
  <2>2. CASE t.from = a
    <3>1. q.pending[t.from] = P /\ q.queue[t.from] = Q
      BY <2>2 DEF Good
    <3> QED BY <2>2, <3>1
  <2>3. CASE t.from # a
    <3>1. q.pending[t.from] = p.pending[t.from] /\ q.queue[t.from] = p.queue[t.from]
      BY <2>1, <2>3 DEF Good
    <3>2. t \in p.all <=> t \in p.pending[t.from] \cup p.queue[t.from]
      BY DEF Good
    <3> QED BY <2>3, <3>1, <3>2
  <2> QED BY <2>2, <2>3
<1> QED BY <1>2, <1>3, <1>4 DEF Good

\* The transactions of an account in the lookup table are those of its lists.
LEMMA Known ==
  ASSUME NEW p, Good(p), NEW a \in Accounts
  PROVE  /\ \A t \in Of(a) : t \in p.all <=> t \in p.pending[a] \cup p.queue[a]
         /\ Account(a, p.pending[a], p.queue[a])
         /\ p.pending[a] \subseteq Of(a) /\ p.queue[a] \subseteq Of(a)
BY DEF Good, Of, Account

-----------------------------------------------------------------------------
(* The parts of the operations. *)

\* Transactions with new nonces all go in.
LEMMA PutFresh ==
  ASSUME NEW s, NEW new, \A t \in new, u \in s : t.nonce # u.nonce
  PROVE  Added(new, s) = new /\ Put(new, s) = s \cup new
<1>1. Added(new, s) = new
  BY DEF Added, Replaces
<1>2. \A t \in s : t.nonce \notin Nonces(new)
  BY DEF Nonces
<1> QED BY <1>1, <1>2 DEF Put

\* pendingNonce is nobody else's business.
LEMMA NonceOnly ==
  ASSUME NEW p, Fields(p), NEW a, NEW n
  PROVE  LET q == updatePendingNonce(p, a, n)
         IN  Fields(q) /\ q.pending = p.pending /\ q.queue = p.queue /\ q.all = p.all
<1>1. CASE getPendingNonce(p, a) > n
  BY <1>1 DEF updatePendingNonce, Fields
<1>2. CASE ~(getPendingNonce(p, a) > n)
  BY <1>2 DEF updatePendingNonce
<1> QED BY <1>1, <1>2

\* The fields of a pool.
LEMMA PoolFields ==
  ASSUME NEW P, NEW Q, NEW A, NEW N
  PROVE  LET q == Pool(P, Q, A, N)
         IN  Fields(q) /\ q.pending = P /\ q.queue = Q /\ q.all = A
BY DEF Pool, Fields

\* The lookup table after the parts of the operations.
LEMMA EnqueuedAll ==
  ASSUME NEW p, NEW a, NEW new
  PROVE  LET q == enqueueTxs(p, a, new)
         IN  /\ Fields(q)
             /\ q.all = (p.all \ (p.queue[a] \ Put(new, p.queue[a]))) \cup Added(new, p.queue[a])
<1> DEFINE Q == [p.queue EXCEPT ![a] = Put(new, p.queue[a])]
           A == (p.all \ (p.queue[a] \ Put(new, p.queue[a]))) \cup Added(new, p.queue[a])
           q == enqueueTxs(p, a, new)
<1>1. q = Pool(p.pending, Q, A, p.pendingNonce)
  BY Zenon DEF enqueueTxs
<1> HIDE DEF q, Q, A
<1>2. Fields(q) /\ q.all = A
  BY <1>1, PoolFields
<1> QED BY <1>2 DEF q, A

LEMMA PromoteAll ==
  ASSUME NEW p, NEW a
  PROVE  LET ready == Promotable(p, a).ready
             rest == Promotable(p, a).rest
             kept == IF a \in locals THEN rest ELSE Cap(rest, NonExecSlotsAccount)
             old == p.pending[a]
         IN  promote(p, a).all
               = p.all \ ((p.queue[a] \ (kept \cup Added(ready, old))) \cup (old \ Put(ready, old)))
<1> DEFINE ready == Promotable(p, a).ready
           rest == Promotable(p, a).rest
           kept == IF a \in locals THEN rest ELSE Cap(rest, NonExecSlotsAccount)
           old == p.pending[a]
           in == Added(ready, old)
           P == [p.pending EXCEPT ![a] = Put(ready, old)]
           Q == [p.queue EXCEPT ![a] = kept]
           A == p.all \ ((p.queue[a] \ (kept \cup in)) \cup (old \ Put(ready, old)))
           N == [p.pendingNonce EXCEPT ![a] = IF in = {} THEN @ ELSE Max(Nonces(in)) + 1]
<1>1. promote(p, a) = Pool(P, Q, A, N)
  BY Zenon DEF promote
<1> HIDE DEF P, Q, A, N
<1>2. promote(p, a).all = A
  BY <1>1, PoolFields
<1> QED BY <1>2 DEF A

LEMMA DropLastAll ==
  ASSUME NEW p, NEW accounts
  PROVE  dropLast(p, accounts).all = p.all \ UNION {Highest(p.pending[b], 1) : b \in accounts}
<1> DEFINE last == [b \in accounts |-> Highest(p.pending[b], 1)]
           cut(b) == Max(Nonces(last[b]))
           P == [b \in Accounts |-> p.pending[b] \ (IF b \in accounts THEN last[b] ELSE {})]
           A == p.all \ UNION {last[b] : b \in accounts}
           N == [b \in Accounts |-> IF b \in accounts /\ getPendingNonce(p, b) > cut(b)
                                    THEN cut(b) ELSE p.pendingNonce[b]]
<1>1. dropLast(p, accounts) = Pool(P, p.queue, A, N)
  BY Zenon DEF dropLast
<1>2. \A b \in accounts : last[b] = Highest(p.pending[b], 1)
  OBVIOUS
<1> HIDE DEF P, A, N, last
<1>3. dropLast(p, accounts).all = A
  BY <1>1, PoolFields
<1>4. UNION {last[b] : b \in accounts} = UNION {Highest(p.pending[b], 1) : b \in accounts}
  BY <1>2
<1> QED BY <1>3, <1>4 DEF A

\* A list of one account changes, and the lookup table with it.
LEMMA PoolStep ==
  ASSUME NEW p, Good(p), NEW a \in Accounts, NEW P, NEW Q, NEW A, NEW N,
         Account(a, P, Q), A \subseteq Tx,
         \A t \in Tx : t \in A <=> IF t.from = a THEN t \in P \cup Q ELSE t \in p.all
  PROVE  /\ Good(Pool([p.pending EXCEPT ![a] = P], [p.queue EXCEPT ![a] = Q], A, N))
         /\ Q = p.queue[a] => Good(Pool([p.pending EXCEPT ![a] = P], p.queue, A, N))
         /\ P = p.pending[a] => Good(Pool(p.pending, [p.queue EXCEPT ![a] = Q], A, N))
<1> DEFINE PP == [p.pending EXCEPT ![a] = P]
           QQ == [p.queue EXCEPT ![a] = Q]
           q == Pool(PP, QQ, A, N)
<1>1. Fields(q) /\ q.pending = PP /\ q.queue = QQ /\ q.all = A
  BY PoolFields
<1> HIDE DEF q
<1>2. Good(q)
  BY <1>1, AccountStep
<1>3. Q = p.queue[a] => QQ = p.queue
  BY DEF Good
<1>4. P = p.pending[a] => PP = p.pending
  BY DEF Good
<1> QED BY <1>2, <1>3, <1>4 DEF q

\* Transactions of an account that left its pending list go to its queue.
LEMMA EnqueueGood ==
  ASSUME NEW p, Good(p), NEW a \in Accounts, NEW P, NEW demoted, NEW A, NEW N,
         P \subseteq p.pending[a], demoted \subseteq p.pending[a], P \cap demoted = {},
         A \subseteq p.all,
         \A t \in Tx : t \in A <=>
           IF t.from = a THEN t \in P \cup (demoted \cup p.queue[a]) ELSE t \in p.all
  PROVE  LET q == enqueueTxs(Pool([p.pending EXCEPT ![a] = P], p.queue, A, N), a, demoted)
         IN  q = Pool([p.pending EXCEPT ![a] = P], [p.queue EXCEPT ![a] = @ \cup demoted], A, N) /\ Good(q)
<1> DEFINE PP == [p.pending EXCEPT ![a] = P]
           Q == p.queue[a]
           r == Pool(PP, p.queue, A, N)
           q == enqueueTxs(r, a, demoted)
<1>1. Account(a, p.pending[a], Q) /\ p.pending[a] \subseteq Of(a) /\ Q \subseteq Of(a)
  BY Known
<1>2. Added(demoted, Q) = demoted /\ Put(demoted, Q) = Q \cup demoted
  <2>1. \A u \in demoted, v \in Q : u.nonce # v.nonce
    BY <1>1 DEF Account
  <2> QED BY <2>1, PutFresh
<1>3. demoted \subseteq A
  BY <1>1 DEF Of
<1>4. q = Pool(PP, [p.queue EXCEPT ![a] = Q \cup demoted], A, N)
  <2>1. r.pending = PP /\ r.queue = p.queue /\ r.all = A /\ r.pendingNonce = N
    BY DEF Pool
  <2> HIDE DEF r, PP
  <2>2. q = Pool(PP, [p.queue EXCEPT ![a] = Put(demoted, Q)],
                 (A \ (Q \ Put(demoted, Q))) \cup Added(demoted, Q), N)
    BY <2>1 DEF enqueueTxs
  <2>3. (A \ (Q \ Put(demoted, Q))) \cup Added(demoted, Q) = A
    BY <1>2, <1>3
  <2> QED BY <2>2, <2>3, <1>2, Zenon
<1>5. Account(a, P, Q \cup demoted)
  BY <1>1 DEF Account
<1>6. \A t \in Tx : t \in A <=> IF t.from = a THEN t \in P \cup (Q \cup demoted) ELSE t \in p.all
  OBVIOUS
<1>7. A \subseteq Tx
  BY DEF Good
<1> HIDE DEF q
<1>8. Good(Pool(PP, [p.queue EXCEPT ![a] = Q \cup demoted], A, N))
  BY <1>5, <1>6, <1>7, PoolStep, Zenon
<1> QED BY <1>4, <1>8 DEF q

\* removeTx keeps the pool good.
LEMMA RemoveGood ==
  ASSUME NEW p, Good(p), NEW t \in Tx
  PROVE  Good(removeTx(p, t))
<1> DEFINE a == t.from
           P == p.pending[a]
           Q == p.queue[a]
           lower == {u \in P : u.nonce < t.nonce}
           demoted == {u \in P : u.nonce > t.nonce}
           rest == {u \in Q : u.nonce # t.nonce}
           A == p.all \ {t}
           e == enqueueTxs(Pool([p.pending EXCEPT ![a] = lower], p.queue, A, p.pendingNonce), a, demoted)
<1>1. a \in Accounts
  BY Senders
<1>2. /\ \A u \in Of(a) : u \in p.all <=> u \in P \cup Q
      /\ Account(a, P, Q) /\ P \subseteq Of(a) /\ Q \subseteq Of(a)
  BY <1>1, Known
<1>3. t \in Of(a) /\ t.nonce \in Nat
  BY PoolAssumption DEF Of
<1>4. \A u \in P : u.nonce \in Nat
  BY <1>2, PoolAssumption DEF Of
<1>5. A \subseteq Tx /\ A \subseteq p.all
  BY DEF Good
<1>6. CASE t \notin p.all
  BY <1>6 DEF removeTx
<1>7. CASE t \in p.all /\ t.nonce \in Nonces(P)
  <2>1. t \in P
    <3>1. PICK u \in P : u.nonce = t.nonce
      BY <1>7 DEF Nonces
    <3>2. t \in P \cup Q
      BY <1>2, <1>3, <1>7
    <3> QED BY <1>2, <3>1, <3>2 DEF Account
  <2>2. removeTx(p, t) = updatePendingNonce(e, a, t.nonce)
    BY <1>7 DEF removeTx
  <2>3. \A u \in Tx : u \in A <=>
          IF u.from = a THEN u \in lower \cup (demoted \cup Q) ELSE u \in p.all
    <3> SUFFICES ASSUME NEW u \in Tx
                 PROVE  u \in A <=> IF u.from = a THEN u \in lower \cup (demoted \cup Q) ELSE u \in p.all
      OBVIOUS
    <3>1. CASE u.from # a
      BY <3>1
    <3>2. CASE u.from = a
      <4>1. u \in p.all <=> u \in P \cup Q
        BY <3>2, <1>2 DEF Of
      <4>2. u \in Q => u # t
        BY <2>1, <1>2 DEF Account
      <4>3. u \in P /\ u # t => u \in lower \cup demoted
        BY <1>2, <1>3, <1>4, <2>1 DEF Account
      <4>4. u \in lower \cup demoted => u \in P /\ u # t
        BY <1>3
      <4> QED BY <3>2, <4>1, <4>2, <4>3, <4>4
    <3> QED BY <3>1, <3>2
  <2>4. lower \subseteq P /\ demoted \subseteq P /\ lower \cap demoted = {}
    BY <1>3, <1>4
  <2>5. Good(e)
    <3> HIDE DEF lower, demoted, A, a
    <3> QED BY <1>1, <1>5, <2>3, <2>4, EnqueueGood, Zenon
  <2> HIDE DEF e
  <2> QED BY <2>2, <2>5, NonceOnly DEF Good
<1>8. CASE t \in p.all /\ t.nonce \notin Nonces(P)
  <2>1. removeTx(p, t) = Pool(p.pending, [p.queue EXCEPT ![a] = rest], A, p.pendingNonce)
    BY <1>8 DEF removeTx
  <2>2. t \in Q
    BY <1>2, <1>3, <1>8 DEF Nonces
  <2>3. Account(a, P, rest)
    BY <1>2 DEF Account
  <2>4. \A u \in Tx : u \in A <=> IF u.from = a THEN u \in P \cup rest ELSE u \in p.all
    <3> SUFFICES ASSUME NEW u \in Tx
                 PROVE  u \in A <=> IF u.from = a THEN u \in P \cup rest ELSE u \in p.all
      OBVIOUS
    <3>1. CASE u.from # a
      BY <3>1
    <3>2. CASE u.from = a
      <4>1. u \in p.all <=> u \in P \cup Q
        BY <3>2, <1>2 DEF Of
      <4>2. u \in Q /\ u # t => u \in rest
        BY <2>2, <1>2 DEF Account
      <4>3. u \in P => u # t
        BY <1>8 DEF Nonces
      <4> QED BY <3>2, <4>1, <4>2, <4>3
    <3> QED BY <3>1, <3>2
  <2>5. Good(Pool(p.pending, [p.queue EXCEPT ![a] = rest], A, p.pendingNonce))
    <3> HIDE DEF rest, a, A
    <3> QED BY <1>1, <1>5, <2>3, <2>4, PoolStep, Zenon
  <2> QED BY <2>1, <2>5
<1> QED BY <1>6, <1>7, <1>8

\* So does dropping transactions of a queue,
LEMMA RemoveQueuedGood ==
  ASSUME NEW p, Good(p), NEW a \in Accounts, NEW s, s \subseteq p.queue[a]
  PROVE  Good(removeQueued(p, a, s))
<1> DEFINE P == p.pending[a]
           Q == p.queue[a]
           rest == Q \ s
           A == p.all \ s
<1>1. /\ \A u \in Of(a) : u \in p.all <=> u \in P \cup Q
      /\ Account(a, P, Q) /\ P \subseteq Of(a) /\ Q \subseteq Of(a)
  BY Known
<1>2. Account(a, P, rest)
  BY <1>1 DEF Account
<1>3. \A t \in Tx : t \in A <=> IF t.from = a THEN t \in P \cup rest ELSE t \in p.all
  <2>1. \A t \in Tx : t.from # a => t \notin s
    BY <1>1 DEF Of
  <2>2. \A t \in P : t \notin s
    BY <1>1 DEF Account
  <2> QED BY <1>1, <2>1, <2>2 DEF Of
<1>4. A \subseteq Tx
  BY DEF Good
<1>5. removeQueued(p, a, s) = Pool(p.pending, [p.queue EXCEPT ![a] = rest], A, p.pendingNonce)
  BY DEF removeQueued
<1>6. Good(Pool(p.pending, [p.queue EXCEPT ![a] = rest], A, p.pendingNonce))
  <2> HIDE DEF rest, A
  <2> QED BY <1>2, <1>3, <1>4, PoolStep, Zenon
<1> QED BY <1>5, <1>6

\* the body of the loop of promoteExecutables,
LEMMA PromoteGood ==
  ASSUME NEW p, Good(p), NEW a \in Accounts
  PROVE  Good(promote(p, a))
<1> DEFINE P == p.pending[a]
           Q == p.queue[a]
           ready == Promotable(p, a).ready
           rest == Promotable(p, a).rest
           kept == IF a \in locals THEN rest ELSE Cap(rest, NonExecSlotsAccount)
           in == Added(ready, P)
           PP == Put(ready, P)
           A == p.all \ ((Q \ (kept \cup in)) \cup (P \ PP))
           N == [p.pendingNonce EXCEPT ![a] = IF in = {} THEN @ ELSE Max(Nonces(in)) + 1]
<1>1. /\ \A u \in Of(a) : u \in p.all <=> u \in P \cup Q
      /\ Account(a, P, Q) /\ P \subseteq Of(a) /\ Q \subseteq Of(a)
  BY Known
<1>2. ready \subseteq Q /\ rest \subseteq Q /\ ready \cap rest = {}
  BY DEF Promotable, Ready
<1>3. kept \subseteq rest
  BY DEF Cap
<1>4. promote(p, a) = Pool([p.pending EXCEPT ![a] = PP], [p.queue EXCEPT ![a] = kept], A, N)
  BY DEF promote
<1> HIDE DEF ready, rest, kept
<1>5. in = ready /\ PP = P \cup ready
  <2>1. \A t \in ready, u \in P : t.nonce # u.nonce
    BY <1>1, <1>2 DEF Account
  <2> QED BY <2>1, PutFresh
<1>6. Account(a, PP, kept)
  <2> HIDE DEF in, PP
  <2> QED BY <1>1, <1>2, <1>3, <1>5 DEF Account
<1>7. \A t \in Tx : t \in A <=> IF t.from = a THEN t \in PP \cup kept ELSE t \in p.all
  <2> HIDE DEF in, PP
  <2> SUFFICES ASSUME NEW t \in Tx
               PROVE  t \in A <=> IF t.from = a THEN t \in PP \cup kept ELSE t \in p.all
    OBVIOUS
  <2>1. CASE t.from # a
    BY <2>1, <1>1, <1>5 DEF Of
  <2>2. CASE t.from = a
    <3>1. t \in p.all <=> t \in P \cup Q
      BY <2>2, <1>1 DEF Of
    <3>2. t \in P => t \notin Q
      BY <1>1 DEF Account
    <3> QED BY <2>2, <3>1, <3>2, <1>2, <1>3, <1>5
  <2> QED BY <2>1, <2>2
<1>8. A \subseteq Tx
  BY DEF Good
<1>9. Good(Pool([p.pending EXCEPT ![a] = PP], [p.queue EXCEPT ![a] = kept], A, N))
  <2> HIDE DEF PP, A, N
  <2> QED BY <1>6, <1>7, <1>8, PoolStep
<1> QED BY <1>4, <1>9

\* that of demoteUnexecutables,
LEMMA DemoteGood ==
  ASSUME NEW p, Good(p), NEW a \in Accounts, NEW full
  PROVE  Good(demote(p, a, full))
<1> DEFINE P == p.pending[a]
           Q == p.queue[a]
           list == {t \in P : t.nonce >= state.nonce[a]}
           drops == {t \in list : t \in marked \/ (full /\ t \in state.invalid)}
           valid == {t \in list \ drops : \A u \in drops : t.nonce < u.nonce}
           executable == IF state.nonce[a] \in Nonces(valid) THEN valid ELSE {}
           kept == {t \in executable :
                      magma => \A u \in executable : u.nonce <= t.nonce => u.price >= gasPrice}
           demoted == list \ (drops \cup kept)
           A == p.all \ (drops \cup (P \ list))
           e == enqueueTxs(Pool([p.pending EXCEPT ![a] = kept], p.queue, A, p.pendingNonce), a, demoted)
<1>1. /\ \A u \in Of(a) : u \in p.all <=> u \in P \cup Q
      /\ Account(a, P, Q) /\ P \subseteq Of(a) /\ Q \subseteq Of(a)
  BY Known
<1>2. demote(p, a, full) = e
  BY Zenon DEF demote
<1>3. list \subseteq P /\ drops \subseteq list /\ kept \subseteq list \ drops
  OBVIOUS
<1> HIDE DEF list, drops, kept
<1>4. \A t \in Tx : t \in A <=> IF t.from = a THEN t \in kept \cup (demoted \cup Q) ELSE t \in p.all
  <2> SUFFICES ASSUME NEW t \in Tx
               PROVE  t \in A <=> IF t.from = a THEN t \in kept \cup (demoted \cup Q) ELSE t \in p.all
    OBVIOUS
  <2>1. CASE t.from # a
    BY <2>1, <1>1, <1>3 DEF Of
  <2>2. CASE t.from = a
    <3>1. t \in p.all <=> t \in P \cup Q
      BY <2>2, <1>1 DEF Of
    <3>2. t \in P => t \notin Q
      BY <1>1 DEF Account
    <3> QED BY <2>2, <3>1, <3>2, <1>3
  <2> QED BY <2>1, <2>2
<1>5. demoted \subseteq P /\ kept \subseteq P /\ kept \cap demoted = {} /\ A \subseteq p.all
  BY <1>3
<1>6. Good(e)
  <2> HIDE DEF demoted, A
  <2> QED BY <1>4, <1>5, EnqueueGood, Zenon
<1> QED BY <1>2, <1>6

\* and cutting the pending lists of offenders.
LEMMA DropLastGood ==
  ASSUME NEW p, Good(p), NEW accounts \in SUBSET Accounts
  PROVE  Good(dropLast(p, accounts))
<1> DEFINE last == [a \in accounts |-> Highest(p.pending[a], 1)]
           cut(a) == Max(Nonces(last[a]))
           PP == [a \in Accounts |-> p.pending[a] \ (IF a \in accounts THEN last[a] ELSE {})]
           A == p.all \ UNION {last[a] : a \in accounts}
           N == [a \in Accounts |-> IF a \in accounts /\ getPendingNonce(p, a) > cut(a)
                                    THEN cut(a) ELSE p.pendingNonce[a]]
           q == Pool(PP, p.queue, A, N)
<1>1. dropLast(p, accounts) = q
  BY DEF dropLast
<1>2. \A a \in accounts : last[a] \subseteq p.pending[a]
  BY DEF Highest
<1>3. Fields(q) /\ q.pending = PP /\ q.queue = p.queue /\ q.all = A
  <2> HIDE DEF PP, A, N
  <2> QED BY PoolFields
<1>4. PP \in [Accounts -> SUBSET Tx]
  BY DEF Good
<1>5. \A a \in Accounts : Account(a, PP[a], p.queue[a])
  <2> SUFFICES ASSUME NEW a \in Accounts PROVE Account(a, PP[a], p.queue[a])
    BY Zenon
  <2>1. PP[a] \subseteq p.pending[a]
    OBVIOUS
  <2> HIDE DEF PP
  <2> QED BY <2>1, Known DEF Account
<1>6. \A t \in Tx : t \in A <=> t \in PP[t.from] \cup p.queue[t.from]
  <2> SUFFICES ASSUME NEW t \in Tx
               PROVE  t \in A <=> t \in PP[t.from] \cup p.queue[t.from]
    OBVIOUS
  <2> DEFINE b == t.from
  <2>1. b \in Accounts
    BY Senders
  <2>2. t \in p.all <=> t \in p.pending[b] \cup p.queue[b]
    BY DEF Good
  <2>3. \A a \in accounts : t \in last[a] => a = b
    <3> SUFFICES ASSUME NEW a \in accounts, t \in last[a] PROVE a = b
      OBVIOUS
    <3>1. t \in p.pending[a]
      BY <1>2
    <3>2. p.pending[a] \subseteq Of(a)
      BY Known
    <3> QED BY <3>1, <3>2 DEF Of
  <2>4. PP[b] = p.pending[b] \ (IF b \in accounts THEN last[b] ELSE {})
    BY <2>1
  <2>5. p.pending[b] \cap p.queue[b] = {}
    BY <2>1, Known DEF Account
  <2>6. t \in UNION {last[a] : a \in accounts} <=> b \in accounts /\ t \in last[b]
    <3> HIDE DEF last
    <3> QED BY <2>3
  <2> HIDE DEF last, PP, b
  <2>7. t \in A <=> t \in p.all /\ ~(b \in accounts /\ t \in last[b])
    BY <2>6
  <2>8. b \in accounts => last[b] \subseteq p.pending[b]
    BY <1>2
  <2> HIDE DEF A
  <2>9. t \in A <=> t \in PP[b] \cup p.queue[b]
    BY <2>2, <2>4, <2>5, <2>7, <2>8
  <2> QED BY <2>9 DEF b
<1>7. A \subseteq Tx
  BY DEF Good
<1>8. p.queue \in [Accounts -> SUBSET Tx]
  BY DEF Good
<1> HIDE DEF PP, A, N, q
<1> QED BY <1>1, <1>3, <1>4, <1>5, <1>6, <1>7, <1>8 DEF Good

\* A new transaction goes to the queue.
LEMMA AddGood ==
  ASSUME NEW p, Good(p), NEW t \in Tx, t.nonce \notin Nonces(p.pending[t.from]),
         Replaces(t, p.queue[t.from])
  PROVE  Good(enqueueTxs(p, t.from, {t}))
<1> DEFINE a == t.from
           P == p.pending[a]
           Q == p.queue[a]
           QQ == Put({t}, Q)
           A == (p.all \ (Q \ QQ)) \cup {t}
<1>1. a \in Accounts
  BY Senders
<1>2. /\ \A u \in Of(a) : u \in p.all <=> u \in P \cup Q
      /\ Account(a, P, Q) /\ P \subseteq Of(a) /\ Q \subseteq Of(a)
  BY <1>1, Known
<1>3. Added({t}, Q) = {t}
  BY DEF Added
<1>4. QQ = {u \in Q : u.nonce # t.nonce} \cup {t}
  BY <1>3 DEF Put, Nonces
<1>5. enqueueTxs(p, a, {t}) = Pool(p.pending, [p.queue EXCEPT ![a] = QQ], A, p.pendingNonce)
  BY <1>3 DEF enqueueTxs
<1>6. t \in Of(a)
  BY DEF Of
<1>7. \A u \in P : u.nonce # t.nonce
  BY DEF Nonces
<1> HIDE DEF QQ
<1>8. Account(a, P, QQ)
  <2>1. QQ \subseteq Of(a) /\ P \cap QQ = {}
    BY <1>2, <1>4, <1>6, <1>7 DEF Account
  <2>2. \A u, v \in P \cup QQ : u.nonce = v.nonce => u = v
    BY <1>2, <1>4, <1>7 DEF Account
  <2> QED BY <1>2, <2>1, <2>2 DEF Account
<1>9. \A u \in Tx : u \in A <=> IF u.from = a THEN u \in P \cup QQ ELSE u \in p.all
  <2> SUFFICES ASSUME NEW u \in Tx
               PROVE  u \in A <=> IF u.from = a THEN u \in P \cup QQ ELSE u \in p.all
    OBVIOUS
  <2>1. CASE u.from # a
    BY <2>1, <1>2 DEF Of
  <2>2. CASE u.from = a
    <3>1. u \in p.all <=> u \in P \cup Q
      BY <2>2, <1>2 DEF Of
    <3>2. u \in P => u \notin Q
      BY <1>2 DEF Account
    <3> QED BY <2>2, <3>1, <3>2, <1>4
  <2> QED BY <2>1, <2>2
<1>10. A \subseteq Tx
  BY DEF Good
<1>11. Good(Pool(p.pending, [p.queue EXCEPT ![a] = QQ], A, p.pendingNonce))
  <2> HIDE DEF A, a
  <2> QED BY <1>1, <1>8, <1>9, <1>10, PoolStep, Zenon
<1> QED BY <1>5, <1>11

\* A pending transaction is replaced by one of its nonce.
LEMMA ReplaceGood ==
  ASSUME NEW p, Good(p), NEW t \in Tx, NEW old,
         old = {u \in p.pending[t.from] : u.nonce = t.nonce}, old # {}
  PROVE  Good(Pool([p.pending EXCEPT ![t.from] = (@ \ old) \cup {t}], p.queue,
                   (p.all \ old) \cup {t}, p.pendingNonce))
<1> DEFINE a == t.from
           P == p.pending[a]
           Q == p.queue[a]
           PP == (P \ old) \cup {t}
           A == (p.all \ old) \cup {t}
<1>1. a \in Accounts
  BY Senders
<1>2. /\ \A u \in Of(a) : u \in p.all <=> u \in P \cup Q
      /\ Account(a, P, Q) /\ P \subseteq Of(a) /\ Q \subseteq Of(a)
  BY <1>1, Known
<1>3. t \in Of(a)
  BY DEF Of
<1>4. \A u \in Q : u.nonce # t.nonce
  <2>1. PICK v \in P : v.nonce = t.nonce
    OBVIOUS
  <2> QED BY <1>2, <2>1 DEF Account
<1>5. Account(a, PP, Q)
  <2>1. PP \subseteq Of(a) /\ PP \cap Q = {}
    BY <1>2, <1>3, <1>4 DEF Account
  <2>2. \A u, v \in PP \cup Q : u.nonce = v.nonce => u = v
    BY <1>2, <1>4 DEF Account
  <2> QED BY <1>2, <2>1, <2>2 DEF Account
<1>6. \A u \in Tx : u \in A <=> IF u.from = a THEN u \in PP \cup Q ELSE u \in p.all
  <2> SUFFICES ASSUME NEW u \in Tx
               PROVE  u \in A <=> IF u.from = a THEN u \in PP \cup Q ELSE u \in p.all
    OBVIOUS
  <2>1. CASE u.from # a
    BY <2>1, <1>2 DEF Of
  <2>2. CASE u.from = a
    <3>1. u \in p.all <=> u \in P \cup Q
      BY <2>2, <1>2 DEF Of
    <3> QED BY <2>2, <3>1, <1>4
  <2> QED BY <2>1, <2>2
<1>7. A \subseteq Tx
  BY DEF Good
<1>8. Good(Pool([p.pending EXCEPT ![a] = PP], p.queue, A, p.pendingNonce))
  <2> HIDE DEF PP, A, a
  <2> QED BY <1>1, <1>5, <1>6, <1>7, PoolStep, Zenon
<1> QED BY <1>8

-----------------------------------------------------------------------------
(* The invariant. *)

\* The pool of SetGasPrice, and of the start.
LEMMA EmptyGood == Good(EmptyPool)
<1> DEFINE none == [a \in Accounts |-> {}]
           zero == [a \in Accounts |-> 0]
<1>1. EmptyPool = Pool(none, none, {}, zero)
  BY DEF EmptyPool
<1>2. /\ Fields(EmptyPool) /\ EmptyPool.pending = none /\ EmptyPool.queue = none
      /\ EmptyPool.all = {}
  BY <1>1, PoolFields
<1>3. none \in [Accounts -> SUBSET Tx] /\ \A a \in Accounts : none[a] = {}
  OBVIOUS
<1>4. \A t \in Tx : none[t.from] = {}
  BY Senders
<1> QED BY <1>2, <1>3, <1>4 DEF Good, Account

\* No operation holds the lock.
LEMMA FreeGood == ASSUME op = Free PROVE GoodOp
<1>1. <<>> \in Seq(Tx) /\ <<>> \in Seq(Accounts)
  OBVIOUS
<1> QED BY <1>1 DEF GoodOp, OpFields, Free

\* The inductive invariant holds at the start.
LEMMA InitIInv == Init => IInv
BY EmptyGood, FreeGood DEF Init, IInv

\* The next transaction of a batch.
LEMMA NextTxGood ==
  ASSUME GoodOp, op.batch # <<>>
  PROVE  Head(op.batch) \in Tx /\ Tail(op.batch) \in Seq(Tx)
BY DEF GoodOp

\* Moving on to it keeps the operation typed,
LEMMA NextTxOp == ASSUME GoodOp, op.batch # <<>>, NextTx PROVE GoodOp'
BY NextTxGood DEF GoodOp, OpFields, NextTx

\* and so does giving up the lock.
LEMMA FreeGoodNext == ASSUME op' = Free PROVE GoodOp'
<1>1. <<>> \in Seq(Tx) /\ <<>> \in Seq(Accounts)
  OBVIOUS
<1> QED BY <1>1 DEF GoodOp, OpFields, Free

\* The steps of addTxs keep the invariant,
LEMMA AddStep == ASSUME IInv, AddSteps \/ \E batch \in Batches : AddTxs(batch) PROVE IInv'
<1> USE DEF IInv
<1>1. CASE \E batch \in Batches : AddTxs(batch)
  <2>1. PICK batch \in Batches : AddTxs(batch)
    BY <1>1
  <2>2. batch.txs \in Seq(Tx) /\ <<>> \in Seq(Accounts)
    BY PoolAssumption
  <2>3. op'.batch = batch.txs /\ op'.offenders = <<>> /\ op'.pc = "add" /\ OpFields'
    BY <2>1, Zenon DEF AddTxs, Free, OpFields
  <2> QED BY <2>1, <2>2, <2>3, Zenon DEF AddTxs, GoodOp
<1>2. CASE Refuse
  BY <1>2, NextTxOp DEF Refuse
<1>3. CASE MakeRoom
  <2> DEFINE t == Head(op.batch)
  <2>1. PICK u \in MaxTx(t) : /\ pool' = removeTx(pool, u)
                              /\ \/ NextTx
                                 \/ op' = Free
                                 \/ \E n : op' = [op EXCEPT !.pc = "discard", !.need = n]
    BY <1>3, Zenon DEF MakeRoom
  <2>2. op.batch # <<>> /\ t \in Tx
    BY <1>3, NextTxGood DEF MakeRoom
  <2>3. u \in Tx
    <3>1. t.from \in Accounts /\ u \in pool.queue[t.from]
      BY <2>2, Senders, Zenon DEF MaxTx, Highest
    <3> QED BY <3>1 DEF Good
  <2>4. Good(pool')
    BY <2>1, <2>3, RemoveGood, Zenon
  <2>5. GoodOp'
    <3>1. CASE NextTx
      BY <2>2, <3>1, NextTxOp
    <3>2. CASE op' = Free
      BY <3>2, FreeGoodNext
    <3>3. ASSUME NEW n, op' = [op EXCEPT !.pc = "discard", !.need = n] PROVE GoodOp'
      BY <2>2, <3>3 DEF GoodOp, OpFields
    <3> QED BY <2>1, <3>1, <3>2, <3>3, Zenon
  <2> QED BY <2>4, <2>5, Zenon
<1>4. CASE Discard
  <2>1. PICK t \in Discardable : /\ pool' = removeTx(pool, t)
                                 /\ op' = [op EXCEPT !.need = @ - t.slots]
    BY <1>4 DEF Discard
  <2>2. t \in Tx
    BY <2>1 DEF Discardable, Good
  <2>3. Good(pool')
    BY <2>1, <2>2, RemoveGood
  <2>4. GoodOp'
    BY <2>1 DEF GoodOp, OpFields
  <2> QED BY <2>3, <2>4
<1>5. CASE ReplacePending
  <2> DEFINE t == Head(op.batch)
             old == {u \in pool.pending[t.from] : u.nonce = t.nonce}
  <2>1. op.batch # <<>>
    BY <1>5, Zenon DEF ReplacePending, Accepted, GoodOp
  <2>2. t \in Tx
    BY <2>1, NextTxGood
  <2>3. GoodOp'
    BY <1>5, <2>1, NextTxOp, Zenon DEF ReplacePending
  <2>4. old # {}
    BY <1>5, Zenon DEF ReplacePending
  <2>5. \/ pool' = Pool([pool.pending EXCEPT ![t.from] = (@ \ old) \cup {t}], pool.queue,
                        (pool.all \ old) \cup {t}, pool.pendingNonce)
        \/ pool' = pool
    BY <1>5, Zenon DEF ReplacePending
  <2> HIDE DEF t
  <2> QED BY <2>2, <2>3, <2>4, <2>5, ReplaceGood, Zenon
<1>6. CASE Enqueue
  <2> DEFINE t == Head(op.batch)
  <2>1. op.batch # <<>>
    BY <1>6 DEF Enqueue, Accepted, GoodOp
  <2>2. t \in Tx /\ Tail(op.batch) \in Seq(Tx)
    BY <2>1, NextTxGood
  <2>3. t.nonce \notin Nonces(pool.pending[t.from])
    BY <1>6 DEF Enqueue
  <2>4. CASE Replaces(t, pool.queue[t.from])
    <3>1. pool' = enqueueTxs(pool, t.from, {t})
      BY <1>6, <2>4 DEF Enqueue
    <3>2. Good(pool')
      <4> HIDE DEF t
      <4> QED BY <2>2, <2>3, <2>4, <3>1, AddGood, Zenon
    <3>3. \E todo : op' = [op EXCEPT !.pc = "add", !.batch = Tail(@), !.need = 0, !.todo = todo]
      BY <1>6, <2>4, Zenon DEF Enqueue
    <3>4. GoodOp'
      BY <2>2, <3>3 DEF GoodOp, OpFields
    <3> QED BY <3>2, <3>4
  <2>5. CASE ~Replaces(t, pool.queue[t.from])
    BY <1>6, <2>1, <2>5, NextTxOp DEF Enqueue
  <2> QED BY <2>4, <2>5
<1>7. CASE AddDone
  <2>1. CASE op' = Free
    BY <1>7, <2>1, FreeGoodNext DEF AddDone
  <2>2. CASE op' = [op EXCEPT !.pc = "promote"]
    BY <1>7, <2>2, Zenon DEF AddDone, GoodOp, OpFields
  <2> QED BY <1>7, <2>1, <2>2 DEF AddDone
<1> QED BY <1>1, <1>2, <1>3, <1>4, <1>5, <1>6, <1>7 DEF AddSteps

\* those of promoteExecutables,
LEMMA PromoteStep == ASSUME IInv, PromoteSteps PROVE IInv'
<1> USE DEF IInv
<1>1. ASSUME NEW a \in Accounts, Promote(a) PROVE IInv'
  BY <1>1, PromoteGood DEF Promote, GoodOp, OpFields
<1>2. ASSUME NEW a \in Accounts, PopOffender(a) PROVE IInv'
  <2>1. Append(op.offenders, a) \in Seq(Accounts)
    BY DEF GoodOp
  <2> QED BY <1>2, <2>1 DEF PopOffender, GoodOp, OpFields
<1>3. ASSUME NEW a \in Accounts, Truncate(a) PROVE IInv'
  <2> DEFINE drops == Highest(pool.queue[a], op.need)
  <2>1. pool' = removeQueued(pool, a, drops) /\ drops \subseteq pool.queue[a]
    BY <1>3 DEF Truncate, Highest
  <2>2. Good(pool')
    BY <2>1, RemoveQueuedGood
  <2>3. GoodOp'
    BY <1>3 DEF Truncate, GoodOp, OpFields
  <2> QED BY <2>2, <2>3
<1>4. CASE Announce
  BY <1>4 DEF Announce, GoodOp, OpFields
<1>5. ASSUME NEW n \in Int, n <= Len(op.offenders), Cut(n) PROVE IInv'
  <2> DEFINE accounts == {op.offenders[i] : i \in 1 .. n}
  <2>1. accounts \in SUBSET Accounts
    BY <1>5 DEF GoodOp
  <2>2. pool' = dropLast(pool, accounts) /\ op' = op
    BY <1>5 DEF Cut
  <2> HIDE DEF accounts
  <2>3. Good(pool')
    BY <2>1, <2>2, DropLastGood
  <2> QED BY <2>2, <2>3 DEF GoodOp, OpFields
<1>6. CASE Equalize \/ CutAll
  <2>1. Len(op.offenders) \in Nat
    BY DEF GoodOp
  <2> QED BY <1>5, <1>6, <2>1 DEF Equalize, CutAll, Last
<1>7. CASE EqualizeDone
  <2>1. <<>> \in Seq(Accounts)
    OBVIOUS
  <2> QED BY <1>7, <2>1 DEF EqualizeDone, GoodOp, OpFields
<1>8. CASE Unlock
  BY <1>8, FreeGoodNext DEF Unlock
<1> QED BY <1>1, <1>2, <1>3, <1>4, <1>6, <1>7, <1>8 DEF PromoteSteps

\* pendingNonce is written as a whole.
LEMMA NoncesGood ==
  ASSUME NEW p, Good(p), NEW N
  PROVE  Good([p EXCEPT !.pendingNonce = N])
<1> DEFINE q == [p EXCEPT !.pendingNonce = N]
<1>1. Fields(q) /\ q.pending = p.pending /\ q.queue = p.queue /\ q.all = p.all
  BY DEF Good, Fields
<1> HIDE DEF q
<1>2. Good(q)
  BY <1>1 DEF Good
<1> QED BY <1>2 DEF q

\* those of reset,
LEMMA ResetStep == ASSUME IInv, ResetSteps \/ HeadSteps PROVE IInv'
<1> USE DEF IInv
<1>1. ASSUME NEW a \in Accounts, Demote(a) PROVE IInv'
  BY <1>1, DemoteGood DEF Demote, GoodOp, OpFields
<1>2. CASE SetNonces
  <2>1. Good(pool')
    BY <1>2, NoncesGood DEF SetNonces
  <2>2. GoodOp'
    BY <1>2 DEF SetNonces, GoodOp, OpFields
  <2> QED BY <2>1, <2>2
<1>3. CASE Reset
  <2>1. Good(pool')
    BY <1>3, NoncesGood, Zenon DEF Reset
  <2>2. GoodOp'
    <3>1. <<>> \in Seq(Tx) /\ <<>> \in Seq(Accounts)
      OBVIOUS
    <3> QED BY <1>3, <3>1 DEF Reset, Free, GoodOp, OpFields
  <2> QED BY <2>1, <2>2
<1>4. CASE SkipHead
  BY <1>4 DEF SkipHead, GoodOp, OpFields
<1> QED BY <1>1, <1>2, <1>3, <1>4 DEF ResetSteps, HeadSteps

\* and all the others.
LEMMA NextIInv == ASSUME IInv, [Next]_vars PROVE IInv'
<1> USE DEF IInv
<1>1. CASE LockSteps \/ HeadSteps \/ \E batch \in Batches : AddTxs(batch)
  BY <1>1, AddStep, PromoteStep, ResetStep DEF LockSteps
<1>2. CASE \/ SendFeed \/ UNCHANGED vars
           \/ \E s \in Heads : NewHead(s) \/ Rewind(s)
           \/ \E t \in Tx : MarkUnexecutable(t)
           \/ \E price \in UnitPrices : SetGasPrice(price)
  <2>1. UNCHANGED <<pool, op>>
    BY <1>2 DEF SendFeed, vars, NewHead, Rewind, MarkUnexecutable, SetGasPrice
  <2> QED BY <2>1 DEF GoodOp, OpFields
<1>3. CASE Clear
  BY <1>3, EmptyGood DEF Clear, GoodOp, OpFields
<1>4. ASSUME NEW a \in Accounts, Evict(a) PROVE IInv'
  <2>1. Good(pool') /\ op' = op
    BY <1>4, RemoveQueuedGood DEF Evict
  <2> QED BY <2>1 DEF GoodOp, OpFields
<1> QED BY <1>1, <1>2, <1>3, <1>4 DEF Next

\* The lists of the pool and its lookup table agree, and no nonce of an account is
\* used twice: what the per-transaction form of the invariant says of all.
LEMMA GoodConsistent == Good(pool) => Consistent
<1> SUFFICES ASSUME Good(pool) PROVE Consistent
  OBVIOUS
<1>1. \A a \in Accounts : Account(a, pool.pending[a], pool.queue[a])
  BY DEF Good
<1>2. pool.all \subseteq UNION {Lists(a) : a \in Accounts}
  <2> SUFFICES ASSUME NEW t \in pool.all PROVE \E a \in Accounts : t \in Lists(a)
    OBVIOUS
  <2>1. t \in Tx
    BY DEF Good
  <2>2. t \in pool.pending[t.from] \cup pool.queue[t.from]
    BY <2>1 DEF Good
  <2> QED BY <2>1, <2>2, Senders DEF Lists
<1>3. UNION {Lists(a) : a \in Accounts} \subseteq pool.all
  <2> SUFFICES ASSUME NEW a \in Accounts, NEW t \in Lists(a) PROVE t \in pool.all
    OBVIOUS
  <2> QED BY Known DEF Lists, Of
<1> QED BY <1>1, <1>2, <1>3 DEF Consistent, Lists, Account

\* The lookup table and the lists of the pool agree after every step of every
\* operation, for all accounts, transactions, batches, blocks and limits.
THEOREM PoolConsistent == Spec => []Consistent
<1>1. Init => IInv
  BY InitIInv
<1>2. IInv /\ [Next]_vars => IInv'
  BY NextIInv
<1>3. IInv => Consistent
  BY GoodConsistent DEF IInv
<1> QED BY <1>1, <1>2, <1>3, PTL DEF Spec

-----------------------------------------------------------------------------
(* Local accounts. *)

\* The accounts that the limits are enforced on are not local.
Spared ==
  op.pc \in {"equalize", "truncate"} =>
    /\ op.todo \cap locals = {}
    /\ \A i \in 1 .. Len(op.offenders) : op.offenders[i] \notin locals

\* Before that nobody is an offender yet.
NoOffenders == op.pc \notin {"equalize", "truncate"} => op.offenders = <<>>

\* The pool is at some block, and so are the events it gets.
AtHead == state \in Heads /\ headCh \in Seq(Heads)

LInv == IInv /\ Spared /\ NoOffenders /\ AtHead

\* What a transaction of a local account may leave the pool for.
MayGo(t) ==
  \/ t.nonce < state.nonce[t.from] \/ t \in state.invalid \cup marked
  \/ op.batch # <<>> /\ Head(op.batch).from = t.from
  \/ setter' # setter \/ ~KeepLocals

Kept == \A t \in pool.all \ pool'.all : t.from \in locals => MayGo(t)

\* The invariant for local accounts holds at the start.
LEMMA InitLInv == Init => LInv
<1>1. <<>> \in Seq(Heads)
  OBVIOUS
<1> QED BY <1>1, InitIInv, PoolAssumption DEF Init, LInv, Spared, NoOffenders, AtHead, Free

\* The pool's state is a head of the chain.
LEMMA NextAtHead == ASSUME AtHead, [Next]_vars PROVE AtHead'
<1>1. ASSUME NEW s \in Heads, NewHead(s) PROVE AtHead'
  <2>1. Append(headCh, s) \in Seq(Heads)
    BY DEF AtHead
  <2> QED BY <1>1, <2>1 DEF NewHead, AtHead
<1>2. CASE HeadSteps
  <2>1. headCh # <<>>
    BY <1>2 DEF HeadSteps, Reset, SkipHead
  <2>2. Head(headCh) \in Heads /\ Tail(headCh) \in Seq(Heads)
    BY <2>1 DEF AtHead
  <2> QED BY <1>2, <2>2 DEF HeadSteps, Reset, SkipHead, AtHead
<1>3. CASE AddSteps
  BY <1>3, Zenon DEF AddSteps, Refuse, MakeRoom, Discard, ReplacePending, Enqueue, AddDone, AtHead
<1>4. CASE PromoteSteps
  BY <1>4, Zenon DEF PromoteSteps, Promote, PopOffender, Truncate, Announce, Equalize, CutAll, Cut,
              EqualizeDone, Unlock, AtHead
<1>5. CASE ResetSteps
  BY <1>5, Zenon DEF ResetSteps, SetNonces, Demote, AtHead
<1>6. CASE \/ SendFeed \/ UNCHANGED vars \/ Clear
           \/ \E batch \in Batches : AddTxs(batch)
           \/ \E s \in Heads : Rewind(s)
           \/ \E a \in Accounts : Evict(a)
           \/ \E t \in Tx : MarkUnexecutable(t)
           \/ \E price \in UnitPrices : SetGasPrice(price)
  BY <1>6, Zenon DEF SendFeed, vars, Clear, AddTxs, Rewind, Evict, MarkUnexecutable, SetGasPrice, AtHead
<1> QED BY <1>1, <1>2, <1>3, <1>4, <1>5, <1>6 DEF Next, LockSteps

\* The invariant for local accounts is inductive.
LEMMA NextLInv == ASSUME LInv, [Next]_vars PROVE LInv'
<1> USE DEF Spared, NoOffenders
<1>1. IInv' /\ AtHead'
  BY NextIInv, NextAtHead DEF LInv
<1>2. OpFields /\ op.offenders \in Seq(Accounts)
  BY DEF LInv, IInv, GoodOp
<1>3. CASE AddSteps \/ \E batch \in Batches : AddTxs(batch)
  <2>1. op'.pc \notin {"equalize", "truncate"} /\ op'.offenders = <<>>
    <3>1. CASE \E batch \in Batches : AddTxs(batch)
      BY <3>1 DEF AddTxs, Free
    <3>2. CASE Refuse
      BY <3>2, <1>2 DEF Refuse, NextTx, LInv, OpFields
    <3>3. CASE MakeRoom
      <4>1. op.offenders = <<>>
        BY <3>3 DEF MakeRoom, LInv
      <4>2. \/ op' = [op EXCEPT !.pc = "add", !.batch = Tail(@), !.need = 0]
            \/ op' = Free
            \/ \E n : op' = [op EXCEPT !.pc = "discard", !.need = n]
        BY <3>3, Zenon DEF MakeRoom, NextTx
      <4>3. CASE op' = Free
        BY <4>3 DEF Free
      <4> QED BY <4>1, <4>2, <4>3, <1>2, Zenon DEF OpFields
    <3>4. CASE Discard
      <4>1. op.pc = "discard" /\ \E n : op' = [op EXCEPT !.need = n]
        BY <3>4, Zenon DEF Discard
      <4> QED BY <4>1, <1>2 DEF LInv, OpFields
    <3>5. CASE ReplacePending
      BY <3>5, <1>2 DEF ReplacePending, Accepted, NextTx, LInv, OpFields
    <3>6. CASE Enqueue
      <4>1. op.offenders = <<>>
        BY <3>6 DEF Enqueue, Accepted, LInv
      <4>2. \/ op' = [op EXCEPT !.pc = "add", !.batch = Tail(@), !.need = 0]
            \/ \E todo : op' = [op EXCEPT !.pc = "add", !.batch = Tail(@), !.need = 0, !.todo = todo]
        BY <3>6, Zenon DEF Enqueue, NextTx
      <4> QED BY <4>1, <4>2, <1>2, Zenon DEF OpFields
    <3>7. CASE AddDone
      <4>1. op.offenders = <<>>
        BY <3>7 DEF AddDone, LInv
      <4>2. op' = Free \/ op' = [op EXCEPT !.pc = "promote"]
        BY <3>7 DEF AddDone
      <4> QED BY <4>1, <4>2, <1>2 DEF Free, OpFields
    <3> QED BY <1>3, <3>1, <3>2, <3>3, <3>4, <3>5, <3>6, <3>7 DEF AddSteps
  <2> QED BY <1>1, <2>1 DEF LInv
<1>4. ASSUME NEW a \in Accounts, Promote(a) PROVE LInv'
  BY <1>1, <1>2, <1>4 DEF Promote, LInv, OpFields
<1>5. ASSUME NEW a \in Accounts, PopOffender(a) PROVE LInv'
  <2>1. a \notin locals /\ op.pc = "equalize"
    BY <1>5 DEF PopOffender, Overflow, LInv
  <2>2. /\ op'.offenders = Append(op.offenders, a) /\ op'.todo = op.todo \ {a}
        /\ op'.pc = "equalize" /\ locals' = locals
    BY <1>2, <1>5, <2>1 DEF PopOffender, OpFields
  <2>3. \A i \in 1 .. Len(op'.offenders) : op'.offenders[i] \notin locals'
    BY <1>2, <2>1, <2>2 DEF LInv
  <2> QED BY <1>1, <2>1, <2>2, <2>3 DEF LInv
<1>6. ASSUME NEW a \in Accounts, Truncate(a) PROVE LInv'
  BY <1>1, <1>2, <1>6 DEF Truncate, LInv, OpFields
<1>7. CASE Announce
  <2>1. op.offenders = <<>>
    BY <1>7 DEF Announce, LInv
  <2>2. op'.offenders = <<>> /\ op'.todo \cap locals' = {} /\ op'.pc = "equalize"
    BY <1>2, <1>7, <2>1 DEF Announce, Spammers, OpFields
  <2> QED BY <1>1, <2>2 DEF LInv
<1>8. CASE Equalize \/ CutAll
  BY <1>1, <1>8 DEF Equalize, CutAll, Cut, LInv
<1>9. CASE EqualizeDone
  <2>1. op'.offenders = <<>> /\ op'.todo \cap locals' = {} /\ op'.pc = "truncate"
    BY <1>2, <1>9 DEF EqualizeDone, OpFields
  <2> QED BY <1>1, <2>1 DEF LInv
<1>10. CASE Unlock
  BY <1>1, <1>10 DEF Unlock, LInv, Free
<1>11. CASE ResetSteps
  BY <1>1, <1>2, <1>11, Zenon DEF ResetSteps, SetNonces, Demote, LInv, OpFields
<1>12. CASE Reset
  BY <1>1, <1>12 DEF Reset, LInv, Free
<1>13. CASE Clear
  BY <1>1, <1>13 DEF Clear, LInv, Free
<1>14. CASE \/ SendFeed \/ UNCHANGED vars \/ SkipHead
            \/ \E s \in Heads : NewHead(s) \/ Rewind(s)
            \/ \E a \in Accounts : Evict(a)
            \/ \E t \in Tx : MarkUnexecutable(t)
            \/ \E price \in UnitPrices : SetGasPrice(price)
  <2>1. UNCHANGED <<op, locals>>
    BY <1>14 DEF SendFeed, vars, SkipHead, NewHead, Rewind, Evict, MarkUnexecutable, SetGasPrice
  <2> QED BY <1>1, <2>1, Zenon DEF LInv
<1> QED BY <1>3, <1>4, <1>5, <1>6, <1>7, <1>8, <1>9, <1>10, <1>11, <1>12, <1>13, <1>14
        DEF Next, LockSteps, PromoteSteps, HeadSteps

\* What removeTx takes out of the lookup table.
LEMMA RemovedAll ==
  ASSUME NEW p, Good(p), NEW t \in Tx, NEW u \in p.all, u \notin removeTx(p, t).all
  PROVE  u = t
<1> DEFINE a == t.from
           lower == {v \in p.pending[a] : v.nonce < t.nonce}
           demoted == {v \in p.pending[a] : v.nonce > t.nonce}
           rest == {v \in p.queue[a] : v.nonce # t.nonce}
           r == Pool([p.pending EXCEPT ![a] = lower], p.queue, p.all \ {t}, p.pendingNonce)
           e == enqueueTxs(r, a, demoted)
<1>1. CASE t \notin p.all
  BY <1>1, Zenon DEF removeTx
<1>2. CASE t \in p.all /\ t.nonce \in Nonces(p.pending[a])
  <2>1. removeTx(p, t) = updatePendingNonce(e, a, t.nonce)
    BY <1>2, SMTT(30) DEF removeTx
  <2>2. r.queue = p.queue /\ r.all = p.all \ {t} /\ r.pending = [p.pending EXCEPT ![a] = lower]
    BY ZenonT(30) DEF Pool
  <2> HIDE DEF r
  <2>3. Fields(e) /\ e.all = (r.all \ (r.queue[a] \ Put(demoted, r.queue[a])))
                               \cup Added(demoted, r.queue[a])
    <3> HIDE DEF demoted, a
    <3> QED BY EnqueuedAll, Zenon
  <2>4. Put(demoted, p.queue[a]) = p.queue[a] \cup demoted
    <3>1. \A v \in demoted, w \in p.queue[a] : v.nonce # w.nonce
      BY Senders, Known DEF Account
    <3> QED BY <3>1, PutFresh
  <2> HIDE DEF e
  <2>5. removeTx(p, t).all = e.all
    BY <2>1, <2>3, NonceOnly
  <2> QED BY <2>2, <2>3, <2>4, <2>5, Zenon
<1>3. CASE t \in p.all /\ t.nonce \notin Nonces(p.pending[a])
  <2>1. removeTx(p, t) = Pool(p.pending, [p.queue EXCEPT ![a] = rest], p.all \ {t}, p.pendingNonce)
    BY <1>3 DEF removeTx
  <2> QED BY <2>1, PoolFields
<1> QED BY <1>1, <1>2, <1>3

\* What the loop of promoteExecutables takes out of it.
LEMMA PromotedAll ==
  ASSUME NEW p, Good(p), NEW a \in Accounts, NEW u \in p.all, u \notin promote(p, a).all,
         a \in locals, AtHead
  PROVE  u.from = a /\ (u.nonce < state.nonce[a] \/ u \in state.invalid \cup marked)
<1> DEFINE P == p.pending[a]
           Q == p.queue[a]
           ready == Promotable(p, a).ready
           rest == Promotable(p, a).rest
           kept == IF a \in locals THEN rest ELSE Cap(rest, NonExecSlotsAccount)
           list == {t \in Q : /\ t.nonce >= state.nonce[a]
                              /\ t \notin state.invalid \cup marked}
<1>1. Account(a, P, Q) /\ Q \subseteq Of(a) /\ P \subseteq Of(a)
  BY Known
<1>2. ready \subseteq list /\ list = ready \cup rest
  BY Zenon DEF Promotable, Ready
<1>3. promote(p, a).all = p.all \ ((Q \ (kept \cup Added(ready, P))) \cup (P \ Put(ready, P)))
  BY PromoteAll, Zenon
<1>4. kept = rest
  BY Zenon
<1> HIDE DEF ready, rest, kept
<1>5. Added(ready, P) = ready /\ Put(ready, P) = P \cup ready
  <2>1. \A t \in ready, v \in P : t.nonce # v.nonce
    BY <1>1, <1>2 DEF Account
  <2> QED BY <2>1, PutFresh
<1>6. u \in Q /\ u \notin list
  BY <1>2, <1>3, <1>4, <1>5
<1>7. u.from = a
  BY <1>1, <1>6 DEF Of
<1>8. u.nonce \in Nat /\ state.nonce[a] \in Nat
  BY <1>1, <1>6, PoolAssumption DEF Of, AtHead
<1> QED BY <1>6, <1>7, <1>8

\* And what that of demoteUnexecutables takes out.
LEMMA DemotedAll ==
  ASSUME NEW p, Good(p), NEW a \in Accounts, NEW full, NEW u \in p.all,
         u \notin demote(p, a, full).all, AtHead
  PROVE  u.from = a /\ (u.nonce < state.nonce[a] \/ u \in state.invalid \cup marked)
<1> DEFINE P == p.pending[a]
           Q == p.queue[a]
           list == {t \in P : t.nonce >= state.nonce[a]}
           drops == {t \in list : t \in marked \/ (full /\ t \in state.invalid)}
           valid == {t \in list \ drops : \A v \in drops : t.nonce < v.nonce}
           executable == IF state.nonce[a] \in Nonces(valid) THEN valid ELSE {}
           kept == {t \in executable :
                      magma => \A v \in executable : v.nonce <= t.nonce => v.price >= gasPrice}
           demoted == list \ (drops \cup kept)
           r == Pool([p.pending EXCEPT ![a] = kept], p.queue,
                     p.all \ (drops \cup (P \ list)), p.pendingNonce)
           e == enqueueTxs(r, a, demoted)
<1>1. Account(a, P, Q) /\ Q \subseteq Of(a) /\ P \subseteq Of(a)
  BY Known
<1>2. demote(p, a, full) = e
  BY Zenon DEF demote
<1>3. r.queue = p.queue /\ r.all = p.all \ (drops \cup (P \ list))
  BY Zenon DEF Pool
<1>4. demoted \subseteq P
  BY Zenon
<1> HIDE DEF r, demoted
<1>5. e.all = (r.all \ (r.queue[a] \ Put(demoted, r.queue[a]))) \cup Added(demoted, r.queue[a])
  BY EnqueuedAll, Zenon
<1>6. Put(demoted, Q) = Q \cup demoted
  <2>1. \A v \in demoted, w \in Q : v.nonce # w.nonce
    BY <1>1, <1>4 DEF Account
  <2> QED BY <2>1, PutFresh
<1> HIDE DEF e
<1>7. u \in drops \cup (P \ list)
  BY <1>2, <1>3, <1>5, <1>6, Zenon
<1>8. u \in P
  BY <1>7
<1>9. u.from = a /\ u.nonce \in Nat /\ state.nonce[a] \in Nat
  BY <1>1, <1>8, PoolAssumption, SMTT(30) DEF Of, AtHead
<1> QED BY <1>7, <1>8, <1>9

\* Every step spares the transactions of local accounts: the property, action by
\* action.
LEMMA StepKept == ASSUME LInv, [Next]_vars PROVE Kept
<1> USE DEF Kept
<1>1. Good(pool) /\ GoodOp /\ AtHead
  BY DEF LInv, IInv
<1>2. CASE MakeRoom
  <2> DEFINE t == Head(op.batch)
  <2>1. op.batch # <<>> /\ t \in Tx
    BY <1>1, <1>2, NextTxGood DEF MakeRoom
  <2>2. PICK u \in MaxTx(t) : pool' = removeTx(pool, u)
    BY <1>2 DEF MakeRoom
  <2>3. u \in pool.queue[t.from]
    BY DEF MaxTx, Highest
  <2>4. u \in Tx /\ u.from = t.from
    BY <1>1, <2>1, <2>3, Senders, Known DEF Of
  <2> QED BY <1>1, <2>1, <2>2, <2>4, RemovedAll DEF MayGo
<1>3. CASE Discard
  <2>1. PICK t \in Discardable : pool' = removeTx(pool, t)
    BY <1>3 DEF Discard
  <2>2. t \in Tx /\ t.from \notin locals
    BY <1>1 DEF Discardable, Good
  <2> QED BY <1>1, <2>1, <2>2, RemovedAll
<1>4. CASE ReplacePending \/ Enqueue
  <2> DEFINE t == Head(op.batch)
             a == t.from
             old == {u \in pool.pending[a] : u.nonce = t.nonce}
  <2>1. op.batch # <<>>
    BY <1>1, <1>4, Zenon DEF ReplacePending, Enqueue, Accepted, GoodOp
  <2>2. t \in Tx /\ a \in Accounts
    BY <1>1, <2>1, NextTxGood, Senders
  <2>3. pool.pending[a] \subseteq Of(a) /\ pool.queue[a] \subseteq Of(a)
    BY <1>1, <2>2, Known
  <2>4. \A u \in pool.all \ pool'.all : u \in pool.pending[a] \cup pool.queue[a]
    <3>1. CASE ReplacePending
      <4>1. \/ pool' = pool
            \/ pool' = Pool([pool.pending EXCEPT ![a] = (@ \ old) \cup {t}], pool.queue,
                            (pool.all \ old) \cup {t}, pool.pendingNonce)
        BY <3>1, Zenon DEF ReplacePending
      <4>2. pool'.all = pool.all \/ pool'.all = (pool.all \ old) \cup {t}
        BY <4>1, PoolFields
      <4> QED BY <4>2
    <3>2. CASE Enqueue
      <4>1. pool' = pool \/ pool' = enqueueTxs(pool, a, {t})
        BY <3>2 DEF Enqueue
      <4>2. enqueueTxs(pool, a, {t}).all
              = (pool.all \ (pool.queue[a] \ Put({t}, pool.queue[a]))) \cup Added({t}, pool.queue[a])
        BY EnqueuedAll, Zenon
      <4> QED BY <4>1, <4>2, Zenon
    <3> QED BY <1>4, <3>1, <3>2
  <2> QED BY <2>1, <2>3, <2>4 DEF MayGo, Of
<1>5. ASSUME NEW a \in Accounts, Promote(a) PROVE Kept
  <2>1. pool' = promote(pool, a)
    BY <1>5 DEF Promote
  <2>2. ASSUME NEW u \in pool.all, u \notin pool'.all, u.from \in locals PROVE MayGo(u)
    <3>1. CASE a \in locals
      BY <1>1, <2>1, <2>2, <3>1, PromotedAll DEF MayGo
    <3>2. CASE a \notin locals
      <4>1. u \in pool.queue[a] \cup pool.pending[a]
        BY <2>1, <2>2, PromoteAll
      <4>2. u.from = a
        BY <1>1, <4>1, Known DEF Of
      <4> QED BY <2>2, <3>2, <4>2
    <3> QED BY <3>1, <3>2
  <2> QED BY <2>2
<1>6. ASSUME NEW a \in Accounts, Truncate(a) PROVE Kept
  <2>1. a \notin locals
    BY <1>6 DEF Truncate, LInv, Spared
  <2>2. pool'.all = pool.all \ Highest(pool.queue[a], op.need)
    BY <1>6, PoolFields DEF Truncate, removeQueued
  <2>3. \A u \in Highest(pool.queue[a], op.need) : u.from = a
    BY <1>1, Known DEF Highest, Of
  <2> QED BY <2>1, <2>2, <2>3
<1>7. CASE Equalize \/ CutAll
  <2>1. PICK n \in Int : n <= Len(op.offenders) /\ Cut(n) /\ op.pc = "equalize"
    <3>1. Len(op.offenders) \in Nat
      BY <1>1 DEF GoodOp
    <3> QED BY <1>7, <3>1 DEF Equalize, CutAll, Overflow, Last
  <2> DEFINE accounts == {op.offenders[i] : i \in 1 .. n}
  <2>2. accounts \subseteq Accounts /\ accounts \cap locals = {}
    <3>1. \A i \in 1 .. n : i \in 1 .. Len(op.offenders)
      BY <1>1, <2>1 DEF GoodOp
    <3> QED BY <1>1, <2>1, <3>1 DEF GoodOp, LInv, Spared
  <2>3. pool' = dropLast(pool, accounts)
    BY <2>1 DEF Cut
  <2> HIDE DEF accounts
  <2>4. pool'.all = pool.all \ UNION {Highest(pool.pending[a], 1) : a \in accounts}
    BY <2>3, DropLastAll
  <2>5. \A a \in accounts : \A u \in Highest(pool.pending[a], 1) : u.from = a
    BY <1>1, <2>2, Known DEF Highest, Of
  <2> QED BY <2>2, <2>4, <2>5
<1>8. ASSUME NEW a \in Accounts, Demote(a) PROVE Kept
  <2>1. pool' = demote(pool, a, op.need < FullValidationLimit)
    BY <1>8 DEF Demote
  <2> QED BY <1>1, <2>1, DemotedAll DEF MayGo
<1>9. ASSUME NEW a \in Accounts, Evict(a) PROVE Kept
  <2>1. pool'.all = pool.all \ pool.queue[a] /\ ~(KeepLocals /\ a \in locals)
    BY <1>9, PoolFields DEF Evict, removeQueued
  <2>2. \A u \in pool.queue[a] : u.from = a
    BY <1>1, Known DEF Of
  <2> QED BY <2>1, <2>2 DEF MayGo
<1>10. CASE Clear
  BY <1>10 DEF Clear, MayGo
<1>11. CASE SetNonces \/ Reset
  <2>1. pool'.all = pool.all
    BY <1>1, <1>11 DEF SetNonces, Reset, Good, Fields
  <2> QED BY <2>1
<1>12. CASE \/ Refuse \/ AddDone \/ Announce \/ EqualizeDone \/ Unlock
            \/ \E a \in Accounts : PopOffender(a)
            \/ SendFeed \/ UNCHANGED vars \/ SkipHead
            \/ \E batch \in Batches : AddTxs(batch)
            \/ \E s \in Heads : NewHead(s) \/ Rewind(s)
            \/ \E t \in Tx : MarkUnexecutable(t)
            \/ \E price \in UnitPrices : SetGasPrice(price)
  <2>1. pool' = pool
    BY <1>12, Zenon DEF Refuse, AddDone, Announce, EqualizeDone, Unlock, PopOffender, SendFeed, vars,
                 SkipHead, AddTxs, NewHead, Rewind, MarkUnexecutable, SetGasPrice
  <2> QED BY <2>1
<1> QED BY <1>2, <1>3, <1>4, <1>5, <1>6, <1>7, <1>8, <1>9, <1>10, <1>11, <1>12, Zenon
        DEF Next, LockSteps, AddSteps, PromoteSteps, ResetSteps, HeadSteps

\* No limit is enforced at the expense of a local account, with any number of
\* accounts and transactions.
THEOREM PoolLocalsKept == Spec => LocalsKept
<1>1. Init => LInv
  BY InitLInv
<1>2. LInv /\ [Next]_vars => LInv'
  BY NextLInv
<1>3. LInv /\ [Next]_vars => [Kept]_vars
  BY StepKept
<1>4. [Kept]_vars => [\A t \in pool.all \ pool'.all :
                        t.from \in locals =>
                          \/ t.nonce < state.nonce[t.from] \/ t \in state.invalid \cup marked
                          \/ op.batch # <<>> /\ Head(op.batch).from = t.from
                          \/ setter' # setter \/ ~KeepLocals]_vars
  BY DEF Kept, MayGo
<1> QED BY <1>1, <1>2, <1>3, <1>4, PTL DEF Spec, LocalsKept
=============================================================================
