------------------------------- MODULE TxPool -------------------------------
(***************************************************************************)
(* The transaction pool: executable transactions of each account in        *)
(* pending, the others in queue, all of them in all.  Batches are added, a *)
(* new head resets the pool, old transactions are evicted; each of these   *)
(* holds pool.mu from its first step to Unlock, and may wait for txFeedCh  *)
(* meanwhile.  The chain, the worker, which marks transactions, and        *)
(* governance, which changes the unit price, run at any time.              *)
(*                                                                         *)
(* A transaction has a sender, a nonce, a gas price, a number of slots and *)
(* may be a cancel transaction.  What else makes it valid in a state       *)
(* (funds of sender and fee payer, keys) is the set invalid of that state. *)
(* The price heap is the set all itself, as stale entries are skipped (the *)
(* second entry of a transaction that left and came back is left out).     *)
(***************************************************************************)
EXTENDS Integers, Sequences, FiniteSets, FiniteSetsExt

CONSTANTS
  Accounts,
  Tx,                        \* records [from, nonce, price, cancel, slots]
  Batches,                   \* what is added: [txs, local], a sequence of Tx and a Boolean
  Heads,                     \* what a block leaves: [nonce, invalid, price, magma]
  Genesis,                   \* the head at the start
  ExecSlotsAccount, ExecSlotsAll, NonExecSlotsAccount, NonExecSlotsAll,
  FullValidationLimit,       \* demoteUnexecutablesFullValidationTxLimit
  FeedSize,                  \* capacity of txFeedCh
  HeadSize,                  \* capacity of chainHeadCh
  KeepLocals,
  UnitPrices,                \* prices set by governance
  MaxFaults                  \* bound on rewinds, failed resets, marks and price changes

Capacity == ExecSlotsAll + NonExecSlotsAll

ASSUME PoolAssumption ==
  /\ \A t \in Tx : /\ t.from \in Accounts /\ t.nonce \in Nat /\ t.price \in Nat
                   /\ t.cancel \in BOOLEAN /\ t.slots \in Nat \ {0}
  /\ Batches \subseteq [txs : Seq(Tx), local : BOOLEAN]
  /\ Genesis \in Heads
  /\ \A s \in Heads : /\ s.nonce \in [Accounts -> Nat] /\ s.invalid \subseteq Tx
                      /\ s.price \in Nat /\ s.magma \in BOOLEAN
  /\ ExecSlotsAccount \in Nat \ {0} /\ ExecSlotsAll \in Nat
  /\ NonExecSlotsAccount \in Nat /\ NonExecSlotsAll \in Nat
  /\ FullValidationLimit \in Nat /\ FeedSize \in Nat \ {0} /\ HeadSize \in Nat \ {0}
  /\ KeepLocals \in BOOLEAN /\ UnitPrices \subseteq Nat /\ MaxFaults \in Nat

VARIABLES
  chain,      \* the current block
  headCh,     \* chainHeadCh
  state,      \* currentState: the head the pool was reset to
  pool,       \* pending, queue, all and pendingNonce
  locals,
  gasPrice, magma,
  marked,     \* transactions that the worker marked unexecutable
  feed,       \* number of events in txFeedCh
  setter,     \* the price of a SetGasPrice that waits for the lock; 0 if none
  op,         \* the operation that holds the lock
  faults

vars == <<chain, headCh, state, pool, locals, gasPrice, magma, marked, feed, setter, op,
          faults>>

Free == [pc |-> "free", batch |-> <<>>, local |-> FALSE, reset |-> FALSE, todo |-> {}, need |-> 0,
         promoted |-> {}, offenders |-> <<>>]
Pool(pending, queue, all, pendingNonce) ==
  [pending |-> pending, queue |-> queue, all |-> all, pendingNonce |-> pendingNonce]
EmptyPool ==
  Pool([a \in Accounts |-> {}], [a \in Accounts |-> {}], {}, [a \in Accounts |-> 0])

Init ==
  /\ chain = Genesis /\ headCh = <<>>
  /\ state = Genesis
  /\ pool = EmptyPool
  /\ locals = {}
  /\ gasPrice = Genesis.price /\ magma = Genesis.magma
  /\ marked = {}
  /\ feed = 0
  /\ setter = 0
  /\ op = Free
  /\ faults = 0

-----------------------------------------------------------------------------
(* Lists of transactions, one per nonce. *)

Nonces(s) == {t.nonce : t \in s}
Highest(s, k) == {t \in s : Cardinality({u \in s : u.nonce > t.nonce}) < k}
Cap(s, k) == s \ Highest(s, Cardinality(s) - k)

\* txList.Add: a transaction of the same nonce gives way to a cancel transaction,
\* and after the fork to a higher price.
Replaces(t, s) ==
  \A old \in s : old.nonce = t.nonce => t.cancel \/ (magma /\ old.price < t.price)

\* The transactions that take the place of others, and those they replace.
Added(new, s) == {t \in new : Replaces(t, s)}
Put(new, s) == {t \in s : t.nonce \notin Nonces(Added(new, s))} \cup Added(new, s)

\* Ready and ReadyWithGasPrice: the run of nonces from the lowest, if that one is
\* not past start; after the fork up to the first that is too cheap.
Ready(s, start) ==
  {t \in s : /\ \E u \in s : u.nonce <= start
             /\ \A n \in 0 .. t.nonce :
                  (\E u \in s : u.nonce <= n) =>
                     \E u \in s : u.nonce = n /\ (magma => u.price >= gasPrice)}

-----------------------------------------------------------------------------
(* Parts of the operations. *)

\* An account without an entry in pendingNonce has 0 there.
getPendingNonce(p, a) ==
  IF p.pendingNonce[a] < state.nonce[a] THEN state.nonce[a] ELSE p.pendingNonce[a]

updatePendingNonce(p, a, n) ==
  IF getPendingNonce(p, a) > n THEN [p EXCEPT !.pendingNonce[a] = n] ELSE p

\* enqueueTx for transactions of one account and different nonces.
enqueueTxs(p, a, new) ==
  LET old == p.queue[a]
  IN  Pool(p.pending, [p.queue EXCEPT ![a] = Put(new, old)],
           (p.all \ (old \ Put(new, old))) \cup Added(new, old), p.pendingNonce)

\* Mutant: the transactions after the removed one are forgotten.
MutRemoveTx(p, t) ==
  LET a == t.from
      q == [p EXCEPT !.all = @ \ {t}]
  IN  CASE t \notin p.all -> p
        [] t \in p.all /\ t.nonce \in Nonces(p.pending[a]) ->
             updatePendingNonce([q EXCEPT !.pending[a] = {u \in @ : u.nonce < t.nonce}], a, t.nonce)
        [] t \in p.all /\ t.nonce \notin Nonces(p.pending[a]) ->
             [q EXCEPT !.queue[a] = {u \in @ : u.nonce # t.nonce}]

removeTx(p, t) ==
  LET a == t.from
      lower == {u \in p.pending[a] : u.nonce < t.nonce}
      demoted == {u \in p.pending[a] : u.nonce > t.nonce}
      rest == {u \in p.queue[a] : u.nonce # t.nonce}
  IN  CASE t \notin p.all -> p
        [] t \in p.all /\ t.nonce \in Nonces(p.pending[a]) ->
             updatePendingNonce(
               enqueueTxs(Pool([p.pending EXCEPT ![a] = lower], p.queue, p.all \ {t},
                               p.pendingNonce), a, demoted),
               a, t.nonce)
        [] t \in p.all /\ t.nonce \notin Nonces(p.pending[a]) ->
             Pool(p.pending, [p.queue EXCEPT ![a] = rest], p.all \ {t}, p.pendingNonce)

\* removeTx for transactions of the queue, whose nonces are not pending.
removeQueued(p, a, s) ==
  Pool(p.pending, [p.queue EXCEPT ![a] = @ \ s], p.all \ s, p.pendingNonce)

\* The body of the loop of promoteExecutables: old, invalid and too many
\* transactions are dropped, those that are ready become pending.
Promotable(p, a) ==
  LET list == {t \in p.queue[a] : /\ t.nonce >= state.nonce[a]
                                  /\ t \notin state.invalid \cup marked}
  IN  [ready |-> Ready(list, getPendingNonce(p, a)),
       rest |-> list \ Ready(list, getPendingNonce(p, a))]

promote(p, a) ==
  LET ready == Promotable(p, a).ready
      rest == Promotable(p, a).rest
      kept == IF a \in locals THEN rest ELSE Cap(rest, NonExecSlotsAccount)
      old == p.pending[a]
      in == Added(ready, old)
  IN  Pool([p.pending EXCEPT ![a] = Put(ready, old)],
           [p.queue EXCEPT ![a] = kept],
           p.all \ ((p.queue[a] \ (kept \cup in)) \cup (old \ Put(ready, old))),
           [p.pendingNonce EXCEPT ![a] = IF in = {} THEN @ ELSE Max(Nonces(in)) + 1])

\* The body of the loop of demoteUnexecutables.
demote(p, a, full) ==
  LET list == {t \in p.pending[a] : t.nonce >= state.nonce[a]}
      drops == {t \in list : t \in marked \/ (full /\ t \in state.invalid)}
      valid == {t \in list \ drops : \A u \in drops : t.nonce < u.nonce}
      executable == IF state.nonce[a] \in Nonces(valid) THEN valid ELSE {}
      kept == {t \in executable :
                 magma => \A u \in executable : u.nonce <= t.nonce => u.price >= gasPrice}
  IN  enqueueTxs(Pool([p.pending EXCEPT ![a] = kept], p.queue,
                      p.all \ (drops \cup (p.pending[a] \ list)), p.pendingNonce),
                 a, list \ (drops \cup kept))

\* Mutant: the nonces of the dropped transactions are not given out again.
MutDropLast(p, accounts) ==
  LET last == [a \in accounts |-> Highest(p.pending[a], 1)]
  IN  [p EXCEPT !.pending = [a \in Accounts |-> IF a \in accounts THEN @[a] \ last[a] ELSE @[a]],
                !.all = @ \ UNION {last[a] : a \in accounts}]

\* The last transaction of each of the accounts goes.
dropLast(p, accounts) ==
  LET last == [a \in accounts |-> Highest(p.pending[a], 1)]
      cut(a) == Max(Nonces(last[a]))
  IN  Pool([a \in Accounts |-> p.pending[a] \ (IF a \in accounts THEN last[a] ELSE {})],
           p.queue,
           p.all \ UNION {last[a] : a \in accounts},
           [a \in Accounts |-> IF a \in accounts /\ getPendingNonce(p, a) > cut(a)
                               THEN cut(a) ELSE p.pendingNonce[a]])

Count(lists) == Cardinality(UNION {lists[a] : a \in Accounts})
Slots(s) == MapThenSumSet(LAMBDA t : t.slots, s)

-----------------------------------------------------------------------------
(* addTxs: a batch is added transaction by transaction. *)

validateTx(t) ==
  /\ IF magma THEN t.price >= gasPrice ELSE t.price = gasPrice
  /\ t.nonce >= state.nonce[t.from]
  /\ t \notin state.invalid

\* Mutant: the new transaction itself is not counted.
MutFull(t) == Slots(pool.all) > Capacity

Full(t) == Slots(pool.all) + t.slots > Capacity

\* The transaction with the highest nonce of the account's queue, if t has a nonce
\* that is missing below it.
MaxTx(t) ==
  {u \in Highest(pool.queue[t.from], 1) : u.nonce > t.nonce /\ t.nonce \notin Nonces(pool.queue[t.from])}

Underpriced(p, t) == t.from \notin locals /\ p.all # {} /\ \A u \in p.all : u.price >= t.price

\* checkAndAddTxs has cut the batch to the room it saw before it took the lock; a
\* batch is what is left.
AddTxs(batch) ==
  /\ op = Free
  /\ op' = [Free EXCEPT !.pc = "add", !.batch = batch.txs, !.local = batch.local]
  /\ UNCHANGED <<chain, headCh, state, pool, locals, gasPrice, magma, marked, feed, setter, faults>>

NextTx == op' = [op EXCEPT !.pc = "add", !.batch = Tail(@), !.need = 0]

\* Known, invalid, or no room for it.
Refuse ==
  /\ op.pc = "add" /\ op.batch # <<>>
  /\ LET t == Head(op.batch)
     IN  \/ t \in pool.all
         \/ ~validateTx(t)
         \/ Full(t) /\ MaxTx(t) = {}
  /\ NextTx
  /\ UNCHANGED <<chain, headCh, state, pool, locals, gasPrice, magma, marked, feed, setter, faults>>

\* The pool is full: the last transaction of the queue makes room for one that
\* fills a gap, even if that one turns out to be too cheap.  If it leaves more room
\* than needed, Discard panics on the negative capacity of its result: the lock is
\* released, the batch is given up and its accounts are not looked at (an RPC call
\* recovers; otherwise the process ends).
MakeRoom ==
  /\ op.pc = "add" /\ op.batch # <<>>
  /\ LET t == Head(op.batch)
     IN  /\ t \notin pool.all /\ validateTx(t) /\ Full(t)
         /\ \E u \in MaxTx(t) :
              /\ pool' = removeTx(pool, u)
              /\ LET need == Slots(pool'.all) - Capacity + t.slots
                 IN  IF ~op.local /\ Underpriced(pool', t) THEN NextTx
                     ELSE op' = IF need < 0 THEN Free
                                ELSE [op EXCEPT !.pc = "discard", !.need = need]
  /\ UNCHANGED <<chain, headCh, state, locals, gasPrice, magma, marked, feed, setter,
                 faults>>

\* Mutant: local accounts are not spared.
MutDiscardable == pool.all

\* priced.Discard: the cheapest of the accounts that are not local, and of those
\* the one with the highest nonce.
Discardable == {t \in pool.all : t.from \notin locals}

Discard ==
  /\ op.pc = "discard" /\ op.need > 0
  /\ \E t \in Discardable :
       /\ \A u \in Discardable : t.price < u.price \/ (t.price = u.price /\ t.nonce >= u.nonce)
       /\ pool' = removeTx(pool, t)
       /\ op' = [op EXCEPT !.need = @ - t.slots]
  /\ UNCHANGED <<chain, headCh, state, locals, gasPrice, magma, marked, feed, setter,
                 faults>>

Accepted ==
  \/ op.pc = "add" /\ op.batch # <<>> /\ Head(op.batch) \notin pool.all
     /\ validateTx(Head(op.batch)) /\ ~Full(Head(op.batch))
  \/ op.pc = "discard" /\ (op.need <= 0 \/ Discardable = {})

\* A pending transaction is replaced at once and the new one announced.
ReplacePending ==
  /\ Accepted
  /\ LET t == Head(op.batch)
         old == {u \in pool.pending[t.from] : u.nonce = t.nonce}
     IN  /\ old # {}
         /\ \/ /\ Replaces(t, old) /\ feed < FeedSize
               /\ pool' = Pool([pool.pending EXCEPT ![t.from] = (@ \ old) \cup {t}], pool.queue,
                               (pool.all \ old) \cup {t}, pool.pendingNonce)
               /\ feed' = feed + 1
               /\ marked' = marked \ {t}
            \/ ~Replaces(t, old) /\ UNCHANGED <<pool, feed, marked>>
  /\ NextTx
  /\ UNCHANGED <<chain, headCh, state, locals, gasPrice, magma, setter, faults>>

\* Any other transaction goes to the queue; if it replaces one there, the account
\* is not looked at for promotion.
Enqueue ==
  /\ Accepted
  /\ LET t == Head(op.batch)
         a == t.from
         replace == t.nonce \in Nonces(pool.queue[a])
     IN  /\ t.nonce \notin Nonces(pool.pending[a])
         /\ \/ /\ Replaces(t, pool.queue[a])
               /\ pool' = enqueueTxs(pool, a, {t})
               /\ locals' = IF op.local THEN locals \cup {a} ELSE locals
               /\ marked' = marked \ {t}
               /\ op' = [op EXCEPT !.pc = "add", !.batch = Tail(@), !.need = 0,
                                   !.todo = IF replace THEN @ ELSE @ \cup {a}]
            \/ ~Replaces(t, pool.queue[a]) /\ NextTx /\ UNCHANGED <<pool, locals, marked>>
  /\ UNCHANGED <<chain, headCh, state, gasPrice, magma, feed, setter, faults>>

AddDone ==
  /\ op.pc = "add" /\ op.batch = <<>>
  /\ op' = IF op.todo = {} THEN Free ELSE [op EXCEPT !.pc = "promote"]
  /\ UNCHANGED <<chain, headCh, state, pool, locals, gasPrice, magma, marked, feed, setter, faults>>

-----------------------------------------------------------------------------
(* promoteExecutables. *)

Promote(a) ==
  /\ op.pc = "promote" /\ a \in op.todo
  /\ pool' = promote(pool, a)
  /\ op' = [op EXCEPT !.todo = @ \ {a},
                      !.promoted = @ \cup Added(Promotable(pool, a).ready, pool.pending[a])]
  /\ UNCHANGED <<chain, headCh, state, locals, gasPrice, magma, marked, feed, setter,
                 faults>>

\* The promoted transactions are announced, then the limits are enforced.
Spammers ==
  {a \in Accounts \ locals : Cardinality(pool.pending[a]) > ExecSlotsAccount}

Announce ==
  /\ op.pc = "promote" /\ op.todo = {}
  /\ IF op.promoted = {} THEN UNCHANGED feed
     ELSE feed < FeedSize /\ feed' = feed + 1
  /\ op' = [op EXCEPT !.pc = "equalize", !.todo = Spammers, !.promoted = {}]
  /\ UNCHANGED <<chain, headCh, state, pool, locals, gasPrice, magma, marked, setter, faults>>

\* The accounts with the most pending transactions are cut down to the next one,
\* and in the end all of them to ExecSlotsAccount, until the rest fits.
Overflow == op.pc = "equalize" /\ Count(pool.pending) > ExecSlotsAll
Length(i) == Cardinality(pool.pending[op.offenders[i]])
Last == Len(op.offenders)
Uneven == Last > 1 /\ Length(Last - 1) > Length(Last)

PopOffender(a) ==
  /\ Overflow /\ ~Uneven
  /\ a \in op.todo
  /\ \A b \in op.todo : Cardinality(pool.pending[b]) <= Cardinality(pool.pending[a])
  /\ op' = [op EXCEPT !.todo = @ \ {a}, !.offenders = Append(@, a)]
  /\ UNCHANGED <<chain, headCh, state, pool, locals, gasPrice, magma, marked, feed, setter, faults>>

Cut(n) ==
  /\ pool' = dropLast(pool, {op.offenders[i] : i \in 1 .. n})
  /\ UNCHANGED <<chain, headCh, state, locals, gasPrice, magma, marked, feed, setter, op,
                 faults>>

Equalize == Overflow /\ Uneven /\ Cut(Last - 1)

CutAll ==
  /\ Overflow /\ ~Uneven /\ op.todo = {}
  /\ Last > 0 /\ Length(Last) > ExecSlotsAccount
  /\ Cut(Last)

EqualizeDone ==
  /\ op.pc = "equalize"
  /\ \/ ~Overflow
     \/ ~Uneven /\ op.todo = {} /\ (Last > 0 => Length(Last) <= ExecSlotsAccount)
  /\ op' = [op EXCEPT !.pc = "truncate", !.offenders = <<>>,
                      !.todo = {a \in Accounts \ locals : pool.queue[a] # {}},
                      !.need = Count(pool.queue) - NonExecSlotsAll]
  /\ UNCHANGED <<chain, headCh, state, pool, locals, gasPrice, magma, marked, feed, setter, faults>>

\* The queues are cut account by account.  The order is that of the last
\* heartbeats, which are left out.
Truncate(a) ==
  /\ op.pc = "truncate" /\ op.need > 0 /\ a \in op.todo
  /\ LET drops == Highest(pool.queue[a], op.need)
     IN  /\ pool' = removeQueued(pool, a, drops)
         /\ op' = [op EXCEPT !.todo = @ \ {a}, !.need = @ - Cardinality(drops)]
  /\ UNCHANGED <<chain, headCh, state, locals, gasPrice, magma, marked, feed, setter,
                 faults>>

\* At the end of a reset, and only there, the rules and the price of the next block
\* are taken over.
Unlock ==
  /\ op.pc = "truncate" /\ (op.need <= 0 \/ op.todo = {})
  /\ op' = Free
  /\ magma' = IF op.reset THEN state.magma ELSE magma
  /\ gasPrice' = IF op.reset /\ state.magma THEN state.price ELSE gasPrice
  /\ UNCHANGED <<chain, headCh, state, pool, locals, marked, feed, setter, faults>>

-----------------------------------------------------------------------------
(* The chain, and the loop of the pool. *)

NewHead(s) ==
  /\ Len(headCh) < HeadSize
  /\ \A a \in Accounts : s.nonce[a] >= chain.nonce[a]
  /\ chain.magma => s.magma
  /\ chain' = s
  /\ headCh' = Append(headCh, s)
  /\ UNCHANGED <<state, pool, locals, gasPrice, magma, marked, feed, setter, op, faults>>

Fault == faults < MaxFaults /\ faults' = faults + 1

\* SetHead posts no event.
Rewind(s) ==
  /\ Fault
  /\ \A a \in Accounts : s.nonce[a] <= chain.nonce[a]
  /\ s.magma => chain.magma
  /\ chain' = s
  /\ UNCHANGED <<headCh, state, pool, locals, gasPrice, magma, marked, feed, setter, op>>

SameRoot(s1, s2) == s1.nonce = s2.nonce /\ s1.invalid = s2.invalid

\* reset drops pendingNonce; nothing is reinjected, as blocks are not reorganised.
Reset ==
  /\ op = Free /\ headCh # <<>> /\ SameRoot(Head(headCh), chain)
  /\ headCh' = Tail(headCh)
  /\ state' = Head(headCh)
  /\ pool' = [pool EXCEPT !.pendingNonce = [a \in Accounts |-> 0]]
  /\ op' = [Free EXCEPT !.pc = "demote", !.reset = TRUE,
                        !.todo = {a \in Accounts : pool.pending[a] # {}}]
  /\ UNCHANGED <<chain, locals, gasPrice, magma, marked, feed, setter, faults>>

\* The block is not the current one any more, or the old head or the state of the
\* new one is missing.
SkipHead ==
  /\ op = Free /\ headCh # <<>>
  /\ \/ ~SameRoot(Head(headCh), chain) /\ UNCHANGED faults
     \/ Fault
  /\ headCh' = Tail(headCh)
  /\ UNCHANGED <<chain, state, pool, locals, gasPrice, magma, marked, feed, setter, op>>

\* Beyond the limit only marked transactions are looked for.
Demote(a) ==
  /\ op.pc = "demote" /\ a \in op.todo
  /\ pool' = demote(pool, a, op.need < FullValidationLimit)
  /\ op' = [op EXCEPT !.todo = @ \ {a},
                      !.need = @ + Cardinality({t \in pool.pending[a] : t.nonce >= state.nonce[a]})]
  /\ UNCHANGED <<chain, headCh, state, locals, gasPrice, magma, marked, feed, setter,
                 faults>>


SetNonces ==
  /\ op.pc = "demote" /\ op.todo = {}
  /\ pool' = [pool EXCEPT !.pendingNonce =
                [a \in Accounts |-> IF pool.pending[a] = {} THEN 0 ELSE Max(Nonces(pool.pending[a])) + 1]]
  /\ op' = [op EXCEPT !.pc = "promote", !.need = 0, !.todo = {a \in Accounts : pool.queue[a] # {}}]
  /\ UNCHANGED <<chain, headCh, state, locals, gasPrice, magma, marked, feed, setter,
                 faults>>

\* The queues of accounts without a recent heartbeat.
Evict(a) ==
  /\ op = Free
  /\ pool.queue[a] # {} /\ ~(KeepLocals /\ a \in locals)
  /\ pool' = removeQueued(pool, a, pool.queue[a])
  /\ UNCHANGED <<chain, headCh, state, locals, gasPrice, magma, marked, feed, setter, op,
                 faults>>

\* handleTxFeed
SendFeed ==
  /\ feed > 0 /\ feed' = feed - 1
  /\ UNCHANGED <<chain, headCh, state, pool, locals, gasPrice, magma, marked, setter, op,
                 faults>>

\* The worker marks a transaction that it cannot execute; it took it from the pool
\* some time ago.
MarkUnexecutable(t) ==
  /\ Fault
  /\ t \in pool.all \ marked
  /\ marked' = marked \cup {t}
  /\ UNCHANGED <<chain, headCh, state, pool, locals, gasPrice, magma, feed, setter, op>>

\* SetGasPrice looks at the rules and the price before it takes the lock.
SetGasPrice(price) ==
  /\ Fault
  /\ setter = 0 /\ ~magma /\ price # gasPrice
  /\ setter' = price
  /\ UNCHANGED <<chain, headCh, state, pool, locals, gasPrice, magma, marked, feed, op>>

Clear ==
  /\ setter # 0 /\ op = Free
  /\ setter' = 0
  /\ gasPrice' = setter
  /\ pool' = EmptyPool
  /\ locals' = {}
  /\ UNCHANGED <<chain, headCh, state, magma, marked, feed, op, faults>>

-----------------------------------------------------------------------------
AddSteps == Refuse \/ MakeRoom \/ Discard \/ ReplacePending \/ Enqueue \/ AddDone
PromoteSteps ==
  \/ \E a \in Accounts : Promote(a) \/ PopOffender(a) \/ Truncate(a)
  \/ Announce \/ Equalize \/ CutAll \/ EqualizeDone \/ Unlock
ResetSteps == SetNonces \/ \E a \in Accounts : Demote(a)
LockSteps == AddSteps \/ PromoteSteps \/ ResetSteps
HeadSteps == Reset \/ SkipHead

Next ==
  \/ LockSteps \/ HeadSteps \/ SendFeed \/ Clear
  \/ \E batch \in Batches : AddTxs(batch)
  \/ \E s \in Heads : NewHead(s) \/ Rewind(s)
  \/ \E a \in Accounts : Evict(a)
  \/ \E t \in Tx : MarkUnexecutable(t)
  \/ \E price \in UnitPrices : SetGasPrice(price)

\* Blocks keep coming, the lock is handed over fairly and the subscribers of the
\* feed read.
Fairness ==
  /\ WF_vars(LockSteps) /\ WF_vars(SendFeed)
  /\ SF_vars(HeadSteps) /\ WF_vars(\E s \in Heads : NewHead(s))

Spec == Init /\ [][Next]_vars /\ Fairness

-----------------------------------------------------------------------------
(* Properties. *)

Lists(a) == pool.pending[a] \cup pool.queue[a]

\* The lookup table holds exactly the transactions of the two lists, no transaction
\* is in both, and no nonce of an account is used twice (txLookup.Remove,
\* tx_pool.go:1815, would not survive a transaction that is not there).
Consistent ==
  /\ pool.all = UNION {Lists(a) : a \in Accounts}
  /\ \A a \in Accounts : /\ pool.pending[a] \cap pool.queue[a] = {}
                         /\ \A t, u \in Lists(a) : t.nonce = u.nonce => t = u

\* Between operations the pending transactions of an account are executable one
\* after the other from the state's nonce on, and the next nonce given out is the
\* one after them (tx_pool.go:476-485, 1017-1050, 1690).
Executable ==
  op = Free =>
    \A a \in Accounts :
      Nonces(pool.pending[a]) = state.nonce[a] .. (getPendingNonce(pool, a) - 1)

\* The pool never holds more transactions than its capacity, so that the room
\* checkAndAddTxs computes is not negative (tx_pool.go:1236-1245), and between
\* operations no account has more than its share of a pending list that is too
\* long.
Limited ==
  /\ Cardinality(pool.all) <= Capacity
  /\ op = Free => Count(pool.pending) <= ExecSlotsAll \/ Spammers = {}

\* A transaction of a local account is not dropped to enforce a limit: it goes when
\* its nonce is used or it is invalid, for another one of its account, or with all
\* the others when the unit price changes (tx_pool.go:341, 1446, 1476,
\* 1542, tx_list.go:640).
LocalsKept ==
  [][\A t \in pool.all \ pool'.all :
       t.from \in locals =>
         \/ t.nonce < state.nonce[t.from] \/ t \in state.invalid \cup marked
         \/ op.batch # <<>> /\ Head(op.batch).from = t.from
         \/ setter' # setter \/ ~KeepLocals]_vars

\* A transaction that is valid, has the next nonce and pays the price.
Stranded ==
  \E a \in Accounts : \E t \in pool.queue[a] :
    /\ t.nonce = getPendingNonce(pool, a) /\ t \notin state.invalid \cup marked
    /\ magma => t.price >= gasPrice

=============================================================================
