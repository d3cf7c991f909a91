------------------------------- MODULE Sealing -------------------------------
(***************************************************************************)
(* How a validator's own block travels from the worker to the chain:       *)
(* worker.commitNewWork builds it and hands it to the agent's update loop, *)
(* a mine goroutine calls Seal, which proposes it to the Istanbul core and *)
(* waits on commitCh; the core's handler calls Commit, which answers Seal  *)
(* or gives the block to the fetcher; worker.wait writes the sealed block. *)
(* Meanwhile the miner stops and starts all of it.                         *)
(*                                                                         *)
(* Each goroutine is a set of actions; mutexes and channels are state.     *)
(* The core is reduced to its calls of Commit (IstanbulCore is its model): *)
(* it commits at most one block per number, as often as its rounds         *)
(* repeat.                                                                 *)
(***************************************************************************)
EXTENDS Naturals, Sequences, FiniteSets

CONSTANTS MaxTasks,    \* bound on the blocks the worker builds
          MaxHeight,   \* bound on the length of the chain
          MaxStops,    \* bound on the calls of Miner.Stop
          MaxPending   \* bound on the ChainHeadEvents queued before the first start

ASSUME SealingAssumption ==
  MaxTasks \in Nat /\ MaxHeight \in Nat /\ MaxStops \in Nat /\ MaxPending \in Nat

Task == 1 .. MaxTasks
Number == 1 .. MaxHeight
Others == 0                        \* the maker of every other validator's block
NoTask == 0
Block == [number : Number, task : Task \cup {Others}]
NoBlock == [number |-> 0, task |-> Others]

VARIABLES
  chain,              \* the canonical blocks, by number
  heads,              \* number of ChainHeadEvents the worker has not handled
  updating,           \* TRUE while worker.update is about to commitNewWork
  mining,             \* worker.mining
  mu,                 \* holder of worker.mu
  current,            \* the task being built by the holder of mu
  tasks,              \* the blocks built so far
  miner,              \* where the goroutine of Miner.Start and Stop is
  stops,              \* calls of Miner.Stop so far
  agent,              \* CpuAgent: isMining, stop, workCh, update loops, quitCurrentOp
  op,                 \* the mine goroutines, by task
  sealMu,             \* the task whose Seal holds sealMu
  proposedBlockHash,  \* the block that Commit compares with
  commitCh,           \* every commitCh made so far; all but the last are closed
  posting,            \* RequestEvents being posted
  proposed,           \* blocks a running core has received
  core,               \* the core's handler goroutine
  decided,            \* the block the validators agreed on, by number
  enqueued,           \* blocks given to the fetcher
  recv                \* results on their way to worker.wait

workerVars == <<chain, heads, updating, mining, mu, current, tasks, recv>>
minerVars == <<miner, stops>>
sealVars == <<op, sealMu, proposedBlockHash, posting>>
coreVars == <<proposed, core, decided, enqueued>>
vars == <<workerVars, minerVars, agent, sealVars, commitCh, coreVars>>

Latest == Len(commitCh)

\* Blocks are numbered from the head at the first start; events of blocks that
\* were imported before it may be queued.
Init ==
  /\ chain = <<>> /\ heads \in 0 .. MaxPending /\ updating = FALSE
  /\ mining = FALSE /\ mu = "free" /\ current = NoBlock /\ tasks = <<>>
  /\ miner = "stopped" /\ stops = 0
  /\ agent = [isMining |-> FALSE, stop |-> 0, workCh |-> <<>>, loops |-> 0,
              quitCurrentOp |-> NoTask]
  /\ op = [t \in Task |-> [pc |-> "none", stop |-> FALSE, ch |-> 0]]
  /\ sealMu = NoTask /\ proposedBlockHash = NoBlock
  /\ commitCh = <<>> /\ posting = {} /\ proposed = {}
  /\ core = [started |-> FALSE, subscribed |-> FALSE, pc |-> "off", block |-> NoBlock,
             sequence |-> 0]
  /\ decided = [n \in Number |-> NoBlock]
  /\ enqueued = {} /\ recv = <<>>

-----------------------------------------------------------------------------
(* The worker. *)

\* ChainHeadEvents reach the worker in the order of the blocks.
insert(b) ==
  /\ chain' = Append(chain, b)
  /\ heads' = heads + 1

\* worker.update takes a ChainHeadEvent.  NewChainHead needs coreMu, which Stop
\* holds while it waits for the core's handler.
ChainHead ==
  /\ heads > 0 /\ ~updating
  /\ miner # "stop wait"
  /\ heads' = heads - 1
  /\ updating' = TRUE
  /\ UNCHANGED <<chain, mining, mu, current, tasks, recv, minerVars, agent, sealVars, commitCh, coreVars>>

\* commitNewWork of worker.update, and the one Miner.Start ends with.
Wants(g) == IF g = "update" THEN updating ELSE miner = "new work"

Done(g) ==
  IF g = "update" THEN updating' = FALSE /\ UNCHANGED minerVars
                  ELSE miner' = "started" /\ UNCHANGED <<updating, stops>>

\* commitNewWork builds a block on the current one.
commitNewWork(g) ==
  /\ Wants(g) /\ mu = "free"
  /\ Len(tasks) < MaxTasks /\ Len(chain) < MaxHeight
  /\ mu' = g
  /\ tasks' = Append(tasks, [number |-> Len(chain) + 1, task |-> Len(tasks) + 1])
  /\ current' = tasks'[Len(tasks')]
  /\ UNCHANGED <<chain, heads, updating, mining, recv, minerVars, agent, sealVars, commitCh, coreVars>>

\* Prepare, makeCurrent or Finalize fails, and nothing is pushed; also past the
\* bounds.
NewWorkFails(g) ==
  /\ Wants(g) /\ mu = "free"
  /\ Done(g)
  /\ UNCHANGED <<chain, heads, mining, mu, current, tasks, recv, agent, sealVars, commitCh, coreVars>>

\* push sends the task while the worker's lock is held, and waits when workCh
\* is full.
push(g) ==
  /\ mu = g /\ current # NoBlock
  /\ IF mining
     THEN agent.workCh = <<>> /\ agent' = [agent EXCEPT !.workCh = <<current.task>>]
     ELSE UNCHANGED agent
  /\ mu' = "free" /\ current' = NoBlock
  /\ Done(g)
  /\ UNCHANGED <<chain, heads, mining, tasks, recv, sealVars, commitCh, coreVars>>

\* worker.wait writes a sealed block; WriteBlockWithState refuses a known one.
WriteBlock ==
  /\ recv # <<>>
  /\ recv' = Tail(recv)
  /\ IF Head(recv).number = Len(chain) + 1 THEN insert(Head(recv)) ELSE UNCHANGED <<chain, heads>>
  /\ UNCHANGED <<updating, mining, mu, current, tasks, minerVars, agent, sealVars, commitCh, coreVars>>

-----------------------------------------------------------------------------
(* Miner.Start and Miner.Stop. *)

MutAgentStart(a) == [a EXCEPT !.isMining = TRUE]

AgentStart(a) ==
  IF a.isMining THEN a ELSE [a EXCEPT !.isMining = TRUE, !.loops = @ + 1]

\* worker.start under mu: the engine starts with a new commitCh, the old one is
\* closed, and the agent gets an update loop.
Start ==
  /\ miner = "stopped" /\ mu = "free"
  /\ mining' = TRUE
  /\ proposedBlockHash' = NoBlock
  /\ commitCh' = Append(commitCh, <<>>)
  /\ core' = [started |-> TRUE, subscribed |-> TRUE, pc |-> "idle", block |-> NoBlock,
              sequence |-> Len(chain) + 1]
  /\ agent' = AgentStart(agent)
  /\ miner' = "new work"
  /\ UNCHANGED <<chain, heads, updating, mu, current, tasks, recv, stops, op, sealMu,
                 posting, proposed, decided, enqueued>>

\* worker.stop takes the lock and the agent's flag.
Stop ==
  /\ miner = "started" /\ mu = "free" /\ stops < MaxStops
  /\ stops' = stops + 1
  /\ mu' = "miner"
  /\ agent' = [agent EXCEPT !.isMining = FALSE]
  /\ miner' = "stop agent"
  /\ UNCHANGED <<chain, heads, updating, mining, current, tasks, recv, sealVars, commitCh, coreVars>>

\* The stop channel of the agent holds one signal; then workCh is emptied.
StopAgent ==
  /\ miner = "stop agent" /\ agent.stop = 0
  /\ agent' = [agent EXCEPT !.stop = 1, !.workCh = <<>>]
  /\ miner' = "stop engine"
  /\ UNCHANGED <<workerVars, stops, sealVars, commitCh, coreVars>>

\* core.Stop unsubscribes, and waits for the handler to exit.
StopEngine ==
  /\ miner = "stop engine"
  /\ core' = [core EXCEPT !.subscribed = FALSE]
  /\ miner' = "stop wait"
  /\ UNCHANGED <<workerVars, stops, agent, sealVars, commitCh, proposed, decided, enqueued>>

Stopped ==
  /\ miner = "stop wait" /\ core.pc = "off"
  /\ core' = [core EXCEPT !.started = FALSE]
  /\ mining' = FALSE
  /\ mu' = "free"
  /\ miner' = "stopped"
  /\ UNCHANGED <<chain, heads, updating, current, tasks, recv, stops, agent, sealVars,
                 commitCh, proposed, decided, enqueued>>

-----------------------------------------------------------------------------
(* The agent's update loops and the mine goroutines they start. *)

Finished == [pc |-> "done", stop |-> FALSE, ch |-> 0]

\* close(quitCurrentOp)
quit(ops) ==
  [t \in Task |-> IF t = agent.quitCurrentOp /\ ops[t] # Finished
                  THEN [ops[t] EXCEPT !.stop = TRUE] ELSE ops[t]]

MutTakeWork ==
  /\ agent.loops > 0 /\ agent.workCh # <<>>
  /\ LET t == Head(agent.workCh) IN
     /\ op' = [op EXCEPT ![t].pc = "delay"]
     /\ agent' = [agent EXCEPT !.workCh = <<>>, !.quitCurrentOp = t]
  /\ UNCHANGED <<workerVars, minerVars, sealMu, proposedBlockHash, posting, commitCh, coreVars>>

TakeWork ==
  /\ agent.loops > 0 /\ agent.workCh # <<>>
  /\ LET t == Head(agent.workCh) IN
     /\ op' = [quit(op) EXCEPT ![t].pc = "delay"]
     /\ agent' = [agent EXCEPT !.workCh = <<>>, !.quitCurrentOp = t]
  /\ UNCHANGED <<workerVars, minerVars, sealMu, proposedBlockHash, posting, commitCh, coreVars>>

MutTakeStop ==
  /\ agent.loops > 0 /\ agent.stop = 1
  /\ op' = quit(op)
  /\ agent' = [agent EXCEPT !.stop = 0, !.quitCurrentOp = NoTask]
  /\ UNCHANGED <<workerVars, minerVars, sealMu, proposedBlockHash, posting, commitCh, coreVars>>

TakeStop ==
  /\ agent.loops > 0 /\ agent.stop = 1
  /\ op' = quit(op)
  /\ agent' = [agent EXCEPT !.stop = 0, !.loops = @ - 1, !.quitCurrentOp = NoTask]
  /\ UNCHANGED <<workerVars, minerVars, sealMu, proposedBlockHash, posting, commitCh, coreVars>>

\* Seal returns before it proposes: the validator may not seal on this parent,
\* or stop was closed during the delay.
SealRefused(t) ==
  /\ op[t].pc = "delay"
  /\ op' = [op EXCEPT ![t] = Finished]
  /\ UNCHANGED <<workerVars, minerVars, agent, sealMu, proposedBlockHash, posting, commitCh, coreVars>>

\* The delay is over and sealMu is free.  stop is not looked at again before the
\* select, so a superseded task may still be proposed.
SealPropose(t) ==
  /\ op[t].pc = "delay" /\ sealMu = NoTask
  /\ sealMu' = t
  /\ proposedBlockHash' = tasks[t]
  /\ posting' = posting \cup {tasks[t]}
  /\ op' = [op EXCEPT ![t].pc = "posted"]
  /\ UNCHANGED <<workerVars, minerVars, agent, commitCh, coreVars>>

\* Each round of the select reads the field commitCh again.
SealSelect(t) ==
  /\ op[t].pc = "posted"
  /\ op' = [op EXCEPT ![t].pc = "select", ![t].ch = Latest]
  /\ UNCHANGED <<workerVars, minerVars, agent, sealMu, proposedBlockHash, posting, commitCh, coreVars>>

MutSealReturns(t) ==
  /\ op' = [op EXCEPT ![t] = Finished]
  /\ sealMu' = NoTask
  /\ UNCHANGED proposedBlockHash

\* The deferred clear.
SealReturns(t) ==
  /\ op' = [op EXCEPT ![t] = Finished]
  /\ sealMu' = NoTask
  /\ proposedBlockHash' = NoBlock

MutSealResult(t) ==
  /\ op[t].pc = "select" /\ commitCh[op[t].ch] # <<>>
  /\ LET result == Head(commitCh[op[t].ch]) IN
     /\ SealReturns(t)
     /\ recv' = Append(recv, tasks[t])
  /\ commitCh' = [commitCh EXCEPT ![op[t].ch] = Tail(@)]
  /\ UNCHANGED <<chain, heads, updating, mining, mu, current, tasks, minerVars, agent, posting, coreVars>>

\* A result for another block is dropped and the wait goes on.
SealResult(t) ==
  /\ op[t].pc = "select" /\ commitCh[op[t].ch] # <<>>
  /\ LET result == Head(commitCh[op[t].ch]) IN
     \/ result = tasks[t] /\ SealReturns(t) /\ recv' = Append(recv, result)
     \/ /\ result # tasks[t]
        /\ op' = [op EXCEPT ![t].pc = "posted"]
        /\ UNCHANGED <<sealMu, proposedBlockHash, recv>>
  /\ commitCh' = [commitCh EXCEPT ![op[t].ch] = Tail(@)]
  /\ UNCHANGED <<chain, heads, updating, mining, mu, current, tasks, minerVars, agent, posting, coreVars>>

\* stop is closed, or commitCh is, and Seal returns nothing.
SealStopped(t) ==
  /\ op[t].pc = "select"
  /\ op[t].stop \/ (commitCh[op[t].ch] = <<>> /\ op[t].ch < Latest)
  /\ SealReturns(t)
  /\ UNCHANGED <<workerVars, minerVars, agent, posting, commitCh, coreVars>>

-----------------------------------------------------------------------------
(* The core's handler, the fetcher and the other validators. *)

\* A RequestEvent reaches the core, or nobody when the core has unsubscribed.
Post(b) ==
  /\ b \in posting
  /\ posting' = posting \ {b}
  /\ proposed' = IF core.subscribed THEN proposed \cup {b} ELSE proposed
  /\ UNCHANGED <<workerVars, minerVars, agent, op, sealMu, proposedBlockHash, commitCh,
                 core, decided, enqueued>>

Agrees(b) == decided[b.number] \in {NoBlock, b}
Decide(b) == decided' = [decided EXCEPT ![b.number] = b]

\* A quorum of COMMIT messages: the handler enters backend.Commit.  Later rounds
\* commit the same block again.
CoreCommit(b) ==
  /\ core.pc = "idle" /\ core.subscribed
  /\ b.number = core.sequence
  /\ b.task = Others \/ b \in proposed
  /\ Agrees(b) /\ Decide(b)
  /\ core' = [core EXCEPT !.pc = "commit", !.block = b]
  /\ UNCHANGED <<workerVars, minerVars, agent, sealVars, commitCh, proposed, enqueued>>


\* Commit compares with proposedBlockHash without sealMu.
Commit ==
  /\ core.pc = "commit"
  /\ \/ /\ proposedBlockHash = core.block
        /\ core' = [core EXCEPT !.pc = "send"]
        /\ UNCHANGED enqueued
     \/ /\ proposedBlockHash # core.block
        /\ core' = [core EXCEPT !.pc = "idle", !.block = NoBlock]
        /\ enqueued' = enqueued \cup {core.block}
  /\ UNCHANGED <<workerVars, minerVars, agent, sealVars, commitCh, proposed, decided>>

\* commitCh has room for one result; the handler waits while it is full.
CommitSend ==
  /\ core.pc = "send" /\ commitCh[Latest] = <<>>
  /\ commitCh' = [commitCh EXCEPT ![Latest] = <<core.block>>]
  /\ core' = [core EXCEPT !.pc = "idle", !.block = NoBlock]
  /\ UNCHANGED <<workerVars, minerVars, agent, sealVars, proposed, decided, enqueued>>

\* The final-committed event or a timeout brings the core to the next number.
CoreNewRound ==
  /\ core.pc = "idle" /\ core.subscribed
  /\ core.sequence <= Len(chain)
  /\ core' = [core EXCEPT !.sequence = Len(chain) + 1]
  /\ UNCHANGED <<workerVars, minerVars, agent, sealVars, commitCh, proposed, decided, enqueued>>

\* handleEvents sees its closed channel and returns.
CoreExit ==
  /\ core.pc = "idle" /\ ~core.subscribed
  /\ core' = [core EXCEPT !.pc = "off"]
  /\ UNCHANGED <<workerVars, minerVars, agent, sealVars, commitCh, proposed, decided, enqueued>>

\* The fetcher inserts what Commit gave it; a known block is dropped.
InsertEnqueued(b) ==
  /\ b \in enqueued
  /\ enqueued' = enqueued \ {b}
  /\ IF b.number = Len(chain) + 1 THEN insert(b) ELSE UNCHANGED <<chain, heads>>
  /\ UNCHANGED <<updating, mining, mu, current, tasks, recv, minerVars, agent, sealVars,
                 commitCh, proposed, core, decided>>

\* The block that the other validators agreed on arrives from a peer.
Import(b) ==
  /\ b.number = Len(chain) + 1
  /\ b.task = Others \/ b \in proposed
  /\ Agrees(b) /\ Decide(b)
  /\ insert(b)
  /\ UNCHANGED <<updating, mining, mu, current, tasks, recv, minerVars, agent, sealVars,
                 commitCh, proposed, core, enqueued>>

-----------------------------------------------------------------------------
Worker == ChainHead \/ WriteBlock \/ \E g \in {"update", "miner"} : push(g)
StopSteps == StopAgent \/ StopEngine \/ Stopped
AgentSteps == TakeWork \/ TakeStop
SealSteps(t) == SealPropose(t) \/ SealSelect(t) \/ SealResult(t) \/ SealStopped(t)
CoreSteps == Commit \/ CommitSend \/ CoreNewRound \/ CoreExit
Recommit == \E b \in Block : decided[b.number] = b /\ CoreCommit(b)

Next ==
  \/ Worker \/ StopSteps \/ AgentSteps \/ CoreSteps \/ Start \/ Stop
  \/ \E g \in {"update", "miner"} : commitNewWork(g) \/ NewWorkFails(g)
  \/ \E t \in Task : SealSteps(t) \/ SealRefused(t)
  \/ \E b \in Block : Post(b) \/ CoreCommit(b) \/ InsertEnqueued(b) \/ Import(b)

\* Every goroutine that can go on does so; the core's rounds repeat until its
\* decision is in the chain.  The other validators, the miner's calls and new
\* decisions owe nothing.
Fairness ==
  /\ WF_vars(Worker) /\ WF_vars(StopSteps) /\ WF_vars(CoreSteps) /\ WF_vars(Recommit)
  /\ WF_vars(TakeWork) /\ WF_vars(TakeStop)
  /\ \A t \in Task : WF_vars(SealSteps(t))
  /\ WF_vars(\E b \in Block : InsertEnqueued(b))

Spec == Init /\ [][Next]_vars /\ Fairness

-----------------------------------------------------------------------------
(* Properties. *)

\* The agent has one update loop for the running miner and one more for each
\* stop signal that is still to be taken, so no loop outlives its Stop and a
\* pushed task always finds one (agent.go:62-109).
LoopsMatchSignals ==
  agent.loops = agent.stop + (IF agent.isMining \/ miner = "stop agent" THEN 1 ELSE 0)

Alive(t) == op[t].pc \in {"delay", "posted", "select"}

\* Every Seal in progress but the one of the newest task has been told to stop:
\* no superseded Seal keeps sealMu and waits for ever (agent.go:88-107).
SupersededStopped ==
  \A t \in Task : Alive(t) => op[t].stop \/ t = agent.quitCurrentOp

\* A block that Seal returns to the worker is the one the validators agreed on,
\* and it is in the chain or extends it, whatever results of earlier tasks or of
\* an earlier start were left in commitCh (engine.go:631-648).
SealedIsDecided ==
  \A i \in DOMAIN recv :
    LET b == recv[i] IN
    /\ b = decided[b.number]
    /\ b.number <= Len(chain) + 1
    /\ b.number <= Len(chain) => chain[b.number] = b

\* The lock-free comparison in Commit sees nothing or the block of the Seal that
\* holds sealMu; a finished Seal never leaves its hash behind for Commit to send
\* a result that nobody reads (engine.go:616-623, backend.go:322).
ProposedByHolder ==
  proposedBlockHash # NoBlock =>
    sealMu # NoTask /\ Alive(sealMu) /\ proposedBlockHash = tasks[sealMu]

\* The core waits to send behind an unread result, and no Seal is left to read it.
Stuck ==
  /\ core.pc = "send" /\ commitCh[Latest] # <<>>
  /\ \A t \in Task : ~Alive(t)


\* worker.mu is always released: push never waits for a loop that is gone, and
\* stop returns from the agent and from the core's handler unless the handler is
\* stuck behind an unread result (worker.go:256-276, 468-479).
WorkerLockReleased == (mu # "free") ~> (mu = "free" \/ Stuck)
=============================================================================
