---------------------------- MODULE SealingProofs ----------------------------
(***************************************************************************)
(* Proofs about Sealing, for any number of tasks, heights and stops: the   *)
(* agent's loops, superseded Seals, the hash that Commit compares with,    *)
(* and the blocks that Seal returns.                                       *)
(***************************************************************************)
EXTENDS Sealing, SequenceTheorems, TLAPS

Agents ==
  [isMining : BOOLEAN, stop : {0, 1}, workCh : Seq(Task), loops : Int,
   quitCurrentOp : Task \cup {NoTask}]
AgentType == agent \in Agents
Ops == [pc : {"none", "delay", "posted", "select", "done"}, stop : BOOLEAN, ch : Nat]
OpType == op \in [Task -> Ops]
Cores ==
  [started : BOOLEAN, subscribed : BOOLEAN, pc : {"off", "idle", "commit", "send"},
   block : Block \cup {NoBlock}, sequence : Nat]
CoreType ==
  /\ core \in Cores
  /\ decided \in [Number -> Block \cup {NoBlock}]
BlockType ==
  /\ chain \in Seq(Block) /\ tasks \in Seq(Block) /\ recv \in Seq(Block)
  /\ commitCh \in Seq(Seq(Block))
  /\ Len(tasks) <= MaxTasks
  /\ current = NoBlock \/ current \in Block
  /\ sealMu \in Task \cup {NoTask}

\* worker.mu is held while a task is built and while the miner stops.
Lock ==
  /\ current # NoBlock => mu = "update" \/ (mu = "miner" /\ miner = "new work")
  /\ miner \in {"stop agent", "stop engine", "stop wait"} => mu = "miner"

\* The loop of the running miner, and the agent's flag, which follows the miner.
Owed == IF agent.isMining \/ miner = "stop agent" THEN 1 ELSE 0
Loops ==
  /\ agent.loops = agent.stop + Owed
  /\ agent.isMining <=> miner \in {"new work", "started"}

\* Before the first start nothing runs.
Started ==
  Len(commitCh) = 0 =>
    /\ miner = "stopped" /\ ~mining /\ agent.workCh = <<>> /\ core.pc = "off"
    /\ \A t \in Task : op[t].pc = "none"

\* A task that no loop has taken yet has no Seal.
Fresh ==
  /\ \A t \in Task : t > Len(tasks) => op[t].pc = "none"
  /\ agent.workCh # <<>> =>
       /\ Head(agent.workCh) \in Task /\ Head(agent.workCh) <= Len(tasks)
       /\ op[Head(agent.workCh)].pc = "none"
       /\ Head(agent.workCh) # current.task
  /\ current # NoBlock =>
       current.task \in Task /\ current.task <= Len(tasks) /\ op[current.task].pc = "none"

\* The Seal that has proposed holds sealMu, and waits on a commitCh that was made.
Holder ==
  /\ \A t \in Task : op[t].pc \in {"posted", "select"} <=> t = sealMu
  /\ \A t \in Task : op[t].pc = "select" => op[t].ch \in 1 .. Len(commitCh)
  /\ proposedBlockHash # NoBlock => sealMu # NoTask /\ proposedBlockHash = tasks[sealMu]

\* A decided block that the chain has or is about to have.
Seen(b) == b \in Block /\ decided[b.number] = b /\ b.number <= Len(chain) + 1

AllSeen ==
  /\ \A n \in 1 .. Len(chain) : chain[n].number = n /\ decided[n] = chain[n]
  /\ \A i \in 1 .. Len(recv) : Seen(recv[i])
  /\ \A i \in 1 .. Len(commitCh) : \A j \in 1 .. Len(commitCh[i]) : Seen(commitCh[i][j])
  /\ \A b \in enqueued : Seen(b)
  /\ core.pc \in {"commit", "send"} => Seen(core.block)
  /\ core.sequence <= Len(chain) + 1

IInv ==
  /\ AgentType /\ OpType /\ CoreType /\ BlockType
  /\ Lock /\ Loops /\ Started /\ Fresh /\ SupersededStopped /\ Holder /\ AllSeen

-----------------------------------------------------------------------------
(* Which steps can touch which state. *)

\* Only the worker, the miner and the loops touch the agent and worker.mu.
LEMMA MinerMoves ==
  ASSUME Next
  PROVE  \/ UNCHANGED <<agent, miner, mu, current>>
         \/ \E g \in {"update", "miner"} : push(g) \/ NewWorkFails(g) \/ commitNewWork(g)
         \/ Start \/ Stop \/ StopAgent \/ StopEngine \/ Stopped \/ TakeWork \/ TakeStop
<1>. DEFINE Same == UNCHANGED <<agent, miner, mu, current>>
<1>. USE DEF workerVars, minerVars, sealVars, coreVars
<1>1. Worker => Same \/ \E g \in {"update", "miner"} : push(g)
  BY DEF Worker, ChainHead, WriteBlock
<1>2. CoreSteps => Same
  BY DEF CoreSteps, Commit, CommitSend, CoreNewRound, CoreExit
<1>3. ASSUME NEW t \in Task PROVE SealSteps(t) \/ SealRefused(t) => Same
  BY DEF SealSteps, SealPropose, SealSelect, SealResult, SealStopped, SealRefused
<1>4. ASSUME NEW b \in Block
      PROVE  Post(b) \/ CoreCommit(b) \/ InsertEnqueued(b) \/ Import(b) => Same
  BY DEF Post, CoreCommit, InsertEnqueued, Import
<1>. QED BY <1>1, <1>2, <1>3, <1>4, Zenon DEF Next, StopSteps, AgentSteps

\* Only the loops and the Seals themselves touch op.
LEMMA OpMoves ==
  ASSUME Next
  PROVE  \/ UNCHANGED op
         \/ TakeWork \/ TakeStop
         \/ \E t \in Task : SealSteps(t) \/ SealRefused(t)
<1>. USE DEF workerVars, minerVars, sealVars, coreVars
<1>1. Worker \/ StopSteps \/ CoreSteps \/ Start \/ Stop => UNCHANGED op
  BY DEF Worker, ChainHead, WriteBlock, push, StopSteps, StopAgent, StopEngine, Stopped,
         CoreSteps, Commit, CommitSend, CoreNewRound, CoreExit, Start, Stop
<1>2. ASSUME NEW g \in {"update", "miner"}
      PROVE  commitNewWork(g) \/ NewWorkFails(g) => UNCHANGED op
  BY DEF commitNewWork, NewWorkFails
<1>3. ASSUME NEW b \in Block
      PROVE  Post(b) \/ CoreCommit(b) \/ InsertEnqueued(b) \/ Import(b) => UNCHANGED op
  BY DEF Post, CoreCommit, InsertEnqueued, Import
<1>. QED BY <1>1, <1>2, <1>3, Zenon DEF Next, AgentSteps

-----------------------------------------------------------------------------
(* The miner and the agent. *)

\* The worker lock keeps covering the task being built and the stop.
LEMMA LockStep ==
  ASSUME Lock, Next
  PROVE  Lock'
<1>. USE DEF Lock, workerVars, minerVars
<1>1. CASE UNCHANGED <<agent, miner, mu, current>>
  BY <1>1
<1>2. ASSUME NEW g \in {"update", "miner"}, push(g) PROVE Lock'
  BY <1>2 DEF push, Done
<1>3. ASSUME NEW g \in {"update", "miner"}, NewWorkFails(g) PROVE Lock'
  BY <1>3 DEF NewWorkFails, Done, Wants
<1>4. ASSUME NEW g \in {"update", "miner"}, commitNewWork(g) PROVE Lock'
  BY <1>4 DEF commitNewWork, Wants
<1>5. CASE Start \/ Stop
  BY <1>5 DEF Start, Stop
<1>6. CASE StopAgent \/ StopEngine \/ Stopped
  BY <1>6 DEF StopAgent, StopEngine, Stopped
<1>7. CASE TakeWork \/ TakeStop
  BY <1>7 DEF TakeWork, TakeStop
<1>. QED BY <1>1, <1>2, <1>3, <1>4, <1>5, <1>6, <1>7, MinerMoves

\* An agent with another flag is one.
LEMMA AgentWith ==
  ASSUME NEW a \in Agents, NEW m \in BOOLEAN
  PROVE  [a EXCEPT !.isMining = m] \in Agents
BY DEF Agents

\* What Start, StopAgent and the loops do to the agent.
LEMMA StartDoes ==
  ASSUME AgentType, Loops, Start
  PROVE  /\ AgentType' /\ agent'.isMining = TRUE /\ agent'.loops = agent.loops + 1
         /\ agent'.stop = agent.stop /\ agent'.workCh = agent.workCh
         /\ agent'.quitCurrentOp = agent.quitCurrentOp
         /\ ~agent.isMining /\ miner = "stopped" /\ miner' = "new work"
<1>. DEFINE a == [agent EXCEPT !.isMining = TRUE]
<1>1. miner = "stopped" /\ miner' = "new work" /\ agent' = AgentStart(agent)
  BY DEF Start
<1>2. ~agent.isMining
  BY <1>1 DEF Loops
<1>3. agent' = [a EXCEPT !.loops = agent.loops + 1]
  BY <1>1, <1>2, Zenon DEF AgentStart, a
<1>4. a \in Agents /\ agent.loops + 1 \in Int
  <2>1. agent.loops + 1 \in Int
    BY DEF AgentType, Agents
  <2>. QED BY <2>1, AgentWith, Zenon DEF AgentType
<1>5. /\ a.isMining = TRUE /\ a.stop = agent.stop /\ a.workCh = agent.workCh
      /\ a.quitCurrentOp = agent.quitCurrentOp
  BY DEF AgentType, Agents
<1>. HIDE DEF a
<1>6. agent' \in Agents
  BY <1>3, <1>4 DEF Agents
<1>7. /\ agent'.isMining = TRUE /\ agent'.loops = agent.loops + 1
      /\ agent'.stop = agent.stop /\ agent'.workCh = agent.workCh
      /\ agent'.quitCurrentOp = agent.quitCurrentOp
  BY <1>3, <1>4, <1>5 DEF Agents
<1>. QED BY <1>1, <1>2, <1>6, <1>7, Zenon DEF AgentType

\* Stop leaves a signal and empties workCh.
LEMMA StopAgentDoes ==
  ASSUME AgentType, StopAgent
  PROVE  /\ AgentType' /\ agent'.isMining = agent.isMining /\ agent'.loops = agent.loops
         /\ agent.stop = 0 /\ agent'.stop = 1 /\ agent'.workCh = <<>>
         /\ agent'.quitCurrentOp = agent.quitCurrentOp
         /\ miner = "stop agent" /\ miner' = "stop engine"
<1>. DEFINE a == [agent EXCEPT !.stop = 1]
            w == <<>>
<1>1. miner = "stop agent" /\ miner' = "stop engine" /\ agent.stop = 0
  BY Zenon DEF StopAgent
<1>2. agent' = [a EXCEPT !.workCh = w]
  BY Zenon DEF StopAgent, a, w
<1>3. a \in Agents /\ w \in Seq(Task)
  BY DEF AgentType, Agents
<1>4. /\ a.isMining = agent.isMining /\ a.loops = agent.loops /\ a.stop = 1
      /\ a.quitCurrentOp = agent.quitCurrentOp
  BY DEF AgentType, Agents
<1>5. w = <<>>
  OBVIOUS
<1>. HIDE DEF a, w
<1>6. agent' \in Agents
  BY <1>2, <1>3 DEF Agents
<1>7. /\ agent'.isMining = agent.isMining /\ agent'.loops = agent.loops
      /\ agent'.stop = 1 /\ agent'.workCh = w /\ agent'.quitCurrentOp = agent.quitCurrentOp
  BY <1>2, <1>3, <1>4 DEF Agents
<1>. QED BY <1>1, <1>5, <1>6, <1>7, Zenon DEF AgentType

\* A loop takes the task and remembers its stop channel.
LEMMA TakeWorkDoes ==
  ASSUME AgentType, Fresh, TakeWork
  PROVE  /\ AgentType' /\ agent'.isMining = agent.isMining /\ agent'.loops = agent.loops
         /\ agent'.stop = agent.stop /\ agent'.workCh = <<>>
         /\ agent.workCh # <<>> /\ agent'.quitCurrentOp = Head(agent.workCh)
         /\ Head(agent.workCh) \in Task
         /\ op' = [quit(op) EXCEPT ![Head(agent.workCh)].pc = "delay"]
         /\ UNCHANGED <<miner, mu, current, tasks, sealMu, proposedBlockHash, commitCh>>
<1>. DEFINE t == Head(agent.workCh)
            w == <<>>
            a == [agent EXCEPT !.workCh = w]
<1>1. agent.workCh # <<>> /\ t \in Task
  BY Zenon DEF TakeWork, Fresh
<1>2. agent' = [a EXCEPT !.quitCurrentOp = t]
  BY Zenon DEF TakeWork, a, w
<1>3. w = <<>> /\ w \in Seq(Task)
  OBVIOUS
<1>. HIDE DEF w
<1>4. a \in Agents
  BY <1>3, ZenonT(30) DEF AgentType, Agents
<1>5. /\ a.isMining = agent.isMining /\ a.loops = agent.loops /\ a.stop = agent.stop
      /\ a.workCh = w
  BY DEF AgentType, Agents
<1>6. op' = [quit(op) EXCEPT ![t].pc = "delay"]
  BY Zenon DEF TakeWork
<1>7. UNCHANGED <<miner, mu, current, tasks, sealMu, proposedBlockHash, commitCh>>
  BY Zenon DEF TakeWork, workerVars, minerVars
<1>. HIDE DEF a, t
<1>8. agent' \in Agents
  BY <1>1, <1>2, <1>4 DEF Agents
<1>9. /\ agent'.isMining = agent.isMining /\ agent'.loops = agent.loops
      /\ agent'.stop = agent.stop /\ agent'.workCh = w /\ agent'.quitCurrentOp = t
  BY <1>2, <1>4, <1>5 DEF Agents
<1>. QED BY <1>1, <1>3, <1>6, <1>7, <1>8, <1>9, Zenon DEF t, AgentType

\* A loop takes the signal and ends.
LEMMA TakeStopDoes ==
  ASSUME AgentType, TakeStop
  PROVE  /\ AgentType' /\ agent'.isMining = agent.isMining /\ agent'.loops = agent.loops - 1
         /\ agent.stop = 1 /\ agent'.stop = 0 /\ agent'.workCh = agent.workCh
         /\ agent'.quitCurrentOp = NoTask
         /\ op' = quit(op)
         /\ UNCHANGED <<miner, mu, current, tasks, sealMu, proposedBlockHash, commitCh>>
<1>. DEFINE a == [agent EXCEPT !.stop = 0]
            b == [a EXCEPT !.loops = agent.loops - 1]
<1>1. agent.stop = 1 /\ op' = quit(op)
      /\ UNCHANGED <<miner, mu, current, tasks, sealMu, proposedBlockHash, commitCh>>
  BY Zenon DEF TakeStop, workerVars, minerVars
<1>2. agent' = [b EXCEPT !.quitCurrentOp = NoTask]
  BY Zenon DEF TakeStop, a, b
<1>3. /\ a \in Agents /\ a.isMining = agent.isMining /\ a.stop = 0 /\ a.workCh = agent.workCh
      /\ agent.loops - 1 \in Int
  BY DEF AgentType, Agents
<1>. HIDE DEF a
<1>4. /\ b \in Agents /\ b.isMining = agent.isMining /\ b.stop = 0 /\ b.workCh = agent.workCh
      /\ b.loops = agent.loops - 1
  BY <1>3 DEF Agents
<1>. HIDE DEF b
<1>5. agent' \in Agents /\ agent'.isMining = agent.isMining /\ agent'.loops = agent.loops - 1
      /\ agent'.stop = 0 /\ agent'.workCh = agent.workCh /\ agent'.quitCurrentOp = NoTask
  BY <1>2, <1>4 DEF Agents
<1>. QED BY <1>1, <1>5, Zenon DEF AgentType

\* The agent stays one.
LEMMA AgentTypeStep ==
  ASSUME AgentType, Loops, Fresh, Next
  PROVE  AgentType'
<1>. USE DEF workerVars, minerVars
<1>1. CASE UNCHANGED <<agent, miner, mu, current>>
  BY <1>1 DEF AgentType
<1>2. ASSUME NEW g \in {"update", "miner"}, push(g) PROVE AgentType'
  <2>1. <<current.task>> \in Seq(Task)
    BY <1>2 DEF push, Fresh
  <2>. QED BY <1>2, <2>1, ZenonT(30) DEF push, AgentType, Agents
<1>3. ASSUME NEW g \in {"update", "miner"}, NewWorkFails(g) \/ commitNewWork(g) PROVE AgentType'
  BY <1>3 DEF NewWorkFails, commitNewWork, AgentType
<1>4. CASE Stop
  BY <1>4 DEF Stop, AgentType, Agents
<1>5. CASE StopEngine \/ Stopped
  BY <1>5 DEF StopEngine, Stopped, AgentType
<1>6. CASE Start \/ StopAgent \/ TakeWork \/ TakeStop
  BY <1>6, StartDoes, StopAgentDoes, TakeWorkDoes, TakeStopDoes, Zenon
<1>. QED BY <1>1, <1>2, <1>3, <1>4, <1>5, <1>6, MinerMoves

\* Every step keeps loops and signals in balance.
LEMMA LoopsStep ==
  ASSUME AgentType, Lock, Loops, Fresh, Next
  PROVE  Loops'
<1>. USE DEF workerVars, minerVars
<1>0. agent.loops \in Int /\ agent.stop \in Int /\ Owed \in Int
  BY DEF AgentType, Agents, Owed
<1>a. agent.loops = agent.stop + Owed
  BY Zenon DEF Loops
<1>1. CASE UNCHANGED <<agent, miner, mu, current>>
  BY <1>1, Zenon DEF Owed, Loops
<1>2. ASSUME NEW g \in {"update", "miner"}, push(g) PROVE Loops'
  BY <1>2 DEF push, Done, Lock, AgentType, Agents, Owed, Loops
<1>3. ASSUME NEW g \in {"update", "miner"}, NewWorkFails(g) PROVE Loops'
  BY <1>3 DEF NewWorkFails, Done, Wants, Owed, Loops
<1>4. ASSUME NEW g \in {"update", "miner"}, commitNewWork(g) PROVE Loops'
  BY <1>4 DEF commitNewWork, Owed, Loops
<1>5. CASE Start
  <2>1. /\ agent'.isMining = TRUE /\ agent'.loops = agent.loops + 1 /\ agent'.stop = agent.stop
        /\ ~agent.isMining /\ miner = "stopped" /\ miner' = "new work"
    BY <1>5, StartDoes, Zenon
  <2>2. Owed = 0 /\ Owed' = 1
    BY <2>1, Zenon DEF Owed
  <2>3. (agent.loops = agent.stop + Owed)'
    <3>1. agent'.loops = agent.loops + 1 /\ agent'.stop = agent.stop
      BY <2>1
    <3>. QED BY <1>0, <1>a, <2>2, <3>1
  <2>. QED BY <2>1, <2>3, Zenon DEF Loops
<1>6. CASE Stop
  BY <1>6 DEF Stop, AgentType, Agents, Owed, Loops
<1>7. CASE StopAgent
  <2>1. /\ agent'.isMining = agent.isMining /\ agent'.loops = agent.loops
        /\ agent.stop = 0 /\ agent'.stop = 1
        /\ miner = "stop agent" /\ miner' = "stop engine"
    BY <1>7, StopAgentDoes, Zenon
  <2>2. Owed = 1 /\ Owed' = 0
    BY <2>1, Zenon DEF Owed, Loops
  <2>3. (agent.loops = agent.stop + Owed)'
    <3>1. agent'.loops = agent.loops /\ agent.stop = 0 /\ agent'.stop = 1
      BY <2>1
    <3>. QED BY <1>0, <1>a, <2>2, <3>1
  <2>. QED BY <2>1, <2>3, Zenon DEF Loops
<1>8. CASE StopEngine \/ Stopped
  BY <1>8 DEF StopEngine, Stopped, Owed, Loops
<1>9. CASE TakeWork
  BY <1>9, TakeWorkDoes, Zenon DEF Owed, Loops
<1>10. CASE TakeStop
  <2>1. /\ agent'.isMining = agent.isMining /\ agent'.loops = agent.loops - 1
        /\ agent.stop = 1 /\ agent'.stop = 0 /\ UNCHANGED miner
    BY <1>10, TakeStopDoes, Zenon
  <2>2. Owed' = Owed
    BY <2>1, Zenon DEF Owed
  <2>3. (agent.loops = agent.stop + Owed)'
    <3>1. agent'.loops = agent.loops - 1 /\ agent.stop = 1 /\ agent'.stop = 0
      BY <2>1
    <3>. QED BY <1>0, <1>a, <2>2, <3>1
  <2>. QED BY <2>1, <2>3, Zenon DEF Loops
<1>. QED BY <1>1, <1>2, <1>3, <1>4, <1>5, <1>6, <1>7, <1>8, <1>9, <1>10, MinerMoves

-----------------------------------------------------------------------------
(* The Seals. *)

\* quit tells one Seal to stop and leaves the rest of op alone.
LEMMA QuitDoes ==
  ASSUME OpType
  PROVE  /\ quit(op) \in [Task -> Ops]
         /\ \A u \in Task : quit(op)[u].pc = op[u].pc /\ quit(op)[u].ch = op[u].ch
         /\ \A u \in Task : op[u].stop => quit(op)[u].stop
         /\ \A u \in Task : u = agent.quitCurrentOp /\ Alive(u) => quit(op)[u].stop
<1>. SUFFICES ASSUME NEW u \in Task
              PROVE  /\ quit(op)[u] \in Ops
                     /\ quit(op)[u].pc = op[u].pc /\ quit(op)[u].ch = op[u].ch
                     /\ op[u].stop => quit(op)[u].stop
                     /\ u = agent.quitCurrentOp /\ Alive(u) => quit(op)[u].stop
  <2>. DEFINE f(u) == IF u = agent.quitCurrentOp /\ op[u] # Finished
                      THEN [op[u] EXCEPT !.stop = TRUE] ELSE op[u]
  <2>1. quit(op) = [u \in Task |-> f(u)]
    BY Zenon DEF quit
  <2>. HIDE DEF f
  <2>. QED BY <2>1, Zenon
<1>. DEFINE o == op[u]
            s == [o EXCEPT !.stop = TRUE]
<1>1. o \in Ops
  BY DEF OpType
<1>2. quit(op)[u] = IF u = agent.quitCurrentOp /\ o # Finished THEN s ELSE o
  BY Zenon DEF quit
<1>3. Alive(u) => o # Finished
  BY DEF Alive, Finished
<1>. HIDE DEF o
<1>4. s \in Ops /\ s.pc = o.pc /\ s.ch = o.ch /\ s.stop = TRUE
  <2>. DEFINE m == TRUE
  <2>1. m \in BOOLEAN
    OBVIOUS
  <2>. HIDE DEF m
  <2>2. [o EXCEPT !.stop = m] \in Ops /\ [o EXCEPT !.stop = m].pc = o.pc
        /\ [o EXCEPT !.stop = m].ch = o.ch /\ [o EXCEPT !.stop = m].stop = m
    BY <1>1, <2>1 DEF Ops
  <2>. QED BY <2>2, Zenon DEF m
<1>. HIDE DEF s
<1>. QED BY <1>1, <1>2, <1>3, <1>4, Zenon DEF o

\* TakeWork starts the Seal of the task it takes.
LEMMA TakeWorkOps ==
  ASSUME AgentType, OpType, Fresh, TakeWork
  PROVE  /\ OpType'
         /\ op'[Head(agent.workCh)].pc = "delay"
         /\ \A u \in Task : u # Head(agent.workCh) =>
              /\ op'[u].pc = op[u].pc /\ op'[u].ch = op[u].ch
              /\ op[u].stop => op'[u].stop
              /\ u = agent.quitCurrentOp /\ Alive(u) => op'[u].stop
<1>. DEFINE q == quit(op)
            t == Head(agent.workCh)
<1>1. op' = [q EXCEPT ![t].pc = "delay"] /\ t \in Task
  BY TakeWorkDoes, Zenon
<1>2. /\ q \in [Task -> Ops]
      /\ \A u \in Task : q[u].pc = op[u].pc /\ q[u].ch = op[u].ch
      /\ \A u \in Task : op[u].stop => q[u].stop
      /\ \A u \in Task : u = agent.quitCurrentOp /\ Alive(u) => q[u].stop
  BY QuitDoes, Zenon
<1>. HIDE DEF q, t
<1>3. op' \in [Task -> Ops] /\ op'[t].pc = "delay" /\ \A u \in Task : u # t => op'[u] = q[u]
  BY <1>1, <1>2 DEF Ops
<1>. QED BY <1>2, <1>3, Zenon DEF t, OpType

\* A stop signal closes the stop channel of the newest Seal only.
LEMMA TakeStopOps ==
  ASSUME AgentType, OpType, TakeStop
  PROVE  /\ OpType'
         /\ \A u \in Task :
              /\ op'[u].pc = op[u].pc /\ op'[u].ch = op[u].ch
              /\ op[u].stop => op'[u].stop
              /\ u = agent.quitCurrentOp /\ Alive(u) => op'[u].stop
<1>1. op' = quit(op)
  BY TakeStopDoes, Zenon
<1>. QED BY <1>1, QuitDoes, Zenon DEF OpType

\* A step of a Seal touches no other, and a Seal that goes on keeps its stop channel.
LEMMA SealDoes ==
  ASSUME OpType, BlockType, NEW t \in Task, SealSteps(t) \/ SealRefused(t)
  PROVE  /\ OpType' /\ Alive(t) /\ op'[t].pc \in {"posted", "select", "done"}
         /\ \A u \in Task : u # t => op'[u] = op[u]
         /\ op'[t].pc \in {"posted", "select"} => op'[t].stop = op[t].stop
         /\ UNCHANGED <<agent, tasks, current, mu, miner>>
<1>. USE DEF workerVars, minerVars
<1>1. UNCHANGED <<agent, tasks, current, mu, miner>>
  BY Zenon DEF SealSteps, SealPropose, SealSelect, SealResult, SealStopped, SealRefused
<1>2. op[t].pc \in {"delay", "posted", "select"}
  BY Zenon DEF SealSteps, SealPropose, SealSelect, SealResult, SealStopped, SealRefused
<1>3. CASE op' = [op EXCEPT ![t] = Finished]
  <2>1. Finished \in Ops /\ Finished.pc = "done"
    BY DEF Finished, Ops
  <2>2. OpType' /\ op'[t] = Finished /\ \A u \in Task : u # t => op'[u] = op[u]
    BY <1>3, <2>1, Zenon DEF OpType
  <2>. QED BY <1>1, <1>2, <2>1, <2>2 DEF Alive
<1>4. CASE op' = [op EXCEPT ![t].pc = "posted"]
  <2>1. OpType' /\ op'[t].pc = "posted" /\ op'[t].stop = op[t].stop
        /\ \A u \in Task : u # t => op'[u] = op[u]
    BY <1>4 DEF OpType, Ops
  <2>. QED BY <1>1, <1>2, <2>1, Zenon DEF Alive
<1>5. CASE SealSelect(t)
  <2>. DEFINE o == [op EXCEPT ![t].pc = "select"]
  <2>1. op' = [o EXCEPT ![t].ch = Latest]
    BY <1>5, Zenon DEF SealSelect, o
  <2>2. o \in [Task -> Ops] /\ o[t].pc = "select" /\ o[t].stop = op[t].stop
        /\ \A u \in Task : u # t => o[u] = op[u]
    BY DEF OpType, Ops
  <2>3. Latest \in Nat
    BY DEF BlockType, Latest
  <2>. HIDE DEF o
  <2>4. OpType' /\ op'[t].pc = "select" /\ op'[t].stop = op[t].stop
        /\ \A u \in Task : u # t => op'[u] = op[u]
    BY <2>1, <2>2, <2>3 DEF OpType, Ops
  <2>. QED BY <1>1, <1>2, <2>4, Zenon DEF Alive
<1>. QED BY <1>3, <1>4, <1>5, Zenon
         DEF SealSteps, SealPropose, SealResult, SealStopped, SealRefused, SealReturns

\* The mine goroutines stay what they are.
LEMMA OpTypeStep ==
  ASSUME AgentType, OpType, BlockType, Fresh, Next
  PROVE  OpType'
<1>1. CASE UNCHANGED op
  BY <1>1 DEF OpType
<1>. QED BY <1>1, OpMoves, TakeWorkOps, TakeStopOps, SealDoes, Zenon

\* Apart from the steps listed, tasks, their Seals and the agent's channel stay.
LEMMA WorkMoves ==
  ASSUME AgentType, Loops, Next
  PROVE  \/ /\ UNCHANGED <<tasks, current, op>>
            /\ agent'.workCh = agent.workCh /\ agent'.quitCurrentOp = agent.quitCurrentOp
         \/ \E g \in {"update", "miner"} : push(g) \/ commitNewWork(g)
         \/ StopAgent \/ TakeWork \/ TakeStop
         \/ \E t \in Task : SealSteps(t) \/ SealRefused(t)
<1>. DEFINE Same == /\ UNCHANGED <<tasks, current, op>>
                    /\ agent'.workCh = agent.workCh /\ agent'.quitCurrentOp = agent.quitCurrentOp
<1>. USE DEF workerVars, minerVars, sealVars, coreVars
<1>1. Worker => Same \/ \E g \in {"update", "miner"} : push(g)
  BY Zenon DEF Worker, ChainHead, WriteBlock
<1>2. CoreSteps => Same
  BY Zenon DEF CoreSteps, Commit, CommitSend, CoreNewRound, CoreExit
<1>3. ASSUME NEW b \in Block
      PROVE  Post(b) \/ CoreCommit(b) \/ InsertEnqueued(b) \/ Import(b) => Same
  BY Zenon DEF Post, CoreCommit, InsertEnqueued, Import
<1>4. ASSUME NEW g \in {"update", "miner"}, NewWorkFails(g) PROVE Same
  BY <1>4, Zenon DEF NewWorkFails
<1>5. CASE Start
  <2>1. UNCHANGED <<tasks, current, op>>
    BY <1>5, Zenon DEF Start
  <2>. QED BY <1>5, <2>1, StartDoes, Zenon
<1>6. CASE Stop
  <2>1. UNCHANGED <<tasks, current, op>> /\ agent' = [agent EXCEPT !.isMining = FALSE]
    BY <1>6, Zenon DEF Stop
  <2>. QED BY <2>1 DEF AgentType, Agents
<1>7. StopEngine \/ Stopped => Same
  BY Zenon DEF StopEngine, Stopped
<1>. QED BY <1>1, <1>2, <1>3, <1>4, <1>5, <1>6, <1>7, Zenon DEF Next, StopSteps, AgentSteps

\* Every step keeps superseded Seals told to stop.
LEMMA SupersededStep ==
  ASSUME AgentType, OpType, BlockType, Loops, Fresh, SupersededStopped, Next
  PROVE  SupersededStopped'
<1>. SUFFICES ASSUME NEW u \in Task, Alive(u)'
              PROVE  op'[u].stop \/ u = agent'.quitCurrentOp
  BY Zenon DEF SupersededStopped
<1>0. Alive(u) => op[u].stop \/ u = agent.quitCurrentOp
  BY Zenon DEF SupersededStopped
<1>1. CASE UNCHANGED op /\ agent'.quitCurrentOp = agent.quitCurrentOp
  BY <1>0, <1>1, Zenon DEF Alive
<1>2. ASSUME NEW g \in {"update", "miner"}, push(g) \/ commitNewWork(g)
      PROVE  UNCHANGED op /\ agent'.quitCurrentOp = agent.quitCurrentOp
  <2>1. CASE commitNewWork(g)
    BY <2>1, Zenon DEF commitNewWork, sealVars
  <2>2. CASE push(g)
    BY <2>2 DEF push, sealVars, AgentType, Agents
  <2>. QED BY <1>2, <2>1, <2>2
<1>3. CASE StopAgent
  <2>1. UNCHANGED op
    BY <1>3, Zenon DEF StopAgent, sealVars
  <2>. QED BY <1>1, <1>3, <2>1, StopAgentDoes, Zenon
<1>4. CASE TakeWork
  BY <1>0, <1>4, TakeWorkDoes, TakeWorkOps, Zenon DEF Alive
<1>5. CASE TakeStop
  BY <1>0, <1>5, TakeStopOps, Zenon DEF Alive
<1>6. ASSUME NEW t \in Task, SealSteps(t) \/ SealRefused(t)
      PROVE  op'[u].stop \/ u = agent'.quitCurrentOp
  <2>1. CASE u # t
    BY <1>0, <1>6, <2>1, SealDoes, Zenon DEF Alive
  <2>2. CASE u = t
    <3>1. op'[t].pc \in {"posted", "select", "done"} /\ Alive(t)'
      BY <1>6, <2>2, SealDoes, Zenon
    <3>2. op'[t].pc \in {"posted", "select"}
      BY <3>1 DEF Alive
    <3>. QED BY <1>0, <1>6, <2>2, <3>2, SealDoes, Zenon
  <2>. QED BY <2>1, <2>2
<1>. QED BY <1>1, <1>2, <1>3, <1>4, <1>5, <1>6, WorkMoves, Zenon

\* commitNewWork appends the new task.
LEMMA NewWorkDoes ==
  ASSUME BlockType, NEW g \in {"update", "miner"}, commitNewWork(g)
  PROVE  /\ current' \in Block /\ current'.task = Len(tasks) + 1 /\ Len(tasks) + 1 \in Task
         /\ tasks' \in Seq(Block) /\ Len(tasks') = Len(tasks) + 1 /\ Len(tasks') <= MaxTasks
         /\ \A i \in 1 .. Len(tasks) : tasks'[i] = tasks[i]
         /\ UNCHANGED <<agent, op, sealMu, proposedBlockHash, commitCh>>
<1>. DEFINE r == [number |-> Len(chain) + 1, task |-> Len(tasks) + 1]
<1>1. /\ tasks' = Append(tasks, r) /\ current' = tasks'[Len(tasks')]
      /\ Len(tasks) < MaxTasks /\ Len(chain) < MaxHeight
      /\ UNCHANGED <<agent, op, sealMu, proposedBlockHash, commitCh>>
  BY Zenon DEF commitNewWork, sealVars
<1>2. /\ chain \in Seq(Block) /\ tasks \in Seq(Block) /\ MaxTasks \in Nat /\ MaxHeight \in Nat
  BY SealingAssumption, Zenon DEF BlockType
<1>3. Len(chain) \in Nat /\ Len(tasks) \in Nat
  BY <1>2
<1>4. Len(chain) + 1 \in Number /\ Len(tasks) + 1 \in Task
  BY <1>1, <1>2, <1>3 DEF Number, Task
<1>5. r \in Block /\ r.task = Len(tasks) + 1
  BY <1>4 DEF Block
<1>. HIDE DEF r
<1>6. /\ tasks' \in Seq(Block) /\ Len(tasks') = Len(tasks) + 1 /\ tasks'[Len(tasks) + 1] = r
      /\ \A i \in 1 .. Len(tasks) : tasks'[i] = tasks[i]
  BY <1>1, <1>2, <1>5
<1>7. Len(tasks') <= MaxTasks
  BY <1>1, <1>2, <1>3, <1>6
<1>. QED BY <1>1, <1>4, <1>5, <1>6, <1>7, Zenon

\* A task no loop has taken keeps having no Seal.
LEMMA FreshStep ==
  ASSUME AgentType, OpType, BlockType, Loops, Fresh, Next
  PROVE  Fresh'
<1>0. Len(tasks) \in Nat /\ Len(tasks) <= MaxTasks /\ MaxTasks \in Nat
  BY SealingAssumption DEF BlockType
<1>1. CASE UNCHANGED <<tasks, current, op>> /\ agent'.workCh = agent.workCh
  BY <1>1, Zenon DEF Fresh
<1>2. ASSUME NEW g \in {"update", "miner"}, push(g) PROVE Fresh'
  <2>1. /\ UNCHANGED <<tasks, op>> /\ current # NoBlock /\ current' = NoBlock
        /\ UNCHANGED agent \/ agent' = [agent EXCEPT !.workCh = <<current.task>>]
    BY <1>2, Zenon DEF push, sealVars
  <2>2. UNCHANGED agent \/ agent'.workCh = <<current.task>>
    BY <2>1 DEF AgentType, Agents
  <2>3. current.task \in Task /\ current.task <= Len(tasks) /\ op[current.task].pc = "none"
    BY <2>1, Zenon DEF Fresh
  <2>4. \A u \in Task : u # NoBlock.task
    BY DEF Task, NoBlock, Others
  <2>5. CASE UNCHANGED agent
    BY <2>1, <2>4, <2>5, Zenon DEF Fresh
  <2>6. CASE agent'.workCh = <<current.task>>
    <3>1. Head(agent'.workCh) = current.task
      BY <2>6
    <3>. QED BY <2>1, <2>3, <2>4, <3>1, Zenon DEF Fresh
  <2>. QED BY <2>2, <2>5, <2>6
<1>3. ASSUME NEW g \in {"update", "miner"}, commitNewWork(g) PROVE Fresh'
  <2>1. /\ current'.task = Len(tasks) + 1 /\ Len(tasks) + 1 \in Task /\ Len(tasks') = Len(tasks) + 1
        /\ UNCHANGED <<agent, op>>
    BY <1>3, NewWorkDoes, Zenon
  <2>2. \A u \in Task : u > Len(tasks') => u > Len(tasks)
    BY <1>0, <2>1 DEF Task
  <2>3. Len(tasks) + 1 > Len(tasks) /\ Len(tasks) + 1 <= Len(tasks')
    BY <1>0, <2>1
  <2>4. \A u \in Task : u <= Len(tasks) => u <= Len(tasks') /\ u # Len(tasks) + 1
    BY <1>0, <2>1 DEF Task
  <2>. QED BY <2>1, <2>2, <2>3, <2>4, Zenon DEF Fresh
<1>4. CASE StopAgent
  <2>1. agent'.workCh = <<>> /\ UNCHANGED <<tasks, current, op>>
    BY <1>4, StopAgentDoes, Zenon DEF StopAgent, workerVars, sealVars
  <2>. QED BY <2>1, Zenon DEF Fresh
<1>5. CASE TakeWork
  <2>1. /\ agent'.workCh = <<>> /\ UNCHANGED <<tasks, current>> /\ agent.workCh # <<>>
        /\ \A u \in Task : u # Head(agent.workCh) => op'[u].pc = op[u].pc
    BY <1>5, TakeWorkDoes, TakeWorkOps, Zenon
  <2>2. \A u \in Task : u <= Len(tasks) => ~(u > Len(tasks))
    BY <1>0 DEF Task
  <2>. QED BY <2>1, <2>2, Zenon DEF Fresh
<1>6. CASE TakeStop
  <2>1. /\ agent'.workCh = agent.workCh /\ UNCHANGED <<tasks, current>>
        /\ \A u \in Task : op'[u].pc = op[u].pc
    BY <1>6, TakeStopDoes, TakeStopOps, Zenon
  <2>. QED BY <2>1, Zenon DEF Fresh
<1>7. ASSUME NEW t \in Task, SealSteps(t) \/ SealRefused(t) PROVE Fresh'
  <2>1. /\ UNCHANGED <<agent, tasks, current>> /\ Alive(t)
        /\ \A u \in Task : u # t => op'[u] = op[u]
    BY <1>7, SealDoes, Zenon
  <2>2. op[t].pc # "none"
    BY <2>1 DEF Alive
  <2>. QED BY <2>1, <2>2, Zenon DEF Fresh
<1>. QED BY <1>1, <1>2, <1>3, <1>4, <1>5, <1>6, <1>7, WorkMoves, Zenon

-----------------------------------------------------------------------------
(* sealMu and the channels. *)

\* The ways a Seal can go on, as far as sealMu and proposedBlockHash see them.
LEMMA SealCases ==
  ASSUME OpType, BlockType, NEW t \in Task, SealSteps(t) \/ SealRefused(t)
  PROVE  \/ /\ op[t].pc = "delay" /\ sealMu = NoTask /\ op'[t].pc = "posted"
            /\ sealMu' = t /\ proposedBlockHash' = tasks[t] /\ UNCHANGED commitCh
         \/ /\ op[t].pc = "posted" /\ op'[t].pc = "select" /\ op'[t].ch = Len(commitCh)
            /\ UNCHANGED <<sealMu, proposedBlockHash, commitCh>>
         \/ /\ op[t].pc = "delay" /\ op'[t].pc = "done"
            /\ UNCHANGED <<sealMu, proposedBlockHash, commitCh>>
         \/ /\ op[t].pc = "select" /\ op'[t].pc = "posted" /\ SealResult(t)
            /\ UNCHANGED <<sealMu, proposedBlockHash>>
         \/ /\ op[t].pc = "select" /\ op'[t].pc = "done"
            /\ sealMu' = NoTask /\ proposedBlockHash' = NoBlock
            /\ SealResult(t) \/ UNCHANGED commitCh
<1>1. op' = [op EXCEPT ![t] = Finished] => op'[t].pc = "done"
  BY DEF OpType, Finished
<1>2. op' = [op EXCEPT ![t].pc = "posted"] => op'[t].pc = "posted"
  BY DEF OpType, Ops
<1>3. SealSelect(t) => op'[t].pc = "select" /\ op'[t].ch = Len(commitCh)
  <2>. SUFFICES ASSUME SealSelect(t) PROVE op'[t].pc = "select" /\ op'[t].ch = Len(commitCh)
    OBVIOUS
  <2>. DEFINE o == [op EXCEPT ![t].pc = "select"]
  <2>1. op' = [o EXCEPT ![t].ch = Len(commitCh)]
    BY Zenon DEF SealSelect, Latest, o
  <2>2. o \in [Task -> Ops] /\ o[t].pc = "select"
    BY DEF OpType, Ops
  <2>3. Len(commitCh) \in Nat
    BY DEF BlockType
  <2>. HIDE DEF o
  <2>. QED BY <2>1, <2>2, <2>3 DEF Ops
<1>4. CASE SealPropose(t)
  BY <1>2, <1>4, Zenon DEF SealPropose
<1>5. CASE SealSelect(t)
  BY <1>3, <1>5, Zenon DEF SealSelect
<1>6. CASE SealRefused(t)
  BY <1>1, <1>6, Zenon DEF SealRefused
<1>7. CASE SealResult(t)
  BY <1>1, <1>2, <1>7, Zenon DEF SealResult, SealReturns
<1>8. CASE SealStopped(t)
  BY <1>1, <1>8, Zenon DEF SealStopped, SealReturns
<1>. QED BY <1>4, <1>5, <1>6, <1>7, <1>8, Zenon DEF SealSteps

\* Apart from the steps listed, sealMu, the hash and the channels stay.
LEMMA HolderMoves ==
  ASSUME Next
  PROVE  \/ UNCHANGED <<op, sealMu, proposedBlockHash, tasks, commitCh>>
         \/ \E g \in {"update", "miner"} : commitNewWork(g)
         \/ Start \/ CommitSend \/ TakeWork \/ TakeStop
         \/ \E t \in Task : SealSteps(t) \/ SealRefused(t)
<1>. DEFINE Same == UNCHANGED <<op, sealMu, proposedBlockHash, tasks, commitCh>>
<1>. USE DEF workerVars, minerVars, sealVars, coreVars
<1>1. Worker => Same
  BY Zenon DEF Worker, ChainHead, WriteBlock, push
<1>2. CoreSteps => Same \/ CommitSend
  BY Zenon DEF CoreSteps, Commit, CoreNewRound, CoreExit
<1>3. ASSUME NEW b \in Block
      PROVE  Post(b) \/ CoreCommit(b) \/ InsertEnqueued(b) \/ Import(b) => Same
  BY Zenon DEF Post, CoreCommit, InsertEnqueued, Import
<1>4. ASSUME NEW g \in {"update", "miner"}, NewWorkFails(g) PROVE Same
  BY <1>4, Zenon DEF NewWorkFails
<1>5. Stop \/ StopSteps => Same
  BY Zenon DEF Stop, StopSteps, StopAgent, StopEngine, Stopped
<1>. QED BY <1>1, <1>2, <1>3, <1>4, <1>5, Zenon DEF Next, AgentSteps

\* What happens to the channels: one more is made, the latest gets a result, or
\* a Seal takes the first result of its own.
LEMMA StartChannels ==
  ASSUME BlockType, Start
  PROVE  /\ commitCh' \in Seq(Seq(Block)) /\ Len(commitCh') = Len(commitCh) + 1
         /\ \A i \in 1 .. Len(commitCh) : commitCh'[i] = commitCh[i]
         /\ commitCh'[Len(commitCh) + 1] = <<>>
<1>. DEFINE w == <<>>
<1>1. commitCh' = Append(commitCh, w) /\ commitCh \in Seq(Seq(Block))
  BY Zenon DEF Start, BlockType, w
<1>2. w \in Seq(Block)
  OBVIOUS
<1>. HIDE DEF w
<1>3. w = <<>>
  BY DEF w
<1>. QED BY <1>1, <1>2, <1>3, AppendProperties

\* CommitSend fills the latest channel, which exists.
LEMMA SendChannels ==
  ASSUME BlockType, CoreType, Started, AllSeen, CommitSend
  PROVE  /\ commitCh' \in Seq(Seq(Block)) /\ Len(commitCh') = Len(commitCh)
         /\ Len(commitCh) \in 1 .. Len(commitCh)
         /\ \A i \in 1 .. Len(commitCh) :
              commitCh'[i] = IF i = Len(commitCh) THEN <<core.block>> ELSE commitCh[i]
<1>. DEFINE w == <<core.block>>
            n == Len(commitCh)
<1>1. core.pc = "send" /\ commitCh' = [commitCh EXCEPT ![n] = w]
  BY Zenon DEF CommitSend, Latest
<1>2. core.block \in Block
  BY <1>1, Zenon DEF AllSeen, Seen
<1>3. w \in Seq(Block)
  BY <1>2
<1>4. commitCh \in Seq(Seq(Block)) /\ n \in Nat
  BY DEF BlockType
<1>5. n # 0
  BY <1>1 DEF Started
<1>6. n \in 1 .. Len(commitCh)
  BY <1>4, <1>5
<1>. HIDE DEF w, n
<1>7. /\ commitCh' \in Seq(Seq(Block)) /\ Len(commitCh') = Len(commitCh)
      /\ \A i \in 1 .. Len(commitCh) : commitCh'[i] = IF i = n THEN w ELSE commitCh[i]
  BY <1>1, <1>3, <1>4, <1>6, ExceptSeq
<1>. QED BY <1>6, <1>7, Zenon DEF w, n

\* A Seal empties a channel that exists and holds a result.
LEMMA ResultChannels ==
  ASSUME BlockType, Holder, NEW t \in Task, SealResult(t)
  PROVE  /\ op[t].ch \in 1 .. Len(commitCh) /\ commitCh[op[t].ch] # <<>>
         /\ commitCh[op[t].ch] \in Seq(Block)
         /\ commitCh' \in Seq(Seq(Block)) /\ Len(commitCh') = Len(commitCh)
         /\ \A i \in 1 .. Len(commitCh) :
              commitCh'[i] = IF i = op[t].ch THEN Tail(commitCh[op[t].ch]) ELSE commitCh[i]
<1>. DEFINE c == op[t].ch
            w == Tail(commitCh[c])
<1>1. op[t].pc = "select" /\ commitCh[c] # <<>>
  BY Zenon DEF SealResult
<1>0. commitCh' = [commitCh EXCEPT ![c] = w]
  BY Zenon DEF SealResult
<1>2. c \in 1 .. Len(commitCh)
  BY <1>1, Zenon DEF Holder
<1>3. commitCh \in Seq(Seq(Block))
  BY Zenon DEF BlockType
<1>4. commitCh[c] \in Seq(Block)
  BY <1>2, <1>3
<1>5. w \in Seq(Block)
  BY <1>1, <1>4, HeadTailProperties
<1>. HIDE DEF w, c
<1>6. /\ commitCh' \in Seq(Seq(Block)) /\ Len(commitCh') = Len(commitCh)
      /\ \A i \in 1 .. Len(commitCh) : commitCh'[i] = IF i = c THEN w ELSE commitCh[i]
  BY <1>0, <1>2, <1>3, <1>5, ExceptSeq
<1>. QED BY <1>1, <1>2, <1>4, <1>6, Zenon DEF w, c

\* No channel goes away.
LEMMA ChannelsStay ==
  ASSUME BlockType, CoreType, OpType, Started, Holder, AllSeen, Next
  PROVE  /\ commitCh' \in Seq(Seq(Block)) /\ Len(commitCh') >= Len(commitCh)
         /\ 1 .. Len(commitCh) \subseteq 1 .. Len(commitCh')
<1>0. commitCh \in Seq(Seq(Block)) /\ Len(commitCh) \in Nat
  BY DEF BlockType
<1>1. /\ commitCh' \in Seq(Seq(Block))
      /\ Len(commitCh') = Len(commitCh) \/ Len(commitCh') = Len(commitCh) + 1
  <2>1. CASE UNCHANGED commitCh
    BY <1>0, <2>1
  <2>2. ASSUME NEW g \in {"update", "miner"}, commitNewWork(g) PROVE UNCHANGED commitCh
    BY <2>2, NewWorkDoes, Zenon
  <2>3. TakeWork \/ TakeStop => UNCHANGED commitCh
    BY Zenon DEF TakeWork, TakeStop
  <2>4. ASSUME NEW t \in Task, SealSteps(t) \/ SealRefused(t)
        PROVE  SealResult(t) \/ UNCHANGED commitCh
    BY <2>4, SealCases, Zenon
  <2>. QED BY <2>1, <2>2, <2>3, <2>4, HolderMoves, StartChannels, SendChannels, ResultChannels, Zenon
<1>. QED BY <1>0, <1>1

\* Every step keeps sealMu with the Seal that has proposed.
LEMMA HolderStep ==
  ASSUME AgentType, OpType, CoreType, BlockType, Fresh, Started, Holder, AllSeen, Next
  PROVE  Holder'
<1>0. /\ 1 .. Len(commitCh) \subseteq 1 .. Len(commitCh') /\ Len(commitCh) \in Nat
      /\ Len(tasks) \in Nat
  BY ChannelsStay DEF BlockType
<1>1. CASE UNCHANGED <<op, sealMu, proposedBlockHash, tasks, commitCh>>
  BY <1>1, Zenon DEF Holder
<1>2. ASSUME NEW g \in {"update", "miner"}, commitNewWork(g) PROVE Holder'
  <2>1. /\ UNCHANGED <<op, sealMu, proposedBlockHash, commitCh>>
        /\ \A i \in 1 .. Len(tasks) : tasks'[i] = tasks[i]
    BY <1>2, NewWorkDoes, Zenon
  <2>2. sealMu # NoTask => sealMu \in 1 .. Len(tasks)
    <3>. SUFFICES ASSUME sealMu # NoTask PROVE sealMu \in 1 .. Len(tasks)
      OBVIOUS
    <3>1. sealMu \in Task
      BY DEF BlockType
    <3>2. op[sealMu].pc # "none"
      BY <3>1 DEF Holder
    <3>3. ~(sealMu > Len(tasks))
      BY <3>1, <3>2, Zenon DEF Fresh
    <3>. QED BY <1>0, <3>1, <3>3 DEF Task
  <2>. QED BY <2>1, <2>2, Zenon DEF Holder
<1>3. CASE Start
  <2>1. UNCHANGED <<op, sealMu, tasks>> /\ proposedBlockHash' = NoBlock
    BY <1>3, Zenon DEF Start
  <2>. QED BY <1>0, <2>1, Zenon DEF Holder
<1>4. CASE CommitSend
  <2>1. UNCHANGED <<op, sealMu, tasks, proposedBlockHash>>
    BY <1>4, Zenon DEF CommitSend, sealVars, workerVars
  <2>. QED BY <1>0, <2>1, Zenon DEF Holder
<1>5. CASE TakeWork
  <2>. DEFINE t == Head(agent.workCh)
  <2>1. /\ t \in Task /\ op[t].pc = "none" /\ op'[t].pc = "delay"
        /\ \A u \in Task : u # t => op'[u].pc = op[u].pc /\ op'[u].ch = op[u].ch
        /\ UNCHANGED <<sealMu, proposedBlockHash, tasks, commitCh>>
    BY <1>5, TakeWorkDoes, TakeWorkOps, Zenon DEF Fresh
  <2>2. t # sealMu /\ op'[t].pc \notin {"posted", "select"} /\ op'[t].pc # "select"
    BY <2>1 DEF Holder
  <2>. HIDE DEF t
  <2>. QED BY <2>1, <2>2, Zenon DEF Holder
<1>6. CASE TakeStop
  <2>1. /\ \A u \in Task : op'[u].pc = op[u].pc /\ op'[u].ch = op[u].ch
        /\ UNCHANGED <<sealMu, proposedBlockHash, tasks, commitCh>>
    BY <1>6, TakeStopDoes, TakeStopOps, Zenon
  <2>. QED BY <2>1, Zenon DEF Holder
<1>7. ASSUME NEW t \in Task, SealSteps(t) \/ SealRefused(t) PROVE Holder'
  <2>1. UNCHANGED tasks /\ \A u \in Task : u # t => op'[u] = op[u]
    BY <1>7, SealDoes, Zenon
  <2>2. t # NoTask /\ t \in Task
    BY DEF Task, NoTask
  <2>3. CASE /\ op[t].pc = "delay" /\ sealMu = NoTask /\ op'[t].pc = "posted"
             /\ sealMu' = t /\ proposedBlockHash' = tasks[t] /\ UNCHANGED commitCh
    <3>1. \A u \in Task : u # NoTask
      BY DEF Task, NoTask
    <3>2. op'[t].pc # "select"
      BY <2>3
    <3>. QED BY <2>1, <2>2, <2>3, <3>1, <3>2, Zenon DEF Holder
  <2>4. CASE /\ op[t].pc = "posted" /\ op'[t].pc = "select" /\ op'[t].ch = Len(commitCh)
             /\ UNCHANGED <<sealMu, proposedBlockHash, commitCh>>
    <3>1. Len(commitCh) # 0
      BY <2>4 DEF Started
    <3>2. Len(commitCh) \in 1 .. Len(commitCh)
      BY <1>0, <3>1
    <3>. QED BY <2>1, <2>2, <2>4, <3>2, Zenon DEF Holder
  <2>5. CASE /\ op[t].pc = "delay" /\ op'[t].pc = "done"
             /\ UNCHANGED <<sealMu, proposedBlockHash, commitCh>>
    <3>1. t # sealMu
      BY <2>5 DEF Holder
    <3>. QED BY <2>1, <2>2, <2>5, <3>1, Zenon DEF Holder
  <2>6. CASE /\ op[t].pc = "select" /\ op'[t].pc = "posted"
             /\ UNCHANGED <<sealMu, proposedBlockHash>>
    <3>1. op'[t].pc # "select"
      BY <2>6
    <3>. QED BY <1>0, <2>1, <2>2, <2>6, <3>1, Zenon DEF Holder
  <2>7. CASE /\ op[t].pc = "select" /\ op'[t].pc = "done"
             /\ sealMu' = NoTask /\ proposedBlockHash' = NoBlock
    <3>1. t = sealMu /\ \A u \in Task : u # NoTask
      BY <2>7 DEF Holder, Task, NoTask
    <3>. QED BY <1>0, <2>1, <2>2, <2>7, <3>1, Zenon DEF Holder
  <2>. QED BY <1>7, <2>3, <2>4, <2>5, <2>6, <2>7, SealCases, Zenon
<1>. QED BY <1>1, <1>2, <1>3, <1>4, <1>5, <1>6, <1>7, HolderMoves, Zenon

\* Nothing runs before the first start.
LEMMA StartedStep ==
  ASSUME AgentType, OpType, CoreType, BlockType, Lock, Loops, Fresh, Started, Holder, AllSeen, Next
  PROVE  Started'
<1>. SUFFICES ASSUME Len(commitCh') = 0
              PROVE  /\ miner' = "stopped" /\ ~mining' /\ agent'.workCh = <<>> /\ core'.pc = "off"
                     /\ \A t \in Task : op'[t].pc = "none"
  BY Zenon DEF Started
<1>0. Len(commitCh) = 0
  <2>1. Len(commitCh) \in Nat /\ Len(commitCh') >= Len(commitCh)
    BY ChannelsStay DEF BlockType
  <2>. QED BY <2>1
<1>1. /\ miner = "stopped" /\ ~mining /\ agent.workCh = <<>> /\ core.pc = "off"
      /\ \A t \in Task : op[t].pc = "none"
  BY <1>0, Zenon DEF Started
<1>. DEFINE Same == /\ UNCHANGED <<miner, mining, op>> /\ agent'.workCh = agent.workCh
                    /\ core'.pc = core.pc
<1>. USE DEF workerVars, minerVars, sealVars, coreVars
<1>2. ~Start
  <2>1. Start => Len(commitCh') = Len(commitCh) + 1
    BY StartChannels, Zenon
  <2>. QED BY <1>0, <2>1
<1>3. ~Stop /\ ~StopSteps /\ ~TakeWork /\ ~CoreSteps
  BY <1>1 DEF Stop, StopSteps, StopAgent, StopEngine, Stopped, TakeWork,
             CoreSteps, Commit, CommitSend, CoreNewRound, CoreExit
<1>4. ASSUME NEW t \in Task, SealSteps(t) \/ SealRefused(t) PROVE FALSE
  <2>1. Alive(t)
    BY <1>4, SealDoes, Zenon
  <2>. QED BY <1>1, <2>1 DEF Alive
<1>5. ASSUME NEW b \in Block, Post(b) \/ CoreCommit(b) \/ InsertEnqueued(b) \/ Import(b) PROVE Same
  <2>1. ~CoreCommit(b)
    BY <1>1 DEF CoreCommit
  <2>. QED BY <1>5, <2>1, Zenon DEF Post, InsertEnqueued, Import
<1>6. ASSUME NEW g \in {"update", "miner"}, push(g) PROVE Same
  <2>1. g # "miner" /\ UNCHANGED agent
    BY <1>1, <1>6 DEF push, Lock
  <2>. QED BY <1>6, <2>1 DEF push, Done
<1>7. ASSUME NEW g \in {"update", "miner"}, commitNewWork(g) \/ NewWorkFails(g) PROVE Same
  <2>1. g # "miner"
    BY <1>1, <1>7 DEF commitNewWork, NewWorkFails, Wants
  <2>. QED BY <1>7, <2>1 DEF commitNewWork, NewWorkFails, Done
<1>8. ChainHead \/ WriteBlock => Same
  BY Zenon DEF ChainHead, WriteBlock
<1>9. CASE TakeStop
  <2>1. UNCHANGED <<miner, mining, core>>
    BY <1>9, Zenon DEF TakeStop
  <2>. QED BY <1>1, <1>9, <2>1, TakeStopDoes, TakeStopOps, Zenon
<1>10. CASE Same
  BY <1>1, <1>10, Zenon
<1>. QED BY <1>2, <1>3, <1>4, <1>5, <1>6, <1>7, <1>8, <1>9, <1>10, Zenon
         DEF Next, Worker, AgentSteps

-----------------------------------------------------------------------------
(* Blocks, the chain and what was decided. *)

\* Only these steps touch the chain and the blocks on their way to it.
LEMMA BlockMoves ==
  ASSUME Next
  PROVE  \/ UNCHANGED <<chain, recv, core, decided, enqueued>>
         \/ WriteBlock \/ Start \/ StopEngine \/ Stopped \/ CoreSteps
         \/ \E t \in Task : SealResult(t)
         \/ \E b \in Block : CoreCommit(b) \/ InsertEnqueued(b) \/ Import(b)
<1>. DEFINE Same == UNCHANGED <<chain, recv, core, decided, enqueued>>
<1>. USE DEF workerVars, minerVars, sealVars, coreVars
<1>1. ASSUME NEW g \in {"update", "miner"} PROVE push(g) \/ commitNewWork(g) \/ NewWorkFails(g) => Same
  BY Zenon DEF push, commitNewWork, NewWorkFails
<1>2. ChainHead \/ Stop \/ StopAgent \/ TakeWork \/ TakeStop => Same
  BY Zenon DEF ChainHead, Stop, StopAgent, TakeWork, TakeStop
<1>3. ASSUME NEW t \in Task
      PROVE  SealPropose(t) \/ SealSelect(t) \/ SealStopped(t) \/ SealRefused(t) => Same
  BY Zenon DEF SealPropose, SealSelect, SealStopped, SealRefused
<1>4. ASSUME NEW b \in Block PROVE Post(b) => Same
  BY Zenon DEF Post
<1>. QED BY <1>1, <1>2, <1>3, <1>4, Zenon DEF Next, Worker, StopSteps, AgentSteps, SealSteps

\* A block that gets into the chain comes next, and was decided.
LEMMA ChainGrows ==
  ASSUME BlockType, CoreType, AllSeen, Next
  PROVE  \/ UNCHANGED chain
         \/ \E b \in Block : /\ b.number = Len(chain) + 1 /\ chain' = Append(chain, b)
                             /\ decided'[b.number] = b
<1>. USE DEF workerVars, minerVars, sealVars, coreVars
<1>1. CASE WriteBlock
  <2>. DEFINE b == Head(recv)
  <2>1. recv # <<>> /\ recv \in Seq(Block) /\ UNCHANGED decided
        /\ (UNCHANGED chain \/ (b.number = Len(chain) + 1 /\ chain' = Append(chain, b)))
    BY <1>1, Zenon DEF WriteBlock, insert, BlockType
  <2>2. b = recv[1] /\ 1 \in 1 .. Len(recv)
    BY <2>1
  <2>3. Seen(b)
    BY <2>2, Zenon DEF AllSeen
  <2>. HIDE DEF b
  <2>. QED BY <2>1, <2>3, Zenon DEF Seen
<1>2. ASSUME NEW b \in Block, InsertEnqueued(b)
      PROVE  UNCHANGED chain \/ (b.number = Len(chain) + 1 /\ chain' = Append(chain, b)
                                 /\ decided'[b.number] = b)
  <2>1. Seen(b) /\ UNCHANGED decided
    BY <1>2, Zenon DEF InsertEnqueued, AllSeen
  <2>. QED BY <1>2, <2>1, Zenon DEF InsertEnqueued, insert, Seen
<1>3. ASSUME NEW b \in Block, Import(b)
      PROVE  b.number = Len(chain) + 1 /\ chain' = Append(chain, b) /\ decided'[b.number] = b
  <2>1. b.number \in Number
    BY DEF Block
  <2>. QED BY <1>3, <2>1, Zenon DEF Import, insert, Decide, CoreType
<1>4. Start \/ StopEngine \/ Stopped \/ CoreSteps => UNCHANGED chain
  BY Zenon DEF Start, StopEngine, Stopped, CoreSteps, Commit, CommitSend, CoreNewRound, CoreExit
<1>5. ASSUME NEW t \in Task, SealResult(t) PROVE UNCHANGED chain
  BY <1>5, Zenon DEF SealResult
<1>6. ASSUME NEW b \in Block, CoreCommit(b) PROVE UNCHANGED chain
  BY <1>6, Zenon DEF CoreCommit
<1>. QED BY <1>1, <1>2, <1>3, <1>4, <1>5, <1>6, BlockMoves, Zenon

\* What was decided stays decided.
LEMMA DecidedStays ==
  ASSUME CoreType, Next
  PROVE  \A b \in Block : decided[b.number] = b => decided'[b.number] = b
<1>. SUFFICES ASSUME NEW b \in Block, decided[b.number] = b PROVE decided'[b.number] = b
  OBVIOUS
<1>. USE DEF workerVars, minerVars, sealVars, coreVars
<1>1. CASE UNCHANGED decided
  BY <1>1, Zenon
<1>2. ASSUME NEW c \in Block, Agrees(c), Decide(c) PROVE decided'[b.number] = b
  <2>1. b.number \in Number /\ c.number \in Number /\ b # NoBlock
    BY DEF Block, NoBlock, Number
  <2>2. c.number = b.number => c = b
    BY <1>2, <2>1, Zenon DEF Agrees
  <2>. QED BY <1>2, <2>1, <2>2, Zenon DEF Decide, CoreType
<1>3. WriteBlock \/ Start \/ StopEngine \/ Stopped \/ CoreSteps => UNCHANGED decided
  BY Zenon DEF WriteBlock, Start, StopEngine, Stopped, CoreSteps, Commit, CommitSend,
               CoreNewRound, CoreExit
<1>4. ASSUME NEW t \in Task, SealResult(t) PROVE UNCHANGED decided
  BY <1>4, Zenon DEF SealResult
<1>5. ASSUME NEW c \in Block, InsertEnqueued(c) PROVE UNCHANGED decided
  BY <1>5, Zenon DEF InsertEnqueued
<1>. QED BY <1>1, <1>2, <1>3, <1>4, <1>5, BlockMoves, Zenon DEF CoreCommit, Import

\* The chain only grows, by decided blocks in the order of their numbers.
LEMMA ChainStep ==
  ASSUME BlockType, CoreType, AllSeen, Next
  PROVE  /\ chain' \in Seq(Block) /\ Len(chain) \in Nat /\ Len(chain') \in Nat
         /\ Len(chain') >= Len(chain)
         /\ \A n \in 1 .. Len(chain') : chain'[n].number = n /\ decided'[n] = chain'[n]
<1>0. chain \in Seq(Block) /\ Len(chain) \in Nat
  BY DEF BlockType
<1>1. \A n \in 1 .. Len(chain) : chain[n].number = n /\ decided'[n] = chain[n]
  <2>. SUFFICES ASSUME NEW n \in 1 .. Len(chain) PROVE chain[n].number = n /\ decided'[n] = chain[n]
    OBVIOUS
  <2>1. chain[n] \in Block
    BY <1>0
  <2>2. chain[n].number = n /\ decided[n] = chain[n]
    BY Zenon DEF AllSeen
  <2>. QED BY <2>1, <2>2, DecidedStays, Zenon
<1>2. CASE UNCHANGED chain
  BY <1>0, <1>1, <1>2
<1>3. ASSUME NEW b \in Block, b.number = Len(chain) + 1, chain' = Append(chain, b),
             decided'[b.number] = b
      PROVE  /\ chain' \in Seq(Block) /\ Len(chain') = Len(chain) + 1
             /\ \A n \in 1 .. Len(chain') : chain'[n].number = n /\ decided'[n] = chain'[n]
  <2>1. /\ chain' \in Seq(Block) /\ Len(chain') = Len(chain) + 1
        /\ chain'[Len(chain) + 1] = b /\ \A n \in 1 .. Len(chain) : chain'[n] = chain[n]
    BY <1>0, <1>3
  <2>2. \A n \in 1 .. Len(chain') : n \in 1 .. Len(chain) \/ n = Len(chain) + 1
    BY <1>0, <2>1
  <2>. QED BY <1>1, <1>3, <2>1, <2>2, Zenon
<1>. QED BY <1>0, <1>2, <1>3, ChainGrows

\* A block once decided and in reach of the chain stays so.
LEMMA SeenStays ==
  ASSUME BlockType, CoreType, AllSeen, Next
  PROVE  \A b : Seen(b) => b \in Block /\ decided'[b.number] = b /\ b.number <= Len(chain') + 1
<1>. SUFFICES ASSUME NEW b, Seen(b)
              PROVE  b \in Block /\ decided'[b.number] = b /\ b.number <= Len(chain') + 1
  OBVIOUS
<1>1. b \in Block /\ b.number <= Len(chain) + 1 /\ decided'[b.number] = b
  BY DecidedStays, Zenon DEF Seen
<1>2. b.number \in Nat
  BY <1>1 DEF Block, Number
<1>3. b.number <= Len(chain') + 1
  BY <1>1, <1>2, ChainStep
<1>. QED BY <1>1, <1>3, Zenon

\* A decision is a block.
LEMMA DecidedTypeStep ==
  ASSUME CoreType, Next
  PROVE  decided' \in [Number -> Block \cup {NoBlock}]
<1>. USE DEF workerVars, minerVars, sealVars, coreVars
<1>1. UNCHANGED decided => decided' \in [Number -> Block \cup {NoBlock}]
  BY Zenon DEF CoreType
<1>2. ASSUME NEW b \in Block, Decide(b) PROVE decided' \in [Number -> Block \cup {NoBlock}]
  BY <1>2, Zenon DEF Decide, CoreType
<1>3. WriteBlock \/ Start \/ StopEngine \/ Stopped \/ CoreSteps => UNCHANGED decided
  BY Zenon DEF WriteBlock, Start, StopEngine, Stopped, CoreSteps, Commit, CommitSend,
               CoreNewRound, CoreExit
<1>4. ASSUME NEW t \in Task, SealResult(t) PROVE UNCHANGED decided
  BY <1>4, Zenon DEF SealResult
<1>5. ASSUME NEW b \in Block, InsertEnqueued(b) PROVE UNCHANGED decided
  BY <1>5, Zenon DEF InsertEnqueued
<1>. QED BY <1>1, <1>2, <1>3, <1>4, <1>5, BlockMoves, Zenon DEF CoreCommit, Import

\* The core stays at a number in reach, and what it commits is decided.
LEMMA CoreStep ==
  ASSUME BlockType, CoreType, AllSeen, Next
  PROVE  /\ CoreType'
         /\ core'.pc \in {"commit", "send"} => Seen(core.block)'
         /\ core'.sequence <= Len(chain') + 1
<1>. DEFINE Good == /\ core' \in Cores
                    /\ core'.pc \in {"commit", "send"} => Seen(core.block)'
                    /\ core'.sequence <= Len(chain') + 1
<1>. SUFFICES Good
  BY DecidedTypeStep, Zenon DEF CoreType
<1>. USE DEF workerVars, minerVars, sealVars, coreVars
<1>0. /\ core \in Cores /\ core.sequence \in Nat /\ core.sequence <= Len(chain) + 1
      /\ Len(chain) \in Nat /\ Len(chain') \in Nat /\ Len(chain') >= Len(chain)
      /\ NoBlock \in Block \cup {NoBlock}
  BY ChainStep DEF AllSeen, CoreType, Cores
<1>1. core'.sequence = core.sequence => core'.sequence <= Len(chain') + 1
  BY <1>0
<1>2. CASE UNCHANGED core
  BY <1>0, <1>1, <1>2, SeenStays, Zenon DEF AllSeen, Seen
<1>3. CASE Start
  <2>1. UNCHANGED chain /\ core' = [started |-> TRUE, subscribed |-> TRUE, pc |-> "idle",
                                    block |-> NoBlock, sequence |-> Len(chain) + 1]
    BY <1>3, Zenon DEF Start
  <2>2. core' \in Cores /\ core'.pc = "idle" /\ core'.sequence = Len(chain) + 1
    BY <1>0, <2>1 DEF Cores
  <2>3. core'.sequence <= Len(chain') + 1
    BY <1>0, <2>2
  <2>4. core'.pc \notin {"commit", "send"}
    BY <2>2
  <2>. QED BY <2>2, <2>3, <2>4, Zenon
<1>4. CASE StopEngine \/ Stopped
  <2>1. core' = [core EXCEPT !.subscribed = FALSE] \/ core' = [core EXCEPT !.started = FALSE]
    BY <1>4, Zenon DEF StopEngine, Stopped
  <2>2. core' \in Cores /\ core'.pc = core.pc /\ core'.block = core.block
        /\ core'.sequence = core.sequence
    BY <1>0, <2>1, ZenonT(30) DEF Cores
  <2>. QED BY <1>1, <2>2, SeenStays, Zenon DEF AllSeen, Seen
<1>5. CASE core' = [core EXCEPT !.pc = "idle", !.block = NoBlock]
  <2>1. core' \in Cores /\ core'.pc = "idle" /\ core'.sequence = core.sequence
    <3>. DEFINE d == [core EXCEPT !.pc = "idle"]
    <3>1. core' = [d EXCEPT !.block = NoBlock]
      BY <1>5, Zenon DEF d
    <3>2. d \in Cores /\ d.pc = "idle" /\ d.sequence = core.sequence
      BY <1>0 DEF Cores
    <3>. HIDE DEF d
    <3>. QED BY <1>0, <3>1, <3>2 DEF Cores
  <2>2. core'.pc \notin {"commit", "send"}
    BY <2>1
  <2>. QED BY <1>1, <2>1, <2>2, Zenon
<1>6. CASE core.pc = "commit" /\ core' = [core EXCEPT !.pc = "send"]
  <2>1. core' \in Cores /\ core'.block = core.block /\ core'.sequence = core.sequence
    BY <1>0, <1>6 DEF Cores
  <2>2. Seen(core.block)
    BY <1>6 DEF AllSeen
  <2>. QED BY <1>1, <2>1, <2>2, SeenStays, Zenon DEF Seen
<1>7. CASE CoreNewRound
  <2>1. /\ core' = [core EXCEPT !.sequence = Len(chain) + 1] /\ core.pc = "idle"
        /\ UNCHANGED chain
    BY <1>7, Zenon DEF CoreNewRound
  <2>2. core' \in Cores /\ core'.pc = "idle" /\ core'.sequence = Len(chain) + 1
    BY <1>0, <2>1 DEF Cores
  <2>3. core'.pc \notin {"commit", "send"} /\ core'.sequence <= Len(chain') + 1
    BY <1>0, <2>1, <2>2
  <2>. QED BY <2>2, <2>3, Zenon
<1>8. CASE CoreExit
  <2>1. core' = [core EXCEPT !.pc = "off"]
    BY <1>8, Zenon DEF CoreExit
  <2>2. core' \in Cores /\ core'.pc = "off" /\ core'.sequence = core.sequence
    BY <1>0, <2>1 DEF Cores
  <2>3. core'.pc \notin {"commit", "send"}
    BY <2>2
  <2>. QED BY <1>1, <2>2, <2>3, Zenon
<1>9. ASSUME NEW b \in Block, CoreCommit(b) PROVE Good
  <2>1. /\ core' = [core EXCEPT !.pc = "commit", !.block = b]
        /\ b.number = core.sequence /\ Decide(b)
    BY <1>9, Zenon DEF CoreCommit
  <2>2. core' \in Cores /\ core'.block = b /\ core'.sequence = core.sequence
    <3>. DEFINE d == [core EXCEPT !.pc = "commit"]
    <3>1. core' = [d EXCEPT !.block = b]
      BY <2>1, Zenon DEF d
    <3>2. d \in Cores /\ d.pc = "commit" /\ d.sequence = core.sequence
      BY <1>0 DEF Cores
    <3>. HIDE DEF d
    <3>. QED BY <1>0, <3>1, <3>2 DEF Cores
  <2>3. b.number \in Number
    BY DEF Block
  <2>4. decided'[b.number] = b
    BY <2>1, <2>3, Zenon DEF Decide, CoreType
  <2>. QED BY <1>1, <2>1, <2>2, <2>4, Zenon DEF Seen
<1>10. QED
  <2>1. Commit => core' = [core EXCEPT !.pc = "idle", !.block = NoBlock]
                  \/ (core.pc = "commit" /\ core' = [core EXCEPT !.pc = "send"])
    BY Zenon DEF Commit
  <2>2. CommitSend => core' = [core EXCEPT !.pc = "idle", !.block = NoBlock]
    BY Zenon DEF CommitSend
  <2>3. WriteBlock => UNCHANGED core
    BY Zenon DEF WriteBlock
  <2>4. ASSUME NEW t \in Task, SealResult(t) PROVE UNCHANGED core
    BY <2>4, Zenon DEF SealResult
  <2>5. ASSUME NEW b \in Block, InsertEnqueued(b) \/ Import(b) PROVE UNCHANGED core
    BY <2>5, Zenon DEF InsertEnqueued, Import
  <2>. QED BY <1>2, <1>3, <1>4, <1>5, <1>6, <1>7, <1>8, <1>9, <2>1, <2>2, <2>3, <2>4, <2>5,
              BlockMoves, Zenon DEF CoreSteps

\* What is on its way to worker.wait is decided and in reach.
LEMMA RecvStep ==
  ASSUME BlockType, CoreType, Holder, AllSeen, Next
  PROVE  recv' \in Seq(Block) /\ \A i \in 1 .. Len(recv') : Seen(recv[i])'
<1>. USE DEF workerVars, minerVars, sealVars, coreVars
<1>0. recv \in Seq(Block) /\ \A i \in 1 .. Len(recv) : Seen(recv[i])
  BY Zenon DEF BlockType, AllSeen
<1>. SUFFICES recv' \in Seq(Block) /\ \A i \in 1 .. Len(recv') : Seen(recv'[i])
  BY SeenStays, Zenon DEF Seen
<1>1. CASE UNCHANGED recv
  BY <1>0, <1>1, Zenon
<1>2. CASE WriteBlock
  <2>1. recv # <<>> /\ recv' = Tail(recv)
    BY <1>2, Zenon DEF WriteBlock
  <2>2. /\ recv' \in Seq(Block) /\ Len(recv) \in Nat /\ Len(recv') = Len(recv) - 1
        /\ \A i \in 1 .. Len(recv') : recv'[i] = recv[i + 1]
    BY <1>0, <2>1, HeadTailProperties
  <2>3. \A i \in 1 .. Len(recv') : i + 1 \in 1 .. Len(recv)
    BY <2>2
  <2>. QED BY <1>0, <2>2, <2>3, Zenon
<1>3. ASSUME NEW t \in Task, SealResult(t)
      PROVE  recv' \in Seq(Block) /\ \A i \in 1 .. Len(recv') : Seen(recv'[i])
  <2>. DEFINE c == commitCh[op[t].ch]
              r == Head(c)
  <2>1. op[t].ch \in 1 .. Len(commitCh) /\ c # <<>> /\ c \in Seq(Block)
    BY <1>3, ResultChannels, Zenon
  <2>2. recv' = Append(recv, r) \/ recv' = recv
    BY <1>3, Zenon DEF SealResult
  <2>3. 1 \in 1 .. Len(c) /\ r = c[1]
    <3>. HIDE DEF c
    <3>. QED BY <2>1
  <2>4. Seen(r)
    BY <2>1, <2>3, Zenon DEF AllSeen
  <2>. HIDE DEF r
  <2>5. r \in Block
    BY <2>4, Zenon DEF Seen
  <2>6. CASE recv' = Append(recv, r)
    <3>1. /\ recv' \in Seq(Block) /\ Len(recv') = Len(recv) + 1 /\ Len(recv) \in Nat
          /\ \A i \in 1 .. Len(recv) : recv'[i] = recv[i]
          /\ recv'[Len(recv) + 1] = r
      BY <1>0, <2>5, <2>6
    <3>2. \A i \in 1 .. Len(recv') : i \in 1 .. Len(recv) \/ i = Len(recv) + 1
      BY <3>1
    <3>. QED BY <1>0, <2>4, <3>1, <3>2, Zenon
  <2>. QED BY <1>0, <2>2, <2>6, Zenon
<1>4. Start \/ StopEngine \/ Stopped \/ CoreSteps => UNCHANGED recv
  BY Zenon DEF Start, StopEngine, Stopped, CoreSteps, Commit, CommitSend, CoreNewRound, CoreExit
<1>5. ASSUME NEW b \in Block, CoreCommit(b) \/ InsertEnqueued(b) \/ Import(b) PROVE UNCHANGED recv
  BY <1>5, Zenon DEF CoreCommit, InsertEnqueued, Import
<1>. QED BY <1>1, <1>2, <1>3, <1>4, <1>5, BlockMoves, Zenon

\* What is given to the fetcher is decided and in reach.
LEMMA EnqueuedStep ==
  ASSUME BlockType, CoreType, AllSeen, Next
  PROVE  \A b \in enqueued' : Seen(b)'
<1>. USE DEF workerVars, minerVars, sealVars, coreVars
<1>1. enqueued' \subseteq enqueued \/ (enqueued' = enqueued \cup {core.block} /\ core.pc = "commit")
  <2>1. WriteBlock \/ Start \/ StopEngine \/ Stopped => UNCHANGED enqueued
    BY Zenon DEF WriteBlock, Start, StopEngine, Stopped
  <2>2. CommitSend \/ CoreNewRound \/ CoreExit => UNCHANGED enqueued
    BY Zenon DEF CommitSend, CoreNewRound, CoreExit
  <2>3. Commit => UNCHANGED enqueued \/ (enqueued' = enqueued \cup {core.block} /\ core.pc = "commit")
    BY Zenon DEF Commit
  <2>4. ASSUME NEW t \in Task, SealResult(t) PROVE UNCHANGED enqueued
    BY <2>4, Zenon DEF SealResult
  <2>5. ASSUME NEW b \in Block, CoreCommit(b) \/ InsertEnqueued(b) \/ Import(b)
        PROVE  enqueued' \subseteq enqueued
    BY <2>5, Zenon DEF CoreCommit, InsertEnqueued, Import
  <2>. QED BY <2>1, <2>2, <2>3, <2>4, <2>5, BlockMoves, Zenon DEF CoreSteps
<1>2. \A b \in enqueued' : Seen(b)
  BY <1>1, Zenon DEF AllSeen
<1>. QED BY <1>2, SeenStays, Zenon DEF Seen

\* The results in every commitCh, old ones too, are decided and in reach.
LEMMA ChannelSeenStep ==
  ASSUME BlockType, CoreType, OpType, Started, Holder, AllSeen, Next
  PROVE  \A i \in 1 .. Len(commitCh') : \A j \in 1 .. Len(commitCh'[i]) : Seen(commitCh[i][j])'
<1>. USE DEF workerVars, minerVars, sealVars, coreVars
<1>. SUFFICES \A i \in 1 .. Len(commitCh') : \A j \in 1 .. Len(commitCh'[i]) : Seen(commitCh'[i][j])
  BY SeenStays, Zenon DEF Seen
<1>0. \A i \in 1 .. Len(commitCh) : \A j \in 1 .. Len(commitCh[i]) : Seen(commitCh[i][j])
  BY Zenon DEF AllSeen
<1>1. CASE UNCHANGED commitCh
  BY <1>0, <1>1, Zenon
<1>2. CASE Start
  <2>. DEFINE n == Len(commitCh)
  <2>1. /\ Len(commitCh') = n + 1 /\ commitCh'[n + 1] = <<>>
        /\ \A i \in 1 .. n : commitCh'[i] = commitCh[i]
    BY <1>2, StartChannels, Zenon
  <2>2. n \in Nat
    BY DEF BlockType
  <2>. HIDE DEF n
  <2>3. \A i \in 1 .. Len(commitCh') : i \in 1 .. n \/ i = n + 1
    BY <2>1, <2>2
  <2>4. 1 .. Len(commitCh'[n + 1]) = {}
    BY <2>1
  <2>. QED BY <1>0, <2>1, <2>3, <2>4, Zenon DEF n
<1>3. CASE CommitSend
  <2>. DEFINE w == <<core.block>>
  <2>1. /\ Len(commitCh') = Len(commitCh)
        /\ \A i \in 1 .. Len(commitCh) :
             commitCh'[i] = IF i = Len(commitCh) THEN w ELSE commitCh[i]
    BY <1>3, SendChannels, Zenon
  <2>2. \A j \in 1 .. Len(w) : w[j] = core.block
    OBVIOUS
  <2>3. core.pc = "send"
    BY <1>3, Zenon DEF CommitSend
  <2>4. Seen(core.block)
    BY <2>3 DEF AllSeen
  <2>. HIDE DEF w
  <2>. QED BY <1>0, <2>1, <2>2, <2>4, Zenon
<1>4. ASSUME NEW t \in Task, SealResult(t)
      PROVE  \A i \in 1 .. Len(commitCh') : \A j \in 1 .. Len(commitCh'[i]) : Seen(commitCh'[i][j])
  <2>. DEFINE c == op[t].ch
              s == commitCh[c]
              w == Tail(s)
  <2>1. /\ c \in 1 .. Len(commitCh) /\ s # <<>> /\ s \in Seq(Block) /\ Len(commitCh') = Len(commitCh)
        /\ \A i \in 1 .. Len(commitCh) : commitCh'[i] = IF i = c THEN w ELSE commitCh[i]
    BY <1>4, ResultChannels, Zenon
  <2>2. \A j \in 1 .. Len(s) : Seen(s[j])
    BY <1>0, <2>1, Zenon
  <2>. HIDE DEF s
  <2>3. Len(w) = Len(s) - 1 /\ Len(s) \in Nat /\ \A j \in 1 .. Len(w) : w[j] = s[j + 1]
    BY <2>1, HeadTailProperties
  <2>4. \A j \in 1 .. Len(w) : j + 1 \in 1 .. Len(s)
    BY <2>3
  <2>5. \A j \in 1 .. Len(w) : Seen(w[j])
    BY <2>2, <2>3, <2>4, Zenon
  <2>. HIDE DEF w, c
  <2>. QED BY <1>0, <2>1, <2>5, Zenon
<1>5. ASSUME NEW g \in {"update", "miner"}, commitNewWork(g) PROVE UNCHANGED commitCh
  BY <1>5, NewWorkDoes, Zenon
<1>6. TakeWork \/ TakeStop => UNCHANGED commitCh
  BY Zenon DEF TakeWork, TakeStop
<1>7. ASSUME NEW t \in Task, SealSteps(t) \/ SealRefused(t)
      PROVE  SealResult(t) \/ UNCHANGED commitCh
  BY <1>7, SealCases, Zenon
<1>. QED BY <1>1, <1>2, <1>3, <1>4, <1>5, <1>6, <1>7, HolderMoves, Zenon

\* All blocks on their way to the chain stay decided and in reach.
LEMMA AllSeenStep ==
  ASSUME BlockType, CoreType, OpType, Started, Holder, AllSeen, Next
  PROVE  AllSeen'
BY ChainStep, RecvStep, ChannelSeenStep, EnqueuedStep, CoreStep, Zenon DEF AllSeen

\* Chain, tasks, results and channels stay sequences of blocks.
LEMMA BlockTypeStep ==
  ASSUME AgentType, OpType, CoreType, BlockType, Loops, Fresh, Started, Holder, AllSeen, Next
  PROVE  BlockType'
<1>1. /\ tasks' \in Seq(Block) /\ Len(tasks') <= MaxTasks
      /\ current' = NoBlock \/ current' \in Block
  <2>1. UNCHANGED <<tasks, current>> => /\ tasks' \in Seq(Block) /\ Len(tasks') <= MaxTasks
                                        /\ current' = NoBlock \/ current' \in Block
    BY Zenon DEF BlockType
  <2>2. ASSUME NEW g \in {"update", "miner"}, push(g)
        PROVE  UNCHANGED tasks /\ current' = NoBlock
    BY <2>2, Zenon DEF push
  <2>3. StopAgent \/ TakeWork \/ TakeStop => UNCHANGED <<tasks, current>>
    BY Zenon DEF StopAgent, TakeWork, TakeStop, workerVars
  <2>4. ASSUME NEW t \in Task, SealSteps(t) \/ SealRefused(t) PROVE UNCHANGED <<tasks, current>>
    BY <2>4, SealDoes, Zenon
  <2>. QED BY <2>1, <2>2, <2>3, <2>4, WorkMoves, NewWorkDoes, Zenon DEF BlockType
<1>2. sealMu' \in Task \cup {NoTask}
  <2>1. UNCHANGED sealMu => sealMu' \in Task \cup {NoTask}
    BY Zenon DEF BlockType
  <2>2. ASSUME NEW t \in Task, SealSteps(t) \/ SealRefused(t) PROVE sealMu' \in {sealMu, t, NoTask}
    BY <2>2, SealCases, Zenon
  <2>3. Start \/ CommitSend \/ TakeWork \/ TakeStop => UNCHANGED sealMu
    BY Zenon DEF Start, CommitSend, TakeWork, TakeStop, sealVars
  <2>4. sealMu \in Task \cup {NoTask}
    BY Zenon DEF BlockType
  <2>. QED BY <2>1, <2>2, <2>3, <2>4, HolderMoves, NewWorkDoes, Zenon
<1>. QED BY <1>1, <1>2, ChainStep, RecvStep, ChannelsStay, Zenon DEF BlockType

-----------------------------------------------------------------------------
(* The invariant and what follows from it. *)

\* IInv holds at the first start.
LEMMA InitIInv ==
  ASSUME Init
  PROVE  IInv
<1>. USE SealingAssumption
<1>1. AgentType /\ OpType
  BY DEF Init, AgentType, Agents, OpType, Ops, NoTask
<1>2. CoreType
  BY DEF Init, CoreType, Cores
<1>3. BlockType
  BY DEF Init, BlockType, NoTask
<1>4. Lock /\ Loops /\ Started
  BY DEF Init, Lock, Loops, Owed, Started
<1>5. Fresh /\ SupersededStopped /\ Holder
  BY DEF Init, Fresh, SupersededStopped, Alive, Holder, Task, NoTask
<1>6. AllSeen
  BY DEF Init, AllSeen
<1>. QED BY <1>1, <1>2, <1>3, <1>4, <1>5, <1>6, Zenon DEF IInv

\* Every step keeps IInv.
LEMMA NextIInv ==
  ASSUME IInv, [Next]_vars
  PROVE  IInv'
<1>1. CASE Next
  BY <1>1, AgentTypeStep, OpTypeStep, CoreStep, BlockTypeStep, LockStep, LoopsStep, StartedStep,
     FreshStep, SupersededStep, HolderStep, AllSeenStep, Zenon DEF IInv
<1>2. CASE UNCHANGED vars
  <2>. USE <1>2 DEF vars, workerVars, minerVars, sealVars, coreVars
  <2>1. AgentType' /\ OpType' /\ CoreType' /\ BlockType'
    BY Zenon DEF IInv, AgentType, OpType, CoreType, BlockType
  <2>2. Lock' /\ Loops' /\ Started'
    BY Zenon DEF IInv, Lock, Loops, Owed, Started
  <2>3. Fresh' /\ SupersededStopped' /\ Holder'
    BY Zenon DEF IInv, Fresh, SupersededStopped, Alive, Holder
  <2>4. AllSeen'
    BY ZenonT(60) DEF IInv, AllSeen, Seen
  <2>. QED BY <2>1, <2>2, <2>3, <2>4, Zenon DEF IInv
<1>. QED BY <1>1, <1>2, Zenon

\* IInv is an invariant of Sealing.
LEMMA SealingInvariant == Spec => []IInv
BY InitIInv, NextIInv, PTL DEF Spec

\* The agent always has one update loop for the running miner and one for each
\* stop signal still in its channel, however Start and Stop race with the loops
\* (agent.go:62-109).
THEOREM SealingLoopsMatchSignals == Spec => []LoopsMatchSignals
<1>1. IInv => LoopsMatchSignals
  BY Zenon DEF IInv, Loops, Owed, LoopsMatchSignals
<1>. QED BY <1>1, SealingInvariant, PTL

\* Every Seal in progress but the newest task's has been told to stop
\* (agent.go:88-107).
THEOREM SealingSupersededStopped == Spec => []SupersededStopped
<1>1. IInv => SupersededStopped
  BY Zenon DEF IInv
<1>. QED BY <1>1, SealingInvariant, PTL

\* The hash that Commit reads without sealMu is the one of the Seal that holds
\* sealMu (engine.go:616-623, backend.go:322).
THEOREM SealingProposedByHolder == Spec => []ProposedByHolder
<1>1. ASSUME IInv PROVE ProposedByHolder
  <2>1. /\ proposedBlockHash # NoBlock => sealMu # NoTask /\ proposedBlockHash = tasks[sealMu]
        /\ sealMu \in Task \cup {NoTask}
    BY <1>1, Zenon DEF IInv, Holder, BlockType
  <2>2. sealMu # NoTask => op[sealMu].pc \in {"posted", "select"}
    BY <1>1, <2>1, Zenon DEF IInv, Holder
  <2>3. sealMu # NoTask => Alive(sealMu)
    BY <2>2 DEF Alive
  <2>. QED BY <2>1, <2>3, Zenon DEF ProposedByHolder
<1>. QED BY <1>1, SealingInvariant, PTL

\* A block that Seal returned is the decided one, and is in the chain or extends
\* it, whatever results earlier tasks and starts left in commitCh
\* (engine.go:631-648, backend.go:315-331).
THEOREM SealingSealedIsDecided == Spec => []SealedIsDecided
<1>1. ASSUME IInv PROVE SealedIsDecided
  <2>. SUFFICES ASSUME NEW i \in DOMAIN recv
                PROVE  /\ recv[i] = decided[recv[i].number]
                       /\ recv[i].number <= Len(chain) + 1
                       /\ recv[i].number <= Len(chain) => chain[recv[i].number] = recv[i]
    BY Zenon DEF SealedIsDecided
  <2>. DEFINE b == recv[i]
  <2>1. recv \in Seq(Block) /\ chain \in Seq(Block)
    BY <1>1, Zenon DEF IInv, BlockType
  <2>2. i \in 1 .. Len(recv) /\ Len(chain) \in Nat
    BY <2>1
  <2>3. Seen(b)
    BY <1>1, <2>2, Zenon DEF IInv, AllSeen
  <2>. HIDE DEF b
  <2>4. b \in Block /\ b = decided[b.number] /\ b.number <= Len(chain) + 1
    BY <2>3, Zenon DEF Seen
  <2>5. b.number <= Len(chain) => b.number \in 1 .. Len(chain)
    BY <2>2, <2>4 DEF Block, Number
  <2>6. b.number <= Len(chain) => decided[b.number] = chain[b.number]
    BY <1>1, <2>5, Zenon DEF IInv, AllSeen
  <2>. QED BY <2>4, <2>6, Zenon DEF b
<1>. QED BY <1>1, SealingInvariant, PTL

=============================================================================
