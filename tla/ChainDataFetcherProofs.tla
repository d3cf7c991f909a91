----------------------- MODULE ChainDataFetcherProofs -----------------------
(***************************************************************************)
(* The checkpoint of the chain data fetcher never passes a block that was  *)
(* not exported, for any number of handlers, blocks, calls and faults.     *)
(***************************************************************************)
EXTENDS ChainDataFetcher, WellFoundedInduction, TLAPS

\* What a handler knows of its block at each point.
HandlerSound(r) ==
  /\ r.pc = "handle" => r.block \in Block
  /\ r.pc = "update" => r.block \in handled
  /\ r.pc = "write" => r.block \in 0 .. (MaxHead + 1) /\ Exported(r.origin, r.block)

\* The inductive invariant.  CheckpointSound alone is not inductive: a step of
\* updateCheckpoint relies on the map and on the handler's own block, and the
\* write that follows on what the handler has computed under the lock.
Sound ==
  /\ checkpointMap \subseteq handled
  /\ CheckpointSound
  /\ \A h \in Handlers : HandlerSound(handler[h])
  /\ api.pc = "write" => api.block \in Block

IInv == TypeOK /\ Sound

(***************************************************************************)
(* Operators                                                               *)
(***************************************************************************)

\* newCheckpoint finds the first block that is not in the map: there is one, as
\* the map holds no block past the last.
LEMMA NewCheckpoint ==
  ASSUME NEW c \in 0 .. (MaxHead + 1), NEW m, m \subseteq Block
  PROVE  /\ newCheckpoint(c, m) \in c .. (MaxHead + 1)
         /\ newCheckpoint(c, m) \notin m
         /\ \A k \in c .. (newCheckpoint(c, m) - 1) : k \in m
<1> DEFINE S == {n \in c .. (MaxHead + 1) : n \notin m}
<1>1. S \subseteq Nat /\ S # {}
  BY FetcherAssumption DEF Block
<1>2. PICK x \in S : \A y \in S : ~(<<y, x>> \in OpToRel(<, Nat))
  <2> HIDE DEF S
  <2> QED
    BY <1>1, NatLessThanWellFounded, WFMin
<1>3. \A y \in S : ~(y < x)
  <2> HIDE DEF S
  <2> QED
    BY <1>1, <1>2, ZenonT(30) DEF OpToRel
<1>4. x \in c .. (MaxHead + 1) /\ x \notin m
  OBVIOUS
<1>5. \A k \in c .. (x - 1) : k \in m
  <2> SUFFICES ASSUME NEW k \in c .. (x - 1), k \notin m PROVE FALSE
    OBVIOUS
  <2>1. k \in S /\ k < x
    BY <1>4, FetcherAssumption
  <2> QED
    BY <2>1, <1>3
<1> QED
  BY <1>4, <1>5 DEF newCheckpoint

\* The records that handlers, senders and calls start from are well typed.
LEMMA Records ==
  /\ Idle \in Handler /\ Idle.pc = "idle"
  /\ NoSender \in Sender
  /\ [pc |-> "start", block |-> 0] \in Api /\ [pc |-> "idle", block |-> 0] \in Api
BY DEF Idle, Job, Handler, PausePC, NoSender, Sender, Api

\* A handler that becomes idle or moves on keeps its type, its block and its flags.
LEMMA HandlerMoves ==
  ASSUME NEW H \in [Handlers -> Handler], NEW h \in Handlers,
         NEW p \in {"idle", "request", "handle", "update", "write"} \cup PausePC
  PROVE  /\ [H EXCEPT ![h] = Idle] \in [Handlers -> Handler]
         /\ [H EXCEPT ![h].pc = p] \in [Handlers -> Handler]
         /\ [H EXCEPT ![h].pc = p][h].pc = p
         /\ [H EXCEPT ![h].pc = p][h].block = H[h].block
         /\ [H EXCEPT ![h].pc = p][h].origin = H[h].origin
         /\ \A k \in Handlers : k # h => [H EXCEPT ![h].pc = p][k] = H[k]
<1>1. [H EXCEPT ![h] = Idle] \in [Handlers -> Handler]
  BY Records
<1>2. [H[h] EXCEPT !.pc = p] \in Handler
  BY ZenonT(60) DEF Handler
<1>3. /\ [H[h] EXCEPT !.pc = p].pc = p
      /\ [H[h] EXCEPT !.pc = p].block = H[h].block
      /\ [H[h] EXCEPT !.pc = p].origin = H[h].origin
  BY DEF Handler
<1> QED
  BY <1>1, <1>2, <1>3

(***************************************************************************)
(* Initial states and steps                                                *)
(***************************************************************************)

\* The inductive invariant holds at the start.
LEMMA InitIInv == Init => IInv
<1> SUFFICES ASSUME Init PROVE IInv
  OBVIOUS
<1>1. TypeOK
  <2>1. handler \in [Handlers -> Handler] /\ api \in Api /\ sender \in Sender /\ rangeSender \in Sender
    BY Records DEF Init
  <2>2. /\ head \in Block /\ checkpoint \in 0 .. (MaxHead + 1) /\ origin \in Nat
        /\ stored \in 0 .. (MaxHead + 1) /\ storedOrigin \in Nat
    BY FetcherAssumption DEF Init, Block
  <2>3. chainCh \in Seq(Block) /\ reqCh \in Seq(Request)
    BY DEF Init
  <2> QED
    BY <2>1, <2>2, <2>3, ZenonT(30) DEF Init, TypeOK
<1>2. Sound
  BY Records, FetcherAssumption DEF Init, Sound, CheckpointSound, Exported, HandlerSound, Idle, Job
<1> QED
  BY <1>1, <1>2 DEF IInv

\* Steps that leave the handlers, the checkpoints and the exported blocks alone.
LEMMA Untouched ==
  ASSUME Sound, UNCHANGED <<handler, pointVars, dbVars, handled>>,
         api'.pc = "write" => api'.block \in Block
  PROVE  Sound'
BY DEF Sound, CheckpointSound, Exported, HandlerSound, pointVars, dbVars

\* The steps of the chain keep it,
LEMMA ChainStep ==
  ASSUME IInv, ChainSteps
  PROVE  IInv'
<1> USE FetcherAssumption
<1>1. Sound'
  BY Untouched DEF IInv, Sound, ChainSteps, NewBlock, PostChainEvent
<1>2. CASE NewBlock
  BY <1>1, <1>2 DEF IInv, TypeOK, NewBlock, Block, sendVars, pointVars, dbVars
<1>3. CASE \E n \in Block : PostChainEvent(n)
  BY <1>1, <1>3 DEF IInv, TypeOK, PostChainEvent, sendVars, pointVars, dbVars
<1> QED
  BY <1>2, <1>3 DEF ChainSteps

\* and those of the two senders.
LEMMA SenderStep ==
  ASSUME IInv, SenderSteps \/ SenderEnds \/ RangeSteps
  PROVE  IInv'
<1>1. Sound'
  <2>1. CASE LaunchSender
    BY <2>1, Untouched DEF IInv, LaunchSender
  <2>2. CASE SenderStarts \/ SendRequest \/ SenderEnds \/ SendRangeRequest \/ RangeSenderEnds
    <3>1. UNCHANGED <<handler, api, pointVars, dbVars, handled>>
      BY <2>2, ZenonT(30) DEF SenderStarts, SendRequest, SenderEnds, SendRangeRequest, RangeSenderEnds
    <3> QED
      BY <3>1, Untouched DEF IInv, Sound
  <2> QED
    BY <2>1, <2>2 DEF SenderSteps, RangeSteps
<1>2. sender' \in Sender /\ rangeSender' \in Sender /\ reqCh' \in Seq(Request) /\ api' \in Api
  <2>1. CASE LaunchSender
    BY <2>1, Records DEF IInv, TypeOK, LaunchSender, Sender, Block
  <2>2. CASE SenderStarts
    <3>1. checkpoint \in Nat
      BY FetcherAssumption DEF IInv, TypeOK
    <3>2. [sender EXCEPT !.pc = "sending", !.next = checkpoint] \in Sender
      BY <3>1, ZenonT(60) DEF IInv, TypeOK, Sender
    <3> QED
      BY <2>2, <3>2 DEF IInv, TypeOK, SenderStarts
  <2>3. ASSUME NEW s \in Sender
        PROVE  [s EXCEPT !.next = @ + 1] \in Sender
    <3>1. s.next + 1 \in Nat
      BY <2>3 DEF Sender
    <3> QED
      BY <2>3, <3>1, ZenonT(60) DEF Sender
  <2>4. ASSUME NEW s \in Sender, NEW u \in BOOLEAN, Send(s, u)
        PROVE  reqCh' \in Seq(Request)
    <3>1. [block |-> s.next, update |-> u] \in Request
      BY <2>4 DEF Sender, Request
    <3> QED
      BY <2>4, <3>1 DEF Send, IInv, TypeOK
  <2>5. CASE SendRequest
    BY <2>3, <2>4, <2>5, ZenonT(30) DEF IInv, TypeOK, SendRequest
  <2>6. CASE SendRangeRequest
    BY <2>3, <2>4, <2>6, ZenonT(30) DEF IInv, TypeOK, SendRangeRequest
  <2>7. CASE SenderEnds \/ RangeSenderEnds
    BY <2>7, Records DEF IInv, TypeOK, SenderEnds, RangeSenderEnds
  <2> QED
    BY <2>1, <2>2, <2>5, <2>6, <2>7 DEF SenderSteps, RangeSteps
<1>3. /\ UNCHANGED <<chainVars, chainCh, subscribed, fetching, handler, pointVars, dbVars, handled,
                     failed, calls, faults>>
      /\ rangeFetching' \in BOOLEAN
  BY ZenonT(30) DEF IInv, TypeOK, SenderSteps, RangeSteps, LaunchSender, SenderStarts, SendRequest, SenderEnds,
     SendRangeRequest, RangeSenderEnds
<1> QED
  BY <1>1, <1>2, <1>3 DEF IInv, TypeOK, chainVars, pointVars, dbVars

\* A stop signal keeps the types of the senders.
LEMMA SignalType ==
  ASSUME NEW s \in Sender
  PROVE  Signal(s) \in Sender
<1>1. (s.pc # "none") \in BOOLEAN
  OBVIOUS
<1> QED
  BY <1>1, ZenonT(60) DEF Signal, Sender

\* Both stops keep the types of the senders.
LEMMA StopTypes ==
  ASSUME TypeOK, stopFetching \/ stopRangeFetching
  PROVE  /\ subscribed' \in BOOLEAN /\ fetching' \in BOOLEAN /\ sender' \in Sender
         /\ rangeFetching' \in BOOLEAN /\ rangeSender' \in Sender
BY SignalType, ZenonT(30) DEF TypeOK, stopFetching, stopRangeFetching

\* The calls of the API keep the invariant.
LEMMA ApiStep ==
  ASSUME IInv, ApiSteps
  PROVE  IInv'
<1> USE FetcherAssumption
<1>1. ASSUME NEW n \in Block, SetCheckpoint(n)
      PROVE  IInv'
  <2>1. TypeOK'
    <3>1. [pc |-> "write", block |-> n] \in Api /\ n \in Nat /\ n \in 0 .. (MaxHead + 1)
      BY DEF Api, Block
    <3>2. api' \in Api /\ calls' \in Nat /\ checkpoint' \in 0 .. (MaxHead + 1) /\ origin' \in Nat
      BY <1>1, <3>1 DEF SetCheckpoint, NewCall, Call, IInv, TypeOK
    <3>3. UNCHANGED <<chainVars, chainCh, reqCh, sendVars, handler, checkpointMap, dbVars, handled,
                      failed, faults>>
      BY <1>1 DEF SetCheckpoint
    <3> QED
      BY <3>2, <3>3 DEF IInv, TypeOK, chainVars, sendVars, dbVars
  <2>2. Sound'
    BY <1>1 DEF SetCheckpoint, NewCall, Call, IInv, Sound, CheckpointSound, Exported, HandlerSound,
       Block, dbVars
  <2> QED
    BY <2>1, <2>2 DEF IInv
<1>2. CASE SetStored
  <2>1. TypeOK'
    BY <1>2, Records DEF SetStored, IInv, Sound, TypeOK, Block, chainVars, sendVars, pointVars
  <2>2. Sound'
    BY <1>2 DEF SetStored, IInv, Sound, CheckpointSound, Exported, HandlerSound, Block, pointVars
  <2> QED
    BY <2>1, <2>2 DEF IInv
<1>3. CASE StartFetching \/ StopFetching \/ StopRangeFetching \/ StopReturns
           \/ \E r \in Ranges : StartRangeFetching(r)
  <2>1. /\ UNCHANGED <<chainVars, chainCh, reqCh, handler, pointVars, dbVars, handled, failed, faults>>
        /\ api'.pc # "write" /\ api' \in Api /\ calls' \in Nat
    <3>1. UNCHANGED <<chainVars, chainCh, reqCh, handler, pointVars, dbVars, handled, failed, faults>>
      BY <1>3 DEF StartFetching, StopFetching, StopRangeFetching, StopReturns, StartRangeFetching
    <3>2. \E pc \in {"subscribed", "stop wait", "range wait", "idle"} :
            api' = [pc |-> pc, block |-> 0]
      BY <1>3 DEF StartFetching, StopFetching, StopRangeFetching, StopReturns, StartRangeFetching,
         NewCall, Call
    <3>3. calls' \in Nat
      <4>1. calls' = calls \/ calls' = calls + 1
        BY <1>3 DEF StartFetching, StopFetching, StopRangeFetching, StopReturns,
           StartRangeFetching, NewCall
      <4> QED
        BY <4>1 DEF IInv, TypeOK
    <3>4. api' \in Api /\ api'.pc # "write"
      <4>1. PICK pc \in {"subscribed", "stop wait", "range wait", "idle"} :
              api' = [pc |-> pc, block |-> 0]
        BY <3>2
      <4>2. api'.pc = pc
        BY <4>1
      <4>3. [pc |-> pc, block |-> 0] \in Api
        BY DEF Api
      <4> QED
        BY <4>1, <4>2, <4>3
    <3> QED
      BY <3>1, <3>3, <3>4
  <2>2. /\ subscribed' \in BOOLEAN /\ fetching' \in BOOLEAN /\ sender' \in Sender
        /\ rangeFetching' \in BOOLEAN /\ rangeSender' \in Sender
    <3>1. CASE StopFetching \/ StopRangeFetching
      BY <3>1, StopTypes DEF IInv, StopFetching, StopRangeFetching
    <3>2. CASE StartFetching \/ StopReturns
      BY <3>2 DEF IInv, TypeOK, StartFetching, StopReturns, sendVars
    <3>3. CASE \E r \in Ranges : StartRangeFetching(r)
      BY <3>3 DEF IInv, TypeOK, StartRangeFetching, Sender
    <3> QED
      BY <1>3, <3>1, <3>2, <3>3
  <2>3. Sound'
    BY <2>1, Untouched DEF IInv
  <2> QED
    BY <2>1, <2>2, <2>3 DEF IInv, TypeOK, chainVars, pointVars, dbVars
<1> QED
  BY <1>1, <1>2, <1>3 DEF ApiSteps

\* A handler takes a block from a channel.
LEMMA TakeStep ==
  ASSUME IInv, NEW h \in Handlers, TakeSteps(h)
  PROVE  IInv'
<1>1. PICK r \in Handler :
        /\ handler' = [handler EXCEPT ![h] = r]
        /\ r.pc \in {"handle", "request"}
        /\ r.pc = "handle" => r.block \in Block
        /\ chainCh' \in Seq(Block) /\ reqCh' \in Seq(Request)
  <2>1. CASE TakeEvent(h)
    <3>1. Head(chainCh) \in Block /\ Tail(chainCh) \in Seq(Block)
      BY <2>1 DEF TakeEvent, IInv, TypeOK
    <3>2. Job("handle", Head(chainCh), TRUE) \in Handler
      BY <3>1 DEF Job, Handler, Block
    <3>3. /\ Job("handle", Head(chainCh), TRUE).pc = "handle"
          /\ Job("handle", Head(chainCh), TRUE).block = Head(chainCh)
      BY DEF Job
    <3>4. /\ handler' = [handler EXCEPT ![h] = Job("handle", Head(chainCh), TRUE)]
          /\ chainCh' = Tail(chainCh) /\ reqCh' = reqCh
      BY <2>1 DEF TakeEvent
    <3> QED
      BY <3>1, <3>2, <3>3, <3>4, ZenonT(30) DEF IInv, TypeOK
  <2>2. CASE TakeRequest(h)
    <3> DEFINE q == Head(reqCh)
    <3>1. q \in Request /\ Tail(reqCh) \in Seq(Request)
      BY <2>2 DEF TakeRequest, IInv, TypeOK
    <3>2. Job("request", q.block, q.update) \in Handler
      BY <3>1 DEF Job, Handler, Request
    <3>3. Job("request", q.block, q.update).pc = "request"
      BY DEF Job
    <3>4. /\ handler' = [handler EXCEPT ![h] = Job("request", q.block, q.update)]
          /\ reqCh' = Tail(reqCh) /\ chainCh' = chainCh
      BY <2>2 DEF TakeRequest
    <3> QED
      BY <3>1, <3>2, <3>3, <3>4, ZenonT(30) DEF IInv, TypeOK
  <2> QED
    BY <2>1, <2>2 DEF TakeSteps
<1>2. UNCHANGED <<chainVars, sendVars, api, pointVars, dbVars, handled, failed, calls, faults>>
  BY ZenonT(30) DEF TakeSteps, TakeEvent, TakeRequest
<1>3. TypeOK'
  BY <1>1, <1>2 DEF IInv, TypeOK, chainVars, sendVars, pointVars, dbVars
<1>4. Sound'
  BY <1>1, <1>2 DEF IInv, TypeOK, Sound, CheckpointSound, Exported, HandlerSound, pointVars, dbVars
<1> QED
  BY <1>3, <1>4 DEF IInv

\* Steps after which the handler is idle, at a request or in pause, and which
\* leave the checkpoints and the exported blocks alone.
LEMMA HandlerLeaves ==
  ASSUME IInv, NEW h \in Handlers,
         \/ Finish(h)
         \/ \E pc \in PausePC : Become(h, pc),
         UNCHANGED <<api, pointVars, dbVars, handled>>
  PROVE  handler' \in [Handlers -> Handler] /\ Sound'
<1>1. handler' \in [Handlers -> Handler]
  <2>1. CASE Finish(h)
    BY <2>1, Records DEF IInv, TypeOK, Finish
  <2>2. ASSUME NEW pc \in PausePC, Become(h, pc)
        PROVE  handler' \in [Handlers -> Handler]
    BY <2>2, HandlerMoves DEF IInv, TypeOK, Become
  <2> QED
    BY <2>1, <2>2
<1>2. \A k \in Handlers : k # h => handler'[k] = handler[k]
  BY DEF IInv, TypeOK, Finish, Become
<1>3. handler'[h].pc \notin {"handle", "update", "write"}
  BY Records DEF IInv, TypeOK, Handler, Finish, Become, PausePC
<1>4. \A k \in Handlers : HandlerSound(handler[k])'
  BY <1>2, <1>3 DEF IInv, Sound, HandlerSound, Exported
<1> QED
  BY <1>1, <1>4 DEF IInv, Sound, CheckpointSound, Exported, pointVars, dbVars

\* The steps in which a handler exports its block.
LEMMA ExportStep ==
  ASSUME IInv, NEW h \in Handlers,
         MakeChainEvent(h) \/ MakeChainEventFails(h) \/ Handle(h) \/ GiveUp(h)
  PROVE  IInv'
<1> USE FetcherAssumption
<1>1. handler \in [Handlers -> Handler] /\ handler[h] \in Handler /\ handler[h].block \in Nat
  BY DEF IInv, TypeOK, Handler
<1>2. UNCHANGED <<chainVars, chainCh, reqCh, sendVars, api, pointVars, dbVars, calls>>
  BY DEF MakeChainEvent, MakeChainEventFails, Handle, GiveUp
<1>3. faults' \in Nat
  <2>1. faults' = faults \/ faults' = faults + 1
    BY DEF MakeChainEvent, MakeChainEventFails, Handle, GiveUp
  <2> QED
    BY <2>1 DEF IInv, TypeOK
<1>4. failed' \subseteq Nat
  <2>1. failed' = failed \/ failed' = failed \cup {handler[h].block}
    BY DEF MakeChainEvent, MakeChainEventFails, Handle, GiveUp
  <2> QED
    BY <2>1, <1>1, ZenonT(30) DEF IInv, TypeOK
<1>5. handler' \in [Handlers -> Handler] /\ handled' \subseteq Block /\ Sound'
  <2>1. CASE MakeChainEvent(h)
    <3>1. handler[h].block \in Block /\ handled' = handled
      BY <2>1, <1>1 DEF MakeChainEvent, IInv, TypeOK, Block
    <3>2. /\ handler' \in [Handlers -> Handler]
          /\ handler'[h].pc = "handle" /\ handler'[h].block = handler[h].block
          /\ \A k \in Handlers : k # h => handler'[k] = handler[k]
      BY <2>1, <1>1, HandlerMoves DEF MakeChainEvent, Become
    <3>3. \A k \in Handlers : HandlerSound(handler[k])'
      BY <3>1, <3>2 DEF IInv, Sound, HandlerSound, Exported
    <3> QED
      BY <1>2, <3>1, <3>2, <3>3 DEF IInv, TypeOK, Sound, CheckpointSound, Exported, pointVars, dbVars
  <2>2. CASE Handle(h) /\ handler[h].update
    <3>1. handled' = handled \cup {handler[h].block} /\ handler[h].block \in Block
      BY <2>2 DEF Handle, IInv, Sound, HandlerSound
    <3>2. /\ handler' \in [Handlers -> Handler]
          /\ handler'[h].pc = "update" /\ handler'[h].block = handler[h].block
          /\ \A k \in Handlers : k # h => handler'[k] = handler[k]
      <4>1. handler' = [handler EXCEPT ![h].pc = "update"]
        BY <2>2 DEF Handle, Become
      <4> QED
        BY <4>1, <1>1, HandlerMoves
    <3>3. \A k \in Handlers : HandlerSound(handler[k])'
      BY <3>1, <3>2 DEF IInv, Sound, HandlerSound, Exported
    <3> QED
      BY <1>2, <3>1, <3>2, <3>3 DEF IInv, TypeOK, Sound, CheckpointSound, Exported, pointVars, dbVars
  <2>3. CASE MakeChainEventFails(h) \/ (Handle(h) /\ ~handler[h].update) \/ GiveUp(h)
    <3>1. handled' = handled /\ (Finish(h) \/ \E pc \in PausePC : Become(h, pc))
      BY <2>3 DEF MakeChainEventFails, Handle, GiveUp, PausePC
    <3> QED
      BY <1>2, <3>1, HandlerLeaves DEF IInv, TypeOK
  <2> QED
    BY <2>1, <2>2, <2>3
<1> QED
  BY <1>2, <1>3, <1>4, <1>5 DEF IInv, TypeOK, chainVars, sendVars, pointVars, dbVars

\* A handler pauses the fetcher.
LEMMA PauseStep ==
  ASSUME IInv, NEW h \in Handlers, Pause(h) \/ PauseRange(h) \/ Reset(h)
  PROVE  IInv'
<1>1. /\ UNCHANGED <<chainVars, api, pointVars, dbVars, handled, failed, calls, faults>>
      /\ Finish(h) \/ \E pc \in PausePC : Become(h, pc)
  BY ZenonT(30) DEF Pause, PauseRange, Reset, PausePC
<1>2. handler' \in [Handlers -> Handler] /\ Sound'
  BY <1>1, HandlerLeaves
<1>3. chainCh' \in Seq(Block) /\ reqCh' \in Seq(Request)
  <2>1. UNCHANGED <<chainCh, reqCh>> \/ (chainCh' = <<>> /\ reqCh' = <<>>)
    BY ZenonT(30) DEF Pause, PauseRange, Reset
  <2>2. <<>> \in Seq(Block) /\ <<>> \in Seq(Request)
    OBVIOUS
  <2>3. chainCh \in Seq(Block) /\ reqCh \in Seq(Request)
    BY DEF IInv, TypeOK
  <2> QED
    BY <2>1, <2>2, <2>3, ZenonT(30)
<1>4. /\ subscribed' \in BOOLEAN /\ fetching' \in BOOLEAN /\ sender' \in Sender
      /\ rangeFetching' \in BOOLEAN /\ rangeSender' \in Sender
  <2>1. stopFetching \/ stopRangeFetching \/ UNCHANGED sendVars
    BY DEF Pause, PauseRange, Reset
  <2> QED
    BY <2>1, StopTypes DEF IInv, TypeOK, sendVars
<1> QED
  BY <1>1, <1>2, <1>3, <1>4 DEF IInv, TypeOK, chainVars, pointVars, dbVars

\* A handler records its block and moves the checkpoint over the blocks that are
\* exported.
LEMMA UpdateStep ==
  ASSUME IInv, NEW h \in Handlers, updateCheckpoint(h)
  PROVE  IInv'
<1> USE FetcherAssumption
<1> DEFINE m == checkpointMap \cup {handler[h].block}
           n == newCheckpoint(checkpoint, m)
           r == [handler[h] EXCEPT !.pc = "write", !.block = n, !.origin = origin]
<1>1. /\ handler \in [Handlers -> Handler] /\ handler[h] \in Handler
      /\ checkpoint \in 0 .. (MaxHead + 1) /\ origin \in Nat /\ handled \subseteq Block
  BY DEF IInv, TypeOK
<1>2. m \subseteq handled /\ m \subseteq Block
  <2>1. handler[h].pc = "update"
    BY DEF updateCheckpoint
  <2> QED
    BY <1>1, <2>1 DEF IInv, Sound, HandlerSound
<1>3. /\ n \in checkpoint .. (MaxHead + 1)
      /\ \A k \in checkpoint .. (n - 1) : k \in m
  <2> HIDE DEF m
  <2> QED
    BY <1>1, <1>2, NewCheckpoint
<1>4. /\ checkpointMap' = m \ (checkpoint .. (n - 1))
      /\ checkpoint' = n
      /\ handler' = [handler EXCEPT ![h] = IF n = checkpoint THEN Idle ELSE r]
      /\ UNCHANGED <<chainVars, chainCh, reqCh, sendVars, api, origin, dbVars, handled, failed, calls,
                     faults>>
  BY DEF updateCheckpoint
<1> HIDE DEF m, n
<1>5. n \in Nat /\ n \in 0 .. (MaxHead + 1)
  BY <1>1, <1>3
<1>6. r \in Handler /\ r.pc = "write" /\ r.block = n /\ r.origin = origin
  <2>1. r \in Handler
    BY <1>1, <1>5, ZenonT(60) DEF Handler
  <2> QED
    BY <2>1, <1>1 DEF Handler
<1>7. Exported(origin, n)
  <2> SUFFICES ASSUME NEW k \in origin .. (n - 1) PROVE k \in handled
    BY DEF Exported
  <2>1. CASE k < checkpoint
    BY <2>1, <1>1, <1>5 DEF IInv, Sound, CheckpointSound, Exported
  <2>2. CASE k >= checkpoint
    BY <2>2, <1>1, <1>2, <1>3, <1>5
  <2> QED
    BY <2>1, <2>2, <1>1, <1>5
<1> HIDE DEF r
<1>8. TypeOK'
  <2>1. handler' \in [Handlers -> Handler]
    BY <1>1, <1>4, <1>6, Records
  <2>2. checkpointMap' \subseteq Block
    BY <1>2, <1>4
  <2> QED
    BY <1>1, <1>4, <1>5, <2>1, <2>2 DEF IInv, TypeOK, chainVars, sendVars, dbVars
<1>9. Sound'
  <2>1. checkpointMap' \subseteq handled'
    BY <1>2, <1>4
  <2>2. CheckpointSound'
    BY <1>4, <1>7 DEF IInv, Sound, CheckpointSound, Exported, dbVars
  <2>3. \A k \in Handlers : k # h => HandlerSound(handler[k])'
    BY <1>1, <1>4 DEF IInv, Sound, HandlerSound, Exported
  <2>4. HandlerSound(handler[h])'
    <3>1. handler'[h] = Idle \/ handler'[h] = r
      BY <1>1, <1>4
    <3> QED
      BY <3>1, <1>4, <1>5, <1>6, <1>7, Records DEF HandlerSound, Exported
  <2> QED
    BY <2>1, <2>2, <2>3, <2>4, <1>4 DEF IInv, Sound
<1> QED
  BY <1>8, <1>9 DEF IInv

\* The checkpoint is stored.
LEMMA WriteStep ==
  ASSUME IInv, NEW h \in Handlers, WriteCheckpoint(h)
  PROVE  IInv'
<1>1. /\ stored' = handler[h].block /\ storedOrigin' = handler[h].origin
      /\ handler' = [handler EXCEPT ![h] = Idle]
      /\ UNCHANGED <<chainVars, chainCh, reqCh, sendVars, api, pointVars, handled, failed, calls, faults>>
  BY DEF WriteCheckpoint, Finish
<1>2. handler[h].block \in 0 .. (MaxHead + 1) /\ Exported(handler[h].origin, handler[h].block)
  BY DEF WriteCheckpoint, IInv, Sound, HandlerSound
<1>3. handler[h].origin \in Nat /\ handler' \in [Handlers -> Handler]
  BY <1>1, Records DEF IInv, TypeOK, Handler
<1>4. TypeOK'
  BY <1>1, <1>2, <1>3 DEF IInv, TypeOK, chainVars, sendVars, pointVars
<1>5. CheckpointSound'
  BY <1>1, <1>2 DEF IInv, Sound, CheckpointSound, Exported, pointVars
<1>6. \A k \in Handlers : HandlerSound(handler[k])'
  BY <1>1, Records DEF IInv, TypeOK, Sound, HandlerSound, Exported
<1> QED
  BY <1>1, <1>4, <1>5, <1>6 DEF IInv, Sound, pointVars

\* The node comes back with the stored checkpoint and the origin of its count.
LEMMA RestartStep ==
  ASSUME IInv, Restart
  PROVE  IInv'
<1> USE FetcherAssumption
<1>1. /\ checkpoint' \in 0 .. (MaxHead + 1) /\ origin' \in Nat
      /\ Exported(origin, checkpoint)'
  <2>1. CASE stored = 0 /\ checkpoint' = head /\ origin' = head
    BY <2>1 DEF IInv, TypeOK, Block, Exported
  <2>2. CASE checkpoint' = stored /\ origin' = storedOrigin
    BY <2>2 DEF Restart, IInv, TypeOK, Sound, CheckpointSound, Exported
  <2> QED
    BY <2>1, <2>2 DEF Restart
<1>2. /\ handler' = [h \in Handlers |-> Idle] /\ api' = [pc |-> "start", block |-> 0]
      /\ sender' = NoSender /\ rangeSender' = NoSender
      /\ chainCh' = <<>> /\ reqCh' = <<>> /\ unposted' = {} /\ failed' = {}
      /\ subscribed' = FALSE /\ fetching' = FALSE /\ rangeFetching' = FALSE
      /\ checkpointMap' = {} /\ faults' = faults + 1
      /\ UNCHANGED <<head, dbVars, handled, calls>>
  BY DEF Restart
<1>3. TypeOK'
  <2>1. /\ handler' \in [Handlers -> Handler] /\ api' \in Api
        /\ sender' \in Sender /\ rangeSender' \in Sender
    BY <1>2, Records
  <2>2. chainCh' \in Seq(Block) /\ reqCh' \in Seq(Request) /\ faults' \in Nat
    BY <1>2 DEF IInv, TypeOK
  <2> QED
    BY <1>1, <1>2, <2>1, <2>2, ZenonT(30) DEF IInv, TypeOK, dbVars
<1>4. \A h \in Handlers : HandlerSound(handler[h])'
  BY <1>2, Records DEF HandlerSound
<1>5. api'.pc # "write"
  BY <1>2
<1> QED
  BY <1>1, <1>2, <1>3, <1>4, <1>5, ZenonT(30) DEF IInv, Sound, CheckpointSound, Exported, dbVars

\* Every step keeps the invariant.
LEMMA NextIInv == IInv /\ [Next]_vars => IInv'
<1> SUFFICES ASSUME IInv, [Next]_vars PROVE IInv'
  OBVIOUS
<1>1. CASE UNCHANGED vars
  BY <1>1 DEF vars, chainVars, sendVars, pointVars, dbVars, IInv, TypeOK, Sound, CheckpointSound,
     Exported, HandlerSound
<1>2. CASE ChainSteps
  BY <1>2, ChainStep
<1>3. CASE SenderSteps \/ SenderEnds \/ RangeSteps
  BY <1>3, SenderStep
<1>4. CASE ApiSteps
  BY <1>4, ApiStep
<1>5. CASE Restart
  BY <1>5, RestartStep
<1>6. ASSUME NEW h \in Handlers,
             TakeSteps(h) \/ HandleSteps(h) \/ MakeChainEventFails(h) \/ GiveUp(h)
      PROVE  IInv'
  BY <1>6, TakeStep, ExportStep, UpdateStep, WriteStep, PauseStep DEF HandleSteps
<1> QED
  BY <1>1, <1>2, <1>3, <1>4, <1>5, <1>6 DEF Next

(***************************************************************************)
(* Theorems                                                                *)
(***************************************************************************)

\* The variables keep their types: the checkpoint never moves past the block
\* after the last one (chaindata_fetcher.go:494-516).
THEOREM FetcherTypeOK == Spec => []TypeOK
<1>1. IInv => TypeOK
  BY DEF IInv
<1> QED
  BY InitIInv, NextIInv, <1>1, PTL DEF Spec

\* Every block below the checkpoint, in memory and stored, was exported, for any
\* number of handlers, calls, pauses and restarts (chaindata_fetcher.go:494-516).
THEOREM FetcherCheckpointSound == Spec => []CheckpointSound
<1>1. IInv => CheckpointSound
  BY DEF IInv, Sound
<1> QED
  BY InitIInv, NextIInv, <1>1, PTL DEF Spec
=============================================================================
