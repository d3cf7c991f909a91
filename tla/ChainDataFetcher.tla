--------------------------- MODULE ChainDataFetcher ---------------------------
(***************************************************************************)
(* The chain data fetcher exports every block to a repository and keeps a  *)
(* checkpoint: the first block that is not exported yet.  Blocks come as   *)
(* chain events, and as requests that a sender makes from the checkpoint   *)
(* up to the head; several handlers export them, in any order.  A handler  *)
(* whose retries are used up pauses the fetcher; the API stops and starts  *)
(* it, fetches ranges and sets the checkpoint; the node may go down at any *)
(* point, and comes back with the stored checkpoint.                       *)
(*                                                                         *)
(* What is exported of a block, the retries and the size of the data are   *)
(* left out: a handler exports a block completely or gives up.             *)
(***************************************************************************)
EXTENDS Naturals, Sequences, FiniteSets

CONSTANTS
  Handlers,          \* the handleRequest goroutines
  BlockChannelSize,  \* capacity of chainCh
  JobChannelSize,    \* capacity of reqCh
  Ranges,            \* the ranges, of a first and a last block, the API is asked for
  FirstHead,         \* the head when the fetcher is first started
  MaxHead,           \* bound on the head
  MaxCalls,          \* bound on the calls of the API
  MaxFaults          \* bound on crashes, given-up exports and failed requests

ASSUME FetcherAssumption ==
  /\ BlockChannelSize \in Nat \ {0} /\ JobChannelSize \in Nat \ {0}
  /\ FirstHead \in Nat /\ MaxHead \in Nat /\ FirstHead <= MaxHead
  /\ MaxCalls \in Nat /\ MaxFaults \in Nat
  /\ Ranges \subseteq [first : Nat, last : Nat]

VARIABLES
  head,           \* number of the current header
  unposted,       \* blocks in the chain whose ChainEvent is not sent yet
  chainCh,        \* ChainEvents
  reqCh,          \* requests
  subscribed,     \* chainSub is active
  fetching,       \* fetchingStarted
  sender,         \* the goroutine of startFetching
  rangeFetching,  \* rangeFetchingStarted
  rangeSender,    \* the goroutine of startRangeFetching
  handler,        \* the handlers
  api,            \* where the API call in progress is
  checkpoint, checkpointMap,
  stored,         \* the checkpoint in checkpointDB; 0 when there is none
  handled,        \* blocks exported so far
  failed,         \* blocks whose request was dropped by makeChainEvent
  origin,         \* the block from which the checkpoint counts
  storedOrigin,   \* the same for the stored one
  calls, faults

chainVars == <<head, unposted>>
sendVars == <<subscribed, fetching, sender, rangeFetching, rangeSender>>
pointVars == <<checkpoint, checkpointMap, origin>>
dbVars == <<stored, storedOrigin>>
vars == <<chainVars, chainCh, reqCh, sendVars, handler, api, pointVars, dbVars, handled, failed,
          calls, faults>>

Block == 0 .. MaxHead
Request == [block : Nat, update : BOOLEAN]
NoSender == [pc |-> "none", next |-> 0, end |-> 0, stop |-> FALSE]
Sender == [pc : {"none", "spawned", "sending"}, next : Nat, end : Nat, stop : BOOLEAN]
Job(pc, n, update) == [pc |-> pc, block |-> n, update |-> update, origin |-> 0]
Idle == Job("idle", 0, FALSE)
PausePC == {"pause", "pause wait", "pause range", "range wait", "reset"}
Handler == [pc : {"idle", "request", "handle", "update", "write"} \cup PausePC,
            block : Nat, update : BOOLEAN, origin : Nat]
Api == [pc : {"start", "subscribed", "idle", "stop wait", "range wait", "write"}, block : Nat]

\* The first start, with nothing stored: the checkpoint is the current block.
Init ==
  /\ head = FirstHead /\ unposted = {}
  /\ chainCh = <<>> /\ reqCh = <<>>
  /\ subscribed = FALSE /\ fetching = FALSE /\ sender = NoSender
  /\ rangeFetching = FALSE /\ rangeSender = NoSender
  /\ handler = [h \in Handlers |-> Idle]
  /\ api = [pc |-> "start", block |-> 0]
  /\ checkpoint = FirstHead /\ checkpointMap = {} /\ stored = 0
  /\ handled = {} /\ failed = {}
  /\ origin = FirstHead /\ storedOrigin = 0
  /\ calls = 0 /\ faults = 0

-----------------------------------------------------------------------------
(* The chain. *)

NewBlock ==
  /\ head < MaxHead
  /\ head' = head + 1
  /\ unposted' = unposted \cup {head + 1}
  /\ UNCHANGED <<chainCh, reqCh, sendVars, handler, api, pointVars, dbVars, handled, failed, calls, faults>>

\* PostChainEvents waits while chainCh is full.
PostChainEvent(n) ==
  /\ n \in unposted
  /\ subscribed => Len(chainCh) < BlockChannelSize
  /\ unposted' = unposted \ {n}
  /\ chainCh' = IF subscribed THEN Append(chainCh, n) ELSE chainCh
  /\ UNCHANGED <<head, reqCh, sendVars, handler, api, pointVars, dbVars, handled, failed, calls, faults>>

-----------------------------------------------------------------------------
(* startFetching and stopFetching, and the same for ranges. *)

Pausing == \E h \in Handlers : handler[h].pc \in PausePC

\* The API is called by one client at a time, and not while a handler pauses the
\* fetcher: fields such as chainSub have no lock.
Call(from, to, n) == api.pc = from /\ ~Pausing /\ api' = [pc |-> to, block |-> n]
NewCall(to, n) == Call("idle", to, n) /\ calls < MaxCalls /\ calls' = calls + 1

\* startFetching, by the node or by the API, subscribes before it reads the head.
StartFetching ==
  /\ ~fetching
  /\ NewCall("subscribed", 0) \/ (Call("start", "subscribed", 0) /\ UNCHANGED calls)
  /\ fetching' = TRUE /\ subscribed' = TRUE
  /\ UNCHANGED <<chainVars, chainCh, reqCh, sender, rangeFetching, rangeSender, handler,
                 pointVars, dbVars, handled, failed, faults>>

\* It launches the sender for the blocks up to the head.
LaunchSender ==
  /\ api.pc = "subscribed" /\ api' = [pc |-> "idle", block |-> 0]
  /\ sender' = [pc |-> "spawned", next |-> 0, end |-> head, stop |-> FALSE]
  /\ UNCHANGED <<chainVars, chainCh, reqCh, subscribed, fetching, rangeFetching, rangeSender,
                 handler, pointVars, dbVars, handled, failed, calls, faults>>


\* The sender reads the checkpoint when it runs.
SenderStarts ==
  /\ sender.pc = "spawned"
  /\ sender' = [sender EXCEPT !.pc = "sending", !.next = checkpoint]
  /\ UNCHANGED <<chainVars, chainCh, reqCh, subscribed, fetching, rangeFetching, rangeSender,
                 handler, api, pointVars, dbVars, handled, failed, calls, faults>>



\* sendRequests: the next request, or the end, or the stop signal.  A closed stop
\* channel and a free reqCh are both ready, and the select takes either.
Send(s, update) ==
  /\ s.pc = "sending" /\ s.next <= s.end
  /\ Len(reqCh) < JobChannelSize
  /\ reqCh' = Append(reqCh, [block |-> s.next, update |-> update])

Ends(s) == s.pc = "sending" /\ (s.next > s.end \/ s.stop)

SendRequest ==
  /\ Send(sender, TRUE)
  /\ sender' = [sender EXCEPT !.next = @ + 1]
  /\ UNCHANGED <<chainVars, chainCh, subscribed, fetching, rangeFetching, rangeSender, handler,
                 api, pointVars, dbVars, handled, failed, calls, faults>>

SenderEnds ==
  /\ Ends(sender)
  /\ sender' = NoSender
  /\ UNCHANGED <<chainVars, chainCh, reqCh, subscribed, fetching, rangeFetching, rangeSender,
                 handler, api, pointVars, dbVars, handled, failed, calls, faults>>

SendRangeRequest ==
  /\ Send(rangeSender, FALSE)
  /\ rangeSender' = [rangeSender EXCEPT !.next = @ + 1]
  /\ UNCHANGED <<chainVars, chainCh, subscribed, fetching, sender, rangeFetching, handler, api,
                 pointVars, dbVars, handled, failed, calls, faults>>

RangeSenderEnds ==
  /\ Ends(rangeSender)
  /\ rangeSender' = NoSender /\ rangeFetching' = FALSE
  /\ UNCHANGED <<chainVars, chainCh, reqCh, subscribed, fetching, sender, handler, api,
                 pointVars, dbVars, handled, failed, calls, faults>>

\* stopFetching and stopRangeFetching, up to the wait for the goroutine.
Signal(s) == [s EXCEPT !.stop = s.pc # "none"]

stopFetching ==
  /\ fetching /\ fetching' = FALSE
  /\ subscribed' = FALSE
  /\ sender' = Signal(sender)
  /\ UNCHANGED <<rangeFetching, rangeSender>>

stopRangeFetching ==
  /\ rangeFetching /\ rangeFetching' = FALSE
  /\ rangeSender' = Signal(rangeSender)
  /\ UNCHANGED <<subscribed, fetching, sender>>

\* The calls of the API: a stop returns when the sender has ended.
StopFetching ==
  /\ NewCall("stop wait", 0) /\ stopFetching
  /\ UNCHANGED <<chainVars, chainCh, reqCh, handler, pointVars, dbVars, handled, failed, faults>>

StopRangeFetching ==
  /\ NewCall("range wait", 0) /\ stopRangeFetching
  /\ UNCHANGED <<chainVars, chainCh, reqCh, handler, pointVars, dbVars, handled, failed, faults>>

StopReturns ==
  /\ \/ api.pc = "stop wait" /\ sender.pc = "none"
     \/ api.pc = "range wait" /\ rangeSender.pc = "none"
  /\ api' = [pc |-> "idle", block |-> 0]
  /\ UNCHANGED <<chainVars, chainCh, reqCh, sendVars, handler, pointVars, dbVars, handled, failed,
                 calls, faults>>

\* A range may reach past the head.
StartRangeFetching(r) ==
  /\ ~rangeFetching /\ NewCall("idle", 0)
  /\ rangeFetching' = TRUE
  /\ rangeSender' = [pc |-> "sending", next |-> r.first, end |-> r.last, stop |-> FALSE]
  /\ UNCHANGED <<chainVars, chainCh, reqCh, subscribed, fetching, sender, handler, pointVars,
                 dbVars, handled, failed, faults>>

\* The API sets the checkpoint in memory and then in the database, while the
\* fetcher is stopped; handlers may still be at work.
SetCheckpoint(n) ==
  /\ ~fetching /\ NewCall("write", n)
  /\ checkpoint' = n /\ origin' = n
  /\ UNCHANGED <<chainVars, chainCh, reqCh, sendVars, handler, checkpointMap, dbVars, handled,
                 failed, faults>>

SetStored ==
  /\ api.pc = "write"
  /\ stored' = api.block /\ storedOrigin' = api.block
  /\ api' = [pc |-> "idle", block |-> 0]
  /\ UNCHANGED <<chainVars, chainCh, reqCh, sendVars, handler, pointVars, handled, failed, calls,
                 faults>>

-----------------------------------------------------------------------------
(* The handlers. *)

Become(h, pc) == handler' = [handler EXCEPT ![h].pc = pc]
Finish(h) == handler' = [handler EXCEPT ![h] = Idle]

TakeEvent(h) ==
  /\ handler[h].pc = "idle" /\ chainCh # <<>>
  /\ chainCh' = Tail(chainCh)
  /\ handler' = [handler EXCEPT ![h] = Job("handle", Head(chainCh), TRUE)]
  /\ UNCHANGED <<chainVars, reqCh, sendVars, api, pointVars, dbVars, handled, failed, calls, faults>>

TakeRequest(h) ==
  /\ handler[h].pc = "idle" /\ reqCh # <<>>
  /\ reqCh' = Tail(reqCh)
  /\ handler' = [handler EXCEPT ![h] = Job("request", Head(reqCh).block, Head(reqCh).update)]
  /\ UNCHANGED <<chainVars, chainCh, sendVars, api, pointVars, dbVars, handled, failed, calls, faults>>

\* makeChainEvent reads the block, its receipts and its traces.
MakeChainEvent(h) ==
  /\ handler[h].pc = "request" /\ handler[h].block <= head
  /\ Become(h, "handle")
  /\ UNCHANGED <<chainVars, chainCh, reqCh, sendVars, api, pointVars, dbVars, handled, failed, calls,
                 faults>>

\* If one of them is missing the request is dropped.
MakeChainEventFails(h) ==
  /\ handler[h].pc = "request"
  /\ \/ handler[h].block > head /\ UNCHANGED faults
     \/ faults < MaxFaults /\ faults' = faults + 1
  /\ failed' = IF handler[h].update THEN failed \cup {handler[h].block} ELSE failed
  /\ Finish(h)
  /\ UNCHANGED <<chainVars, chainCh, reqCh, sendVars, api, pointVars, dbVars, handled, calls>>

\* handleRequestByType exports the block; a range may ask for a part of it only.
Handle(h) ==
  /\ handler[h].pc = "handle"
  /\ \/ handler[h].update /\ handled' = handled \cup {handler[h].block} /\ Become(h, "update")
     \/ ~handler[h].update /\ UNCHANGED handled /\ Finish(h)
  /\ UNCHANGED <<chainVars, chainCh, reqCh, sendVars, api, pointVars, dbVars, failed, calls, faults>>

\* errMaxRetryExceeded
GiveUp(h) ==
  /\ handler[h].pc = "handle"
  /\ faults < MaxFaults /\ faults' = faults + 1
  /\ Become(h, "pause")
  /\ UNCHANGED <<chainVars, chainCh, reqCh, sendVars, api, pointVars, dbVars, handled, failed, calls>>

MutNewCheckpoint(c, m) ==
  1 + CHOOSE n \in c .. (MaxHead + 1) : n \notin m /\ \A k \in c .. (n - 1) : k \in m

\* The first block from c on that is not in m.
newCheckpoint(c, m) ==
  CHOOSE n \in c .. (MaxHead + 1) : n \notin m /\ \A k \in c .. (n - 1) : k \in m

MutUpdateCheckpoint(h) ==
  /\ handler[h].pc = "update"
  /\ \A k \in Handlers : handler[k].pc # "write"
  /\ checkpoint <= handler[h].block
  /\ checkpoint' = handler[h].block + 1
  /\ UNCHANGED <<checkpointMap, origin>>
  /\ handler' = [handler EXCEPT ![h] = [@ EXCEPT !.pc = "write", !.block = checkpoint',
                                                   !.origin = origin]]
  /\ UNCHANGED <<chainVars, chainCh, reqCh, sendVars, api, dbVars, handled, failed, calls, faults>>

\* updateCheckpoint under checkpointMu, which is held until the new checkpoint is
\* written.
updateCheckpoint(h) ==
  /\ handler[h].pc = "update"
  /\ \A k \in Handlers : handler[k].pc # "write"
  /\ LET m == checkpointMap \cup {handler[h].block}
         n == newCheckpoint(checkpoint, m)
     IN  /\ checkpointMap' = m \ (checkpoint .. (n - 1))
         /\ checkpoint' = n
         /\ handler' = [handler EXCEPT ![h] =
                          IF n = checkpoint THEN Idle
                          ELSE [@ EXCEPT !.pc = "write", !.block = n, !.origin = origin]]
  /\ UNCHANGED <<chainVars, chainCh, reqCh, sendVars, api, origin, dbVars, handled, failed, calls,
                 faults>>

WriteCheckpoint(h) ==
  /\ handler[h].pc = "write"
  /\ stored' = handler[h].block /\ storedOrigin' = handler[h].origin
  /\ Finish(h)
  /\ UNCHANGED <<chainVars, chainCh, reqCh, sendVars, api, pointVars, handled, failed, calls, faults>>

-----------------------------------------------------------------------------
(* pause: both stops, and then the channels are emptied. *)

\* A start that is under way is over long before a handler has used up its
\* retries.
Pause(h) ==
  /\ handler[h].pc = "pause" /\ api.pc # "subscribed"
  /\ \/ stopFetching /\ Become(h, "pause wait")
     \/ ~fetching /\ Become(h, "pause range") /\ UNCHANGED sendVars
  /\ UNCHANGED <<chainVars, chainCh, reqCh, api, pointVars, dbVars, handled, failed, calls, faults>>

PauseRange(h) ==
  /\ \/ handler[h].pc = "pause wait" /\ sender.pc = "none"
     \/ handler[h].pc = "pause range"
  /\ \/ stopRangeFetching /\ Become(h, "range wait")
     \/ ~rangeFetching /\ Become(h, "reset") /\ UNCHANGED sendVars
  /\ UNCHANGED <<chainVars, chainCh, reqCh, api, pointVars, dbVars, handled, failed, calls, faults>>

Reset(h) ==
  /\ \/ handler[h].pc = "range wait" /\ rangeSender.pc = "none"
     \/ handler[h].pc = "reset"
  /\ chainCh' = <<>> /\ reqCh' = <<>>
  /\ Finish(h)
  /\ UNCHANGED <<chainVars, sendVars, api, pointVars, dbVars, handled, failed, calls, faults>>

-----------------------------------------------------------------------------
\* The node stops or crashes and comes back: setCheckpoint reads the stored
\* checkpoint and takes the current block if there is none.
Restart ==
  /\ faults < MaxFaults /\ faults' = faults + 1
  /\ chainCh' = <<>> /\ reqCh' = <<>> /\ unposted' = {}
  /\ subscribed' = FALSE /\ fetching' = FALSE /\ sender' = NoSender
  /\ rangeFetching' = FALSE /\ rangeSender' = NoSender
  /\ handler' = [h \in Handlers |-> Idle]
  /\ api' = [pc |-> "start", block |-> 0]
  /\ \/ stored = 0 /\ checkpoint' = head /\ origin' = head
     \/ stored # 0 /\ checkpoint' = stored /\ origin' = storedOrigin
  /\ checkpointMap' = {}
  /\ failed' = {}
  /\ UNCHANGED <<head, dbVars, handled, calls>>

-----------------------------------------------------------------------------
ChainSteps == NewBlock \/ \E n \in Block : PostChainEvent(n)
SenderSteps == LaunchSender \/ SenderStarts \/ SendRequest
RangeSteps == SendRangeRequest \/ RangeSenderEnds
ApiSteps ==
  \/ StartFetching \/ StopFetching \/ StopRangeFetching \/ StopReturns \/ SetStored
  \/ \E n \in Block : SetCheckpoint(n)
  \/ \E r \in Ranges : StartRangeFetching(r)
TakeSteps(h) == TakeEvent(h) \/ TakeRequest(h)
HandleSteps(h) ==
  \/ MakeChainEvent(h) \/ Handle(h) \/ updateCheckpoint(h) \/ WriteCheckpoint(h)
  \/ Pause(h) \/ PauseRange(h) \/ Reset(h)

Next ==
  \/ ChainSteps \/ SenderSteps \/ SenderEnds \/ RangeSteps \/ ApiSteps \/ Restart
  \/ \E h \in Handlers :
       TakeSteps(h) \/ HandleSteps(h) \/ MakeChainEventFails(h) \/ GiveUp(h)

\* Goroutines that can run do run, and the repository answers in the end; new
\* blocks, the API's clients and faults owe nothing.
Fairness ==
  /\ WF_vars(SenderSteps) /\ WF_vars(SenderEnds) /\ WF_vars(RangeSenderEnds)
  /\ WF_vars(StopReturns) /\ WF_vars(\E n \in Block : PostChainEvent(n))
  /\ \A h \in Handlers :
       WF_vars(TakeSteps(h)) /\ WF_vars(HandleSteps(h) \/ MakeChainEventFails(h))

Spec == Init /\ [][Next]_vars /\ Fairness

-----------------------------------------------------------------------------
(* Properties. *)

TypeOK ==
  /\ head \in Block /\ unposted \subseteq Block
  /\ chainCh \in Seq(Block) /\ reqCh \in Seq(Request)
  /\ subscribed \in BOOLEAN /\ fetching \in BOOLEAN /\ sender \in Sender
  /\ rangeFetching \in BOOLEAN /\ rangeSender \in Sender
  /\ handler \in [Handlers -> Handler] /\ api \in Api
  /\ checkpoint \in 0 .. (MaxHead + 1) /\ checkpointMap \subseteq Block /\ origin \in Nat
  /\ stored \in 0 .. (MaxHead + 1) /\ storedOrigin \in Nat
  /\ handled \subseteq Block /\ failed \subseteq Nat
  /\ calls \in Nat /\ faults \in Nat

Exported(from, to) == \A n \in from .. (to - 1) : n \in handled

\* Every block below the checkpoint, in memory or stored, was exported, back to
\* the block where the count began: blocks finish in any order, twice, or across
\* pauses, restarts and changes of the checkpoint, and none is passed over
\* (chaindata_fetcher.go:494-516).
CheckpointSound == Exported(origin, checkpoint) /\ Exported(storedOrigin, stored)

\* Where a block that is not below the checkpoint is on its way.
OnItsWay(n) ==
  \/ n \in checkpointMap \cup failed
  \/ n \in unposted
  \/ \E i \in DOMAIN chainCh : chainCh[i] = n
  \/ \E i \in DOMAIN reqCh : reqCh[i] = [block |-> n, update |-> TRUE]
  \/ \E h \in Handlers : handler[h].block = n /\ handler[h].update
  \/ api.pc = "subscribed"
  \/ sender.pc = "spawned" /\ n <= sender.end
  \/ sender.pc = "sending" /\ sender.next <= n /\ n <= sender.end



Stopping == Pausing \/ api.pc \in {"stop wait", "range wait"}

=============================================================================
