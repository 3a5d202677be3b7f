----------------------------- MODULE StreamQueue -----------------------------
(***************************************************************************)
(* The queue of the CUDA and HIP adapters (stream_queue.hpp, queue.cpp,    *)
(* enqueue.cpp, event.cpp): an out-of-order queue made of two pools of     *)
(* in-order streams of the driver, used round-robin.  The token of a       *)
(* compute stream is the value of a 32-bit counter when the stream was     *)
(* handed out; it serves to reuse the stream of a dependency and to know   *)
(* which streams urQueueFinish has synchronized already.                   *)
(*                                                                         *)
(* A stream is modelled by its front: the commands whose completion        *)
(* completes everything given to it so far.  A native event is the front   *)
(* it was recorded at.  The call urEnqueueEventsWaitWithBarrier counts as  *)
(* a command, done when the barrier's event is.                            *)
(***************************************************************************)
EXTENDS Integers, FiniteSets

CONSTANTS Threads,         \* host threads
          Queues,          \* queues of one context
          ComputeStreams,  \* size of the vector of that name: 1 if in order
          TransferStreams, \* size of the vector of that name: 0 if in order
          UintMod,         \* 2^32 in the code: the stream indices wrap there
          StartIndices,    \* indices of the initial states, see Init
          Ops,             \* the API calls the threads make
          MaxWaits,        \* bound on the length of an event wait list
          MaxCalls,        \* bound on the calls that take a stream
          None             \* "no thread"

\* Calls that pick a compute stream by their wait list, a transfer stream, ...
Selecting == {"kernel", "native", "barrier"}
Transfers == {"transfer", "read"}
\* ... the next compute stream, or no stream at all.
AllOps == Selecting \cup Transfers \cup {"handle", "finish", "wait"}

ASSUME SizesAssumption == ComputeStreams \in Nat \ {0} /\ TransferStreams \in Nat
ASSUME UintAssumption ==
  /\ UintMod \in Nat
  /\ UintMod > ComputeStreams /\ UintMod > TransferStreams
  /\ UintMod % ComputeStreams = 0
  /\ TransferStreams # 0 => UintMod % TransferStreams = 0
ASSUME StartAssumption == StartIndices \subseteq 0 .. UintMod - 1
ASSUME OpsAssumption == Ops \subseteq AllOps
ASSUME BoundAssumption == MaxWaits \in Nat /\ MaxCalls \in Nat

InOrder == ComputeStreams = 1
Pools == Queues \X {"compute", "transfer"}
Size(p) == IF p[2] = "compute" THEN ComputeStreams ELSE TransferStreams
Streams == UNION {{p} \X (0 .. Size(p) - 1) : p \in Pools}
Ids == 1 .. MaxCalls
\* numeric_limits<uint32_t>::max(): "not one of the compute streams"
NoToken == UintMod - 1
Uint == 0 .. UintMod - 1

VARIABLES
  index,        \* ComputeStreamIndex, TransferStreamIndex
  lastSync,     \* LastSyncComputeStreams, LastSyncTransferStreams
  created,      \* NumComputeStreams, NumTransferStreams
  delay,        \* DelayCompute
  applied,      \* ComputeAppliedBarrier, TransferAppliedBarrier
  barrierEvent, \* BarrierEvent: whether it exists and what it waits for
  poolMutex,    \* ComputeStreamMutex, TransferStreamMutex
  syncMutex,    \* ComputeStreamSyncMutex
  barrierMutex, \* BarrierMutex
  eventCount,   \* EventCount
  front,        \* the front of each stream
  deps,         \* what each launched command waits for on the device
  launched, done, \* commands given to the driver, and completed
  event,        \* the event of each command whose call has returned
  asked,        \* (auxiliary) the op and wait list each command was enqueued
                \* with, and the earlier commands the API orders it after
  calls,        \* number of calls that took a stream (bounded by MaxCalls)
  pc, call,     \* where each thread is, and its call
  got,          \* the stream and the token its call has got
  range         \* the streams its urQueueFinish has yet to synchronize

vars == <<index, lastSync, created, delay, applied, barrierEvent, poolMutex,
          syncMutex, barrierMutex, eventCount, front, deps, launched, done,
          event, asked, calls, pc, call, got, range>>
indices == <<index, lastSync, created, delay>>
barrierVars == <<applied, barrierEvent>>
locks == <<poolMutex, syncMutex, barrierMutex>>
events == <<eventCount, event>>
device == <<front, deps, launched, done>>
callVars == <<asked, calls, call>>

NoStream == <<>>
NoEvent == [op |-> "none", stream |-> NoStream, token |-> NoToken, id |-> 0,
            at |-> {}]
NoCall == [op |-> "none", q |-> None, id |-> 0, list |-> {}, before |-> {}]
NotAsked == [op |-> "none", list |-> {}, after |-> {}]
NotGot == [stream |-> NoStream, token |-> NoToken]

Returned == {i \in Ids : event[i] # NoEvent}
QueueOf(i) == event[i].stream[1][1]
\* The commands of q whose enqueue call has returned.
Enqueued(q) == {i \in Returned : QueueOf(i) = q}
Barriers(q) == {i \in Enqueued(q) : event[i].op = "barrier"}

\* A queue on which k streams were taken and then synchronized, in each pool;
\* with k = 0, the state after the constructor stream_queue_t.
Init ==
  /\ \E k \in StartIndices :
       /\ index = [p \in Pools |-> IF Size(p) = 0 THEN 0 ELSE k]
       /\ lastSync = index
       /\ created = [p \in Pools |-> IF k < Size(p) THEN k ELSE Size(p)]
  /\ delay = [s \in Streams |-> FALSE]
  /\ applied = [s \in Streams |-> FALSE]
  /\ barrierEvent = [q \in Queues |-> [made |-> FALSE, at |-> {}]]
  /\ poolMutex = [p \in Pools |-> None]
  /\ syncMutex = [q \in Queues |-> None]
  /\ barrierMutex = [q \in Queues |-> None]
  /\ eventCount = [q \in Queues |-> 0]
  /\ front = [s \in Streams |-> {}]
  /\ deps = [i \in Ids |-> {}]
  /\ launched = {} /\ done = {}
  /\ event = [i \in Ids |-> NoEvent]
  /\ asked = [i \in Ids |-> NotAsked]
  /\ calls = 0
  /\ pc = [t \in Threads |-> "idle"]
  /\ call = [t \in Threads |-> NoCall]
  /\ got = [t \in Threads |-> NotGot]
  /\ range = [t \in Threads |-> {}]

Goto(t, label) == pc' = [pc EXCEPT ![t] = label]

-----------------------------------------------------------------------------
\* Operators on tokens and ranges of streams.

\* Variant: LastSync itself counts as synchronized.
HasBeenSynchronized_Off(q, token) ==
  token # NoToken /\ lastSync[<<q, "compute">>] >= token

\* hasBeenSynchronized
HasBeenSynchronized(q, token) ==
  token # NoToken /\ lastSync[<<q, "compute">>] > token

\* Variant: reuses a stream although it has been synchronized.
CanReuseStream_Synced(q, token) ==
  /\ token # NoToken
  /\ (index[<<q, "compute">>] - token) % UintMod <= ComputeStreams

\* canReuseStream
CanReuseStream(q, token) ==
  /\ token # NoToken
  /\ (index[<<q, "compute">>] - token) % UintMod <= ComputeStreams
  /\ ~HasBeenSynchronized(q, token)

\* The events of a wait list of q whose stream a command of q may reuse.
Reusable(q, list) ==
  {e \in list : QueueOf(e) = q /\ CanReuseStream(q, event[e].token)}

\* Variant: takes the events whose id is the smallest of their stream.
LatestEvents_Oldest(list) ==
  {e \in list : \A f \in list :
     event[f].stream = event[e].stream => event[f].id >= event[e].id}

\* forLatestEvents: the events it calls its argument on.
LatestEvents(list) ==
  {e \in list : \A f \in list :
     event[f].stream = event[e].stream => event[f].id <= event[e].id}

\* End in syncStreams
SyncEnd(p) == IF created[p] < Size(p) THEN created[p] ELSE index[p]

\* Variant: a range that wraps around the vector loses its first part.
SyncRange_NoWrap(p) ==
  {<<p, i>> : i \in
     IF (SyncEnd(p) - lastSync[p]) % UintMod >= Size(p) THEN 0 .. Size(p) - 1
     ELSE (lastSync[p] % Size(p)) .. ((SyncEnd(p) % Size(p)) - 1)}

\* The streams of the pool p that syncStreams calls its argument on.
SyncRange(p) ==
  LET start == lastSync[p]
      end == SyncEnd(p)
      a == start % Size(p)
      b == end % Size(p)
  IN {<<p, i>> : i \in
       IF (end - start) % UintMod >= Size(p) THEN 0 .. Size(p) - 1
       ELSE IF a <= b THEN a .. b - 1
       ELSE (a .. Size(p) - 1) \cup (0 .. b - 1)}

-----------------------------------------------------------------------------
\* A thread calls the API.  Wait lists hold events that earlier calls returned.

Call(t) ==
  /\ pc[t] = "idle"
  /\ \E op \in Ops, q \in Queues, list \in SUBSET Returned :
       /\ Cardinality(list) <= MaxWaits
       /\ op \in {"handle", "finish"} => list = {}
       /\ op = "wait" => list # {}
       /\ op \notin {"finish", "wait"} => calls < MaxCalls
       /\ LET id == IF op \in {"finish", "wait"} THEN 0 ELSE calls + 1
              all == IF InOrder \/ (op = "barrier" /\ list = {})
                     THEN Enqueued(q) ELSE Barriers(q)
          IN /\ call' = [call EXCEPT ![t] =
                  [op |-> op, q |-> q, id |-> id, list |-> list,
                   before |-> IF op = "finish" THEN Enqueued(q) ELSE {}]]
             /\ calls' = IF id = 0 THEN calls ELSE id
             /\ asked' = IF id = 0 THEN asked
                  ELSE [asked EXCEPT ![id] = [op |-> op, list |-> list, after |-> all]]
       /\ Goto(t, CASE op \in Selecting -> "select"
                    [] op \in Transfers \cup {"handle"} -> "create"
                    [] op = "finish" -> "lockSync"
                    [] op = "wait" -> "eventWait")
  /\ UNCHANGED <<indices, barrierVars, locks, events, device, got, range>>

\* The pool getNextComputeStream or getNextTransferStream takes the stream from.
PoolOf(c) ==
  IF c.op \in Transfers /\ TransferStreams # 0
  THEN <<c.q, "transfer">> ELSE <<c.q, "compute">>

\* The overload of getNextComputeStream with a wait list: reuse the stream of a
\* dependency, with ComputeStreamSyncMutex held in Guard.  The interop_guard of a
\* native command drops Guard at once.
ReuseStream(t) ==
  LET c == call[t] IN
  /\ pc[t] = "select"
  /\ syncMutex[c.q] = None
  /\ \E e \in Reusable(c.q, c.list) :
       /\ delay' = [delay EXCEPT
            ![<<<<c.q, "compute">>, event[e].token % ComputeStreams>>] = TRUE]
       /\ got' = [got EXCEPT ![t] =
                    [stream |-> event[e].stream, token |-> event[e].token]]
  /\ syncMutex' = IF c.op = "native" THEN syncMutex
                  ELSE [syncMutex EXCEPT ![c.q] = t]
  /\ Goto(t, "apply")
  /\ UNCHANGED <<index, lastSync, created, barrierVars, poolMutex, barrierMutex,
                 events, device, callVars, range>>

\* ... none can be reused: getNextComputeStream without a wait list.
NoReuse(t) ==
  /\ pc[t] = "select"
  /\ Reusable(call[t].q, call[t].list) = {}
  /\ Goto(t, "create")
  /\ UNCHANGED <<indices, barrierVars, locks, events, device, callVars, got,
                 range>>

\* Variant: the last stream of a pool is never created.
CreateStream_OffByOne(t) ==
  LET p == PoolOf(call[t]) IN
  /\ pc[t] = "create"
  /\ IF created[p] < Size(p) - 1
     THEN /\ poolMutex[p] = None
          /\ created' = [created EXCEPT ![p] = @ + 1]
     ELSE UNCHANGED created
  /\ Goto(t, "take")
  /\ UNCHANGED <<index, lastSync, delay, barrierVars, locks, events, device,
                 callVars, got, range>>

\* createStreamWithPriority, under the mutex of the pool, while not all exist
CreateStream(t) ==
  LET p == PoolOf(call[t]) IN
  /\ pc[t] = "create"
  /\ IF created[p] < Size(p)
     THEN /\ poolMutex[p] = None
          /\ created' = [created EXCEPT ![p] = @ + 1]
     ELSE UNCHANGED created
  /\ Goto(t, "take")
  /\ UNCHANGED <<index, lastSync, delay, barrierVars, locks, events, device,
                 callVars, got, range>>

\* Token = ComputeStreamIndex++, and likewise for transfers.  A compute stream
\* that was reused lately is skipped once.
TakeStream(t) ==
  LET p == PoolOf(call[t])
      s == <<p, index[p] % Size(p)>>
  IN
  /\ pc[t] = "take"
  /\ index' = [index EXCEPT ![p] = (@ + 1) % UintMod]
  /\ IF delay[s]
     THEN /\ delay' = [delay EXCEPT ![s] = FALSE]
          /\ Goto(t, "create")
          /\ UNCHANGED got
     ELSE /\ got' = [got EXCEPT ![t] = [stream |-> s, token |-> index[p]]]
          /\ Goto(t, "apply")
          /\ UNCHANGED delay
  /\ UNCHANGED <<lastSync, created, barrierVars, locks, events, device,
                 callVars, range>>

\* Where a call goes on once it has its stream.
AfterStream(op) ==
  CASE op \in Transfers \cup {"kernel"} -> "waits"
    [] op = "native" -> "launch"
    [] op = "barrier" -> "lockBarrier"
    [] op = "handle" -> "return"

\* computeStreamWaitForBarrierIfNeeded, transferStreamWaitForBarrierIfNeeded: the
\* stream waits for the last barrier, unless it has done so already, ...
ApplyBarrier(t) ==
  LET c == call[t] IN
  /\ pc[t] = "apply"
  /\ IF barrierEvent[c.q].made /\ ~applied[got[t].stream]
     THEN /\ front' = [front EXCEPT ![got[t].stream] = @ \cup barrierEvent[c.q].at]
          /\ Goto(t, "applied")
     ELSE Goto(t, AfterStream(c.op)) /\ UNCHANGED front
  /\ UNCHANGED <<indices, barrierVars, locks, events, deps, launched, done,
                 callVars, got, range>>

\* ... and the flag of the stream is set.
MarkApplied(t) ==
  /\ pc[t] = "applied"
  /\ applied' = [applied EXCEPT ![got[t].stream] = TRUE]
  /\ Goto(t, AfterStream(call[t].op))
  /\ UNCHANGED <<indices, barrierEvent, locks, events, device, callVars, got,
                 range>>

-----------------------------------------------------------------------------
\* Enqueueing a kernel, a copy or a native command.

\* Variant: waits for one event of the list only.
EnqueueEventsWait_First(t) ==
  LET c == call[t] IN
  /\ pc[t] = "waits"
  /\ \E e \in c.list \cup {0} :
       /\ e = 0 <=> c.list = {}
       /\ front' = [front EXCEPT ![got[t].stream] =
                      @ \cup (IF e = 0 THEN {} ELSE event[e].at)]
  /\ Goto(t, "launch")
  /\ UNCHANGED <<indices, barrierVars, locks, events, deps, launched, done,
                 callVars, got, range>>

\* enqueueEventsWait: the stream waits for the latest event of every other stream
EnqueueEventsWait(t) ==
  LET c == call[t] IN
  /\ pc[t] = "waits"
  /\ front' = [front EXCEPT ![got[t].stream] = @ \cup
       UNION {event[e].at :
                e \in {f \in LatestEvents(c.list) : event[f].stream # got[t].stream}}]
  /\ Goto(t, "launch")
  /\ UNCHANGED <<indices, barrierVars, locks, events, deps, launched, done,
                 callVars, got, range>>

\* The driver puts command i on stream s.
Put(i, s) ==
  /\ deps' = [deps EXCEPT ![i] = front[s]]
  /\ front' = [front EXCEPT ![s] = {i}]
  /\ launched' = launched \cup {i}
  /\ UNCHANGED done

\* cuLaunchKernel, cuMemcpy...Async, or what pfnNativeEnqueue puts on the stream
Launch(t) ==
  /\ pc[t] = "launch"
  /\ Put(call[t].id, got[t].stream)
  /\ Goto(t, "record")
  /\ UNCHANGED <<indices, barrierVars, locks, events, callVars, got, range>>

\* ur_event_handle_t_::record, then the call returns (a blocking copy after
\* cuStreamSynchronize) and drops Guard.
Record(t) ==
  LET c == call[t] IN
  /\ pc[t] = "record"
  /\ eventCount' = [eventCount EXCEPT ![c.q] = @ + 1]
  /\ event' = [event EXCEPT ![c.id] =
       [op |-> c.op, stream |-> got[t].stream, id |-> eventCount'[c.q],
        token |-> IF c.op \in {"kernel", "barrier"} THEN got[t].token ELSE NoToken,
        at |-> front[got[t].stream]]]
  /\ syncMutex' = IF syncMutex[c.q] = t THEN [syncMutex EXCEPT ![c.q] = None]
                  ELSE syncMutex
  /\ Goto(t, IF c.op = "read" THEN "streamWait" ELSE "return")
  /\ UNCHANGED <<indices, barrierVars, poolMutex, barrierMutex, device,
                 callVars, got, range>>

\* cuStreamSynchronize at the end of a blocking copy
StreamWait(t) ==
  /\ pc[t] = "streamWait"
  /\ front[got[t].stream] \subseteq done
  /\ Goto(t, "return")
  /\ UNCHANGED <<indices, barrierVars, locks, events, device, callVars, got,
                 range>>

-----------------------------------------------------------------------------
\* urEnqueueEventsWaitWithBarrier, once it has a stream.

LockBarrier(t) ==
  /\ pc[t] = "lockBarrier"
  /\ barrierMutex[call[t].q] = None
  /\ barrierMutex' = [barrierMutex EXCEPT ![call[t].q] = t]
  /\ Goto(t, IF call[t].list = {} THEN "lockSync" ELSE "barrierEvents")
  /\ UNCHANGED <<indices, barrierVars, poolMutex, syncMutex, events, device,
                 callVars, got, range>>

\* The stream of the call waits for the other streams in ss.
WaitForStreams(t, ss) ==
  LET s == got[t].stream IN
  front' = [front EXCEPT ![s] = @ \cup UNION {front[u] : u \in ss \ {s}}]

\* No wait list: syncStreams<false>, the compute streams with both mutexes held, ...
BarrierCompute(t) ==
  LET q == call[t].q
      p == <<q, "compute">>
  IN
  /\ pc[t] = "barrierCompute"
  /\ WaitForStreams(t, SyncRange(p))
  /\ delay' = [s \in Streams |-> delay[s] /\ s \notin SyncRange(p)]
  /\ syncMutex' = [syncMutex EXCEPT ![q] = None]
  /\ poolMutex' = [poolMutex EXCEPT ![p] = None]
  /\ Goto(t, "barrierTransfer")
  /\ UNCHANGED <<index, lastSync, created, barrierVars, barrierMutex, events,
                 deps, launched, done, callVars, got, range>>

\* ... then the transfer streams.
BarrierTransfer(t) ==
  LET p == <<call[t].q, "transfer">> IN
  /\ pc[t] = "barrierTransfer"
  /\ IF Size(p) = 0 THEN UNCHANGED front
     ELSE poolMutex[p] = None /\ WaitForStreams(t, SyncRange(p))
  /\ Goto(t, "barrierRecord")
  /\ UNCHANGED <<indices, barrierVars, locks, events, deps, launched, done,
                 callVars, got, range>>

\* A wait list: wait for its latest events, but those already synchronized.
BarrierEvents(t) ==
  LET c == call[t] IN
  /\ pc[t] = "barrierEvents"
  /\ front' = [front EXCEPT ![got[t].stream] = @ \cup
       UNION {event[e].at : e \in {f \in LatestEvents(c.list) :
                ~HasBeenSynchronized(QueueOf(f), event[f].token)}}]
  /\ Goto(t, "barrierRecord")
  /\ UNCHANGED <<indices, barrierVars, locks, events, deps, launched, done,
                 callVars, got, range>>

\* Variant: the flags of the transfer streams are not cleared.
BarrierRecord_ComputeOnly(t) ==
  LET c == call[t] IN
  /\ pc[t] = "barrierRecord"
  /\ Put(c.id, got[t].stream)
  /\ barrierEvent' = [barrierEvent EXCEPT ![c.q] = [made |-> TRUE, at |-> {c.id}]]
  /\ applied' = [s \in Streams |-> applied[s] /\ s[1] # <<c.q, "compute">>]
  /\ barrierMutex' = [barrierMutex EXCEPT ![c.q] = None]
  /\ Goto(t, "record")
  /\ UNCHANGED <<indices, poolMutex, syncMutex, events, callVars, got, range>>

\* BarrierEvent is recorded on the stream, and no stream has applied it yet.
BarrierRecord(t) ==
  LET c == call[t] IN
  /\ pc[t] = "barrierRecord"
  /\ Put(c.id, got[t].stream)
  /\ barrierEvent' = [barrierEvent EXCEPT ![c.q] = [made |-> TRUE, at |-> {c.id}]]
  /\ applied' = [s \in Streams |-> applied[s] /\ s[1][1] # c.q]
  /\ barrierMutex' = [barrierMutex EXCEPT ![c.q] = None]
  /\ Goto(t, "record")
  /\ UNCHANGED <<indices, poolMutex, syncMutex, events, callVars, got, range>>

-----------------------------------------------------------------------------
\* syncStreams takes ComputeStreamSyncMutex, then ComputeStreamMutex.

LockSync(t) ==
  LET q == call[t].q IN
  /\ pc[t] = "lockSync"
  /\ syncMutex[q] = None
  /\ syncMutex' = [syncMutex EXCEPT ![q] = t]
  /\ Goto(t, "lockPool")
  /\ UNCHANGED <<indices, barrierVars, poolMutex, barrierMutex, events, device,
                 callVars, got, range>>

\* For urQueueFinish (ResetUsed), LastSyncComputeStreams moves at once and both
\* mutexes are kept while it waits for the streams.
LockPool(t) ==
  LET p == <<call[t].q, "compute">> IN
  /\ pc[t] = "lockPool"
  /\ poolMutex[p] = None
  /\ poolMutex' = [poolMutex EXCEPT ![p] = t]
  /\ IF call[t].op = "finish"
     THEN /\ range' = [range EXCEPT ![t] = SyncRange(p)]
          /\ lastSync' = [lastSync EXCEPT ![p] = SyncEnd(p)]
          /\ Goto(t, "syncCompute")
     ELSE Goto(t, "barrierCompute") /\ UNCHANGED <<range, lastSync>>
  /\ UNCHANGED <<index, created, delay, barrierVars, syncMutex, barrierMutex,
                 events, device, callVars, got>>

-----------------------------------------------------------------------------
\* urQueueFinish waits for the streams, and urEventWait for the events.

\* cuStreamSynchronize of one stream of the range (the model takes them in any
\* order), and Delay[i] = false
SyncStream(t) ==
  /\ pc[t] \in {"syncCompute", "syncTransfer"}
  /\ \E s \in range[t] :
       /\ front[s] \subseteq done
       /\ delay' = [delay EXCEPT ![s] = FALSE]
       /\ range' = [range EXCEPT ![t] = @ \ {s}]
  /\ UNCHANGED <<index, lastSync, created, barrierVars, locks, events, device,
                 callVars, pc, got>>

\* All are done: the guards of the first block of syncStreams are released.
SyncedCompute(t) ==
  LET q == call[t].q IN
  /\ pc[t] = "syncCompute" /\ range[t] = {}
  /\ syncMutex' = [syncMutex EXCEPT ![q] = None]
  /\ poolMutex' = [poolMutex EXCEPT ![<<q, "compute">>] = None]
  /\ Goto(t, IF TransferStreams = 0 THEN "return" ELSE "lockTransfer")
  /\ UNCHANGED <<indices, barrierVars, barrierMutex, events, device, callVars,
                 got, range>>

\* The second block of syncStreams: the transfer streams, under their mutex
FinishLockTransfer(t) ==
  LET p == <<call[t].q, "transfer">> IN
  /\ pc[t] = "lockTransfer"
  /\ poolMutex[p] = None
  /\ poolMutex' = [poolMutex EXCEPT ![p] = t]
  /\ range' = [range EXCEPT ![t] = SyncRange(p)]
  /\ lastSync' = [lastSync EXCEPT ![p] = SyncEnd(p)]
  /\ Goto(t, "syncTransfer")
  /\ UNCHANGED <<index, created, delay, barrierVars, syncMutex, barrierMutex,
                 events, device, callVars, got>>

SyncedTransfer(t) ==
  /\ pc[t] = "syncTransfer" /\ range[t] = {}
  /\ poolMutex' = [poolMutex EXCEPT ![<<call[t].q, "transfer">>] = None]
  /\ Goto(t, "return")
  /\ UNCHANGED <<indices, barrierVars, syncMutex, barrierMutex, events, device,
                 callVars, got, range>>

\* urEventWait: cuEventSynchronize of the latest event of each stream
EventWait(t) ==
  /\ pc[t] = "eventWait"
  /\ \A e \in LatestEvents(call[t].list) : event[e].at \subseteq done
  /\ Goto(t, "return")
  /\ UNCHANGED <<indices, barrierVars, locks, events, device, callVars, got,
                 range>>

Return(t) ==
  /\ pc[t] = "return"
  /\ Goto(t, "idle")
  /\ call' = [call EXCEPT ![t] = NoCall]
  /\ got' = [got EXCEPT ![t] = NotGot]
  /\ UNCHANGED <<indices, barrierVars, locks, events, device, asked, calls,
                 range>>

\* The device completes a command of which everything it waits for is done.
Execute ==
  /\ \E i \in launched \ done : deps[i] \subseteq done /\ done' = done \cup {i}
  /\ UNCHANGED <<indices, barrierVars, locks, events, front, deps, launched,
                 callVars, pc, got, range>>

Step(t) ==
  \/ ReuseStream(t) \/ NoReuse(t) \/ CreateStream(t) \/ TakeStream(t)
  \/ ApplyBarrier(t) \/ MarkApplied(t)
  \/ EnqueueEventsWait(t) \/ Launch(t) \/ Record(t) \/ StreamWait(t)
  \/ LockSync(t) \/ LockPool(t)
  \/ LockBarrier(t) \/ BarrierCompute(t) \/ BarrierTransfer(t)
  \/ BarrierEvents(t) \/ BarrierRecord(t)
  \/ SyncStream(t) \/ SyncedCompute(t)
  \/ FinishLockTransfer(t) \/ SyncedTransfer(t)
  \/ EventWait(t) \/ Return(t)

Next == Execute \/ \E t \in Threads : Call(t) \/ Step(t)

Spec == Init /\ [][Next]_vars

-----------------------------------------------------------------------------
Labels == {"idle", "select", "create", "take", "apply", "applied", "waits",
           "launch", "record", "streamWait", "lockBarrier", "barrierCompute",
           "barrierTransfer", "barrierEvents", "barrierRecord", "lockSync", "lockPool",
           "syncCompute", "lockTransfer", "syncTransfer", "eventWait", "return"}

\* Every variable has its type, and a stream is only used once it was created.
TypeOK ==
  /\ index \in [Pools -> Uint] /\ lastSync \in [Pools -> Uint]
  /\ \A p \in Pools : created[p] \in 0 .. Size(p)
  /\ delay \in [Streams -> BOOLEAN] /\ applied \in [Streams -> BOOLEAN]
  /\ barrierEvent \in [Queues -> [made : BOOLEAN, at : SUBSET Ids]]
  /\ poolMutex \in [Pools -> Threads \cup {None}]
  /\ syncMutex \in [Queues -> Threads \cup {None}]
  /\ barrierMutex \in [Queues -> Threads \cup {None}]
  /\ eventCount \in [Queues -> 0 .. MaxCalls]
  /\ front \in [Streams -> SUBSET Ids] /\ deps \in [Ids -> SUBSET Ids]
  /\ done \subseteq launched /\ launched \subseteq Ids
  /\ event \in [Ids -> [op : AllOps \cup {"none"}, stream : Streams \cup {NoStream},
                        token : Uint, id : 0 .. MaxCalls, at : SUBSET Ids]]
  /\ asked \in [Ids -> [op : AllOps \cup {"none"}, list : SUBSET Ids,
                        after : SUBSET Ids]]
  /\ calls \in 0 .. MaxCalls
  /\ pc \in [Threads -> Labels]
  /\ call \in [Threads -> [op : AllOps \cup {"none"}, q : Queues \cup {None},
                           id : 0 .. MaxCalls, list : SUBSET Ids,
                           before : SUBSET Ids]]
  /\ got \in [Threads -> [stream : Streams \cup {NoStream}, token : Uint]]
  /\ range \in [Threads -> SUBSET Streams]
  /\ \A s \in Streams : front[s] # {} => s[2] < created[s[1]]

\* A command runs after the commands of its wait list, after every barrier enqueued
\* before it and, on an in-order queue, after every command enqueued before it; a
\* barrier without a wait list runs after every command enqueued before it.  This
\* rests on the latest event of a stream standing for the older ones, on stream
\* reuse, on the flags that say which streams have applied the last barrier, and on
\* the range of streams syncStreams visits.
NeedsMet == \A i \in done : asked[i].list \cup asked[i].after \subseteq done

\* A kernel or a copy runs after the commands of its wait list, whatever other
\* threads do with the same queues: the waits put on its stream stay ahead of it.
WaitListsHonoured ==
  \A i \in done : asked[i].op \in Transfers \cup {"kernel"} =>
                     asked[i].list \subseteq done

\* When urQueueFinish returns, every command whose enqueue call returned before
\* urQueueFinish was called is done, although it synchronizes only the streams used
\* since the last urQueueFinish.
FinishDrains ==
  \A t \in Threads :
    pc[t] = "return" /\ call[t].op = "finish" => call[t].before \subseteq done

\* When urEventWait returns, every command of the list is done, although it waits
\* for one event of each stream only; a blocking copy returns after its copy.
HostWaitsTruthful ==
  \A t \in Threads : pc[t] = "return" =>
    /\ call[t].op = "wait" => call[t].list \subseteq done
    /\ call[t].op = "read" => call[t].id \in done

\* No finish of q is between its moving LastSync and its last stream.
NotFinishing(q) ==
  \A t \in Threads : ~(call[t].q = q /\ pc[t] \in {"syncCompute", "syncTransfer"})

\* A command whose token hasBeenSynchronized accepts is done: the barrier with a
\* wait list skips its event, and no command reuses its stream.
SyncedTokensDone ==
  \A i \in Returned :
    NotFinishing(QueueOf(i)) /\ HasBeenSynchronized(QueueOf(i), event[i].token)
      => i \in done

\* Between calls, every stream with unfinished work is in the range that the next
\* syncStreams visits.
PendingInRange ==
  (\A t \in Threads : pc[t] = "idle") =>
     \A s \in Streams : ~(front[s] \subseteq done) => s \in SyncRange(s[1])

=============================================================================
