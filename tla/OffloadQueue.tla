---------------------------- MODULE OffloadQueue ----------------------------
(***************************************************************************)
(* The queue of the LLVM Offload adapter (offload/queue.hpp, queue.cpp,    *)
(* enqueue.cpp, event.cpp).  An out-of-order queue is a bank of in-order   *)
(* queues of liboffload, used round-robin and created when first needed;   *)
(* an in-order queue is a bank of one.  OooMutex guards the offset and the *)
(* barrier only: the waits and launches on the chosen queue are not        *)
(* covered by it.                                                          *)
(*                                                                         *)
(* Each ol queue is a lane (module Lanes).  The calls urEnqueueEventsWait  *)
(* and urEnqueueEventsWaitWithBarrier count as commands, done when their   *)
(* event is.                                                               *)
(***************************************************************************)
EXTENDS Lanes

CONSTANTS Threads,    \* host threads
          Slots,      \* OffloadQueues.size(): OOO_QUEUE_POOL_SIZE, 1 if in order
          FailSlots,  \* slots whose olCreateQueue may fail
          Ops,        \* the API calls the threads make
          MaxWaits,   \* bound on the length of an event wait list
          MaxErrors,  \* bound on the calls that return an error
          None        \* "no thread"

\* Commands of the device (kernels, fills, copies that do not block, prefetches, and
\* the maps and unmaps that move no data), blocking copies, ...
Commands == {"kernel", "copy"}
\* ... the two calls of doWait, and the host's waits.
Waits == {"eventswait", "barrier"}
AllOps == Commands \cup Waits \cup {"wait", "finish"}

ASSUME SlotsAssumption == Slots \in Nat \ {0}
ASSUME FailAssumption == FailSlots \subseteq 0 .. Slots - 1
ASSUME OpsAssumption == Ops \subseteq AllOps
ASSUME BoundAssumption == MaxWaits \in Nat /\ MaxErrors \in Nat
ASSUME NoneAssumption == None \notin Threads

Bank == 0 .. Slots - 1
InOrder == Slots = 1

VARIABLES
  created,  \* the slots of OffloadQueues that are not null
  offset,   \* QueueOffset
  barrier,  \* Barrier: the front of its event, {} if there is none
  mutex,    \* OooMutex
  event,    \* the front of the OffloadEvent of each command
  kind, needs, issued, \* (auxiliary) as in AbstractQueue
  calls,    \* commands enqueued so far (bounded by MaxCommands)
  errors,   \* calls that returned an error (bounded by MaxErrors)
  pc, call, \* where each thread is, and its call
  target,   \* the ol queue each call has got
  scan,     \* the slot at which its loop over OffloadQueues is
  handles   \* OffloadHandles: what the events doWait has created stand for

vars == <<lanes, created, offset, barrier, mutex, event, kind, needs, issued,
          calls, errors, pc, call, target, scan, handles>>
bankVars == <<created, offset, barrier, mutex>>
promise == <<kind, needs, issued>>
bounds == <<calls, errors>>
locals == <<call, target, scan, handles>>

NoCall == [op |-> "none", id |-> 0, list |-> {}, owed |-> {}]

Contract == INSTANCE AbstractQueue WITH
  Commands <- Ids,
  call <- [t \in Threads |-> [cmd |-> IF call[t].id = 0 THEN {} ELSE {call[t].id},
                              owed |-> call[t].owed]]

\* urQueueCreate: the queue of an in-order queue is created on construction
Init ==
  /\ LanesInit(Bank)
  /\ created = IF InOrder THEN {0} ELSE {}
  /\ offset = IF InOrder THEN 1 ELSE 0
  /\ barrier = {} /\ mutex = None
  /\ event = [i \in Ids |-> {}]
  /\ kind = [i \in Ids |-> "none"] /\ needs = [i \in Ids |-> {}] /\ issued = {}
  /\ calls = 0 /\ errors = 0
  /\ pc = [t \in Threads |-> "idle"]
  /\ call = [t \in Threads |-> NoCall]
  /\ target = [t \in Threads |-> 0]
  /\ scan = [t \in Threads |-> 0]
  /\ handles = [t \in Threads |-> {}]

Goto(t, label) == pc' = [pc EXCEPT ![t] = label]

KindOf(op) ==
  CASE op \in Commands -> "plain"
    [] op = "eventswait" -> "marker"
    [] op = "barrier" -> "barrier"

-----------------------------------------------------------------------------
\* A thread calls the API.  Wait lists hold events that earlier calls returned.

CallEnqueue(t) ==
  /\ pc[t] = "idle"
  /\ calls < MaxCommands
  /\ \E op \in Ops \cap (Commands \cup Waits), list \in SUBSET issued :
       /\ Cardinality(list) <= MaxWaits
       /\ calls' = calls + 1
       /\ call' = [call EXCEPT ![t] =
            [op |-> op, id |-> calls + 1, list |-> list,
             owed |-> IF op = "copy" THEN {calls + 1} ELSE {}]]
       /\ kind' = [kind EXCEPT ![calls + 1] = KindOf(op)]
       /\ needs' = [needs EXCEPT ![calls + 1] =
                      Contract!OrderedAfter(KindOf(op), list)]
       /\ Goto(t, IF op \in Waits THEN "lock" ELSE "next")
  /\ UNCHANGED <<lanes, bankVars, event, issued, errors, target, scan, handles>>

\* urEventWait and urQueueFinish
CallWait(t) ==
  /\ pc[t] = "idle"
  /\ \E op \in Ops \cap {"wait", "finish"}, list \in SUBSET issued :
       /\ op = "wait" => list # {} /\ Cardinality(list) <= MaxWaits
       /\ op = "finish" => list = issued
       /\ call' = [call EXCEPT ![t] =
                     [op |-> op, id |-> 0, list |-> list, owed |-> list]]
       /\ Goto(t, IF op = "wait" THEN "eventWait" ELSE "sync")
  /\ UNCHANGED <<lanes, bankVars, event, promise, bounds, target, scan, handles>>

Leave(t) ==
  /\ Goto(t, "idle")
  /\ call' = [call EXCEPT ![t] = NoCall]
  /\ target' = [target EXCEPT ![t] = 0]
  /\ scan' = [scan EXCEPT ![t] = 0]
  /\ handles' = [handles EXCEPT ![t] = {}]

\* The call returns; its event, if any, is the caller's.
ReturnOk(t) ==
  /\ issued' = IF call[t].id = 0 THEN issued ELSE issued \cup {call[t].id}
  /\ Leave(t)
  /\ UNCHANGED <<kind, needs>>

\* The call returns an error, with OooMutex released.
ReturnError(t) ==
  /\ errors < MaxErrors
  /\ errors' = errors + 1
  /\ Leave(t)

-----------------------------------------------------------------------------
\* nextQueueNoLock

\* Variant: a queue that is created late does not wait for the barrier.
NextQueueNoLock_NoBarrier(t) ==
  LET s == offset % Slots IN
  /\ offset' = offset + 1
  /\ target' = [target EXCEPT ![t] = s]
  /\ created' = created \cup {s}
  /\ UNCHANGED lanes

\* Variant: the new queue is put into a copy of the slot.
NextQueueNoLock_NotStored(t) ==
  LET s == offset % Slots IN
  /\ offset' = offset + 1
  /\ target' = [target EXCEPT ![t] = s]
  /\ IF s \in created THEN UNCHANGED lanes ELSE WaitOn(s, barrier)
  /\ UNCHANGED created

\* The next slot of the bank; if it is null its queue is created, and waits for the
\* last barrier.
NextQueueNoLock(t) ==
  LET s == offset % Slots IN
  /\ offset' = offset + 1
  /\ target' = [target EXCEPT ![t] = s]
  /\ created' = created \cup {s}
  /\ IF s \in created THEN UNCHANGED lanes ELSE WaitOn(s, barrier)

\* olCreateQueue fails: the offset has moved on all the same.
NextQueueFails(t) ==
  LET s == offset % Slots IN
  /\ s \in FailSlots \ created
  /\ offset' = offset + 1
  /\ ReturnError(t)
  /\ UNCHANGED <<lanes, created, barrier, event, promise, calls>>

AfterWaits(t) == IF call[t].op = "copy" THEN "syncCopy" ELSE "launch"

\* nextQueue, under OooMutex
NextQueue(t) ==
  /\ pc[t] = "next"
  /\ mutex = None
  /\ NextQueueNoLock(t)
  /\ Goto(t, IF call[t].list # {} THEN "waits" ELSE AfterWaits(t))
  /\ UNCHANGED <<barrier, mutex, event, promise, bounds, call, scan, handles>>

NextQueueError(t) ==
  /\ pc[t] = "next"
  /\ mutex = None
  /\ NextQueueFails(t)
  /\ UNCHANGED mutex

-----------------------------------------------------------------------------
\* Commands: what follows nextQueue runs without OooMutex.

\* The fronts of the events of a wait list; the event of a blocking copy is null and
\* is skipped.
EventsOf(list) == UNION {event[e] : e \in list}

\* waitOnEvents
WaitOnEvents(t) ==
  /\ pc[t] = "waits"
  /\ WaitOn(target[t], EventsOf(call[t].list))
  /\ Goto(t, AfterWaits(t))
  /\ UNCHANGED <<bankVars, event, promise, bounds, locals>>

\* olLaunchKernel, olMemFill, olMemcpy
Launch(t) ==
  /\ pc[t] = "launch"
  /\ Put(call[t].id, target[t])
  /\ Goto(t, "makeEvent")
  /\ UNCHANGED <<bankVars, event, promise, bounds, locals>>

\* The launch is refused, e.g. for its work-group size; the waits stay on the queue.
RejectLaunch(t) ==
  /\ pc[t] = "launch"
  /\ ReturnError(t)
  /\ UNCHANGED <<lanes, bankVars, event, promise, calls>>

\* makeEvent: the event stands for all the queue holds by now
MakeEvent(t) ==
  /\ pc[t] = "makeEvent"
  /\ event' = [event EXCEPT ![call[t].id] = front[target[t]]]
  /\ ReturnOk(t)
  /\ UNCHANGED <<lanes, bankVars, bounds>>

\* doMemcpy, blocking: olSyncQueue, ...
SyncCopy(t) ==
  /\ pc[t] = "syncCopy"
  /\ Drained(target[t])
  /\ Goto(t, "hostCopy")
  /\ UNCHANGED <<lanes, bankVars, event, promise, bounds, locals>>

\* ... then olMemcpy without a queue, ...
HostCopy(t) ==
  /\ pc[t] = "hostCopy"
  /\ RunOnHost(call[t].id)
  /\ Goto(t, "copied")
  /\ UNCHANGED <<bankVars, event, promise, bounds, locals>>

\* ... and an event that is null
ReturnCopy(t) ==
  /\ pc[t] = "copied"
  /\ ReturnOk(t)
  /\ UNCHANGED <<lanes, bankVars, event, bounds>>

-----------------------------------------------------------------------------
\* doWait, which holds OooMutex to its end.

\* On an in-order queue a call without a wait list takes no more than an event; an
\* out-of-order queue goes through its other queues first.
LockWait(t) ==
  /\ pc[t] = "lock"
  /\ mutex = None
  /\ mutex' = t
  /\ NextQueueNoLock(t)
  /\ Goto(t, IF call[t].list # {} THEN "waitList"
             ELSE IF InOrder THEN "signal" ELSE "gather")
  /\ UNCHANGED <<barrier, event, promise, bounds, call, scan, handles>>

LockWaitError(t) ==
  /\ pc[t] = "lock"
  /\ mutex = None
  /\ NextQueueFails(t)
  /\ UNCHANGED mutex

\* The end of the loops over OffloadQueues: they break at the first null slot.
AtEnd(t) == scan[t] \notin created

\* Variant: leaves out the last slot of the bank.
Gather_OffByOne(t) ==
  LET s == scan[t] IN
  /\ pc[t] = "gather"
  /\ s # Slots - 1 /\ ~AtEnd(t)
  /\ handles' = IF s = target[t] THEN handles
                ELSE [handles EXCEPT ![t] = @ \cup front[s]]
  /\ scan' = [scan EXCEPT ![t] = s + 1]
  /\ UNCHANGED <<lanes, bankVars, event, promise, bounds, pc, call, target>>

\* olCreateEvent on each other queue, ...
Gather(t) ==
  LET s == scan[t] IN
  /\ pc[t] = "gather"
  /\ ~AtEnd(t)
  /\ handles' = IF s = target[t] THEN handles
                ELSE [handles EXCEPT ![t] = @ \cup front[s]]
  /\ scan' = [scan EXCEPT ![t] = s + 1]
  /\ UNCHANGED <<lanes, bankVars, event, promise, bounds, pc, call, target>>

\* ... olWaitEvents for them
Gathered(t) ==
  /\ pc[t] = "gather"
  /\ AtEnd(t)
  /\ WaitOn(target[t], handles[t])
  /\ handles' = [handles EXCEPT ![t] = {}]
  /\ Goto(t, "signal")
  /\ UNCHANGED <<bankVars, event, promise, bounds, call, target, scan>>

WaitOnList(t) ==
  /\ pc[t] = "waitList"
  /\ WaitOn(target[t], EventsOf(call[t].list))
  /\ Goto(t, "signal")
  /\ UNCHANGED <<bankVars, event, promise, bounds, locals>>

\* makeEvent; a barrier stores the event in Barrier (an in-order queue without a wait
\* list has returned before that)
Signal(t) ==
  LET id == call[t].id IN
  /\ pc[t] = "signal"
  /\ Put(id, target[t])
  /\ event' = [event EXCEPT ![id] = {id}]
  /\ IF call[t].op = "barrier" /\ ~(InOrder /\ call[t].list = {})
     THEN /\ barrier' = {id}
          /\ scan' = [scan EXCEPT ![t] = 0]
          /\ Goto(t, "spread")
          /\ UNCHANGED <<mutex, promise, call, target, handles>>
     ELSE /\ mutex' = None
          /\ ReturnOk(t)
          /\ UNCHANGED barrier
  /\ UNCHANGED <<created, offset, bounds>>

\* Every other queue waits for the barrier.
Spread(t) ==
  LET s == scan[t] IN
  /\ pc[t] = "spread"
  /\ ~AtEnd(t)
  /\ IF s = target[t] THEN UNCHANGED lanes ELSE WaitOn(s, barrier)
  /\ scan' = [scan EXCEPT ![t] = s + 1]
  /\ UNCHANGED <<bankVars, event, promise, bounds, pc, call, target, handles>>

EndSpread(t) ==
  /\ pc[t] = "spread"
  /\ AtEnd(t)
  /\ mutex' = None
  /\ ReturnOk(t)
  /\ UNCHANGED <<lanes, created, offset, barrier, event, bounds>>

-----------------------------------------------------------------------------
\* urQueueFinish and urEventWait, without a lock

\* olSyncQueue of one queue after the other
SyncQueue(t) ==
  /\ pc[t] = "sync"
  /\ ~AtEnd(t)
  /\ Drained(scan[t])
  /\ scan' = [scan EXCEPT ![t] = @ + 1]
  /\ UNCHANGED <<lanes, bankVars, event, promise, bounds, pc, call, target, handles>>

EndSync(t) ==
  /\ pc[t] = "sync"
  /\ AtEnd(t)
  /\ ReturnOk(t)
  /\ UNCHANGED <<lanes, bankVars, event, bounds>>

\* olSyncEvent of each event
EventWait(t) ==
  /\ pc[t] = "eventWait"
  /\ EventsOf(call[t].list) \subseteq done
  /\ ReturnOk(t)
  /\ UNCHANGED <<lanes, bankVars, event, bounds>>

Execute ==
  /\ \E i \in Ids : Complete(i)
  /\ UNCHANGED <<bankVars, event, promise, bounds, pc, locals>>

Step(t) ==
  \/ NextQueue(t) \/ WaitOnEvents(t) \/ Launch(t) \/ MakeEvent(t)
  \/ SyncCopy(t) \/ HostCopy(t) \/ ReturnCopy(t)
  \/ LockWait(t) \/ Gather(t) \/ Gathered(t) \/ WaitOnList(t)
  \/ Signal(t) \/ Spread(t) \/ EndSpread(t)
  \/ SyncQueue(t) \/ EndSync(t) \/ EventWait(t)

Error(t) == NextQueueError(t) \/ LockWaitError(t) \/ RejectLaunch(t)

Next ==
  \/ Execute
  \/ \E t \in Threads : CallEnqueue(t) \/ CallWait(t) \/ Step(t) \/ Error(t)

Spec == Init /\ [][Next]_vars

-----------------------------------------------------------------------------
Labels == {"idle", "next", "waits", "launch", "makeEvent", "syncCopy", "hostCopy",
           "lock", "gather", "waitList", "signal", "spread", "sync", "eventWait",
           "copied"}

\* Every variable has its type, and a lane is only used once it was created.
TypeOK ==
  /\ front \in [Bank -> SUBSET launched] /\ deps \in [Ids -> SUBSET launched]
  /\ done \subseteq launched /\ launched \subseteq Ids
  /\ created \subseteq Bank /\ offset \in Nat
  /\ barrier \subseteq launched
  /\ mutex \in Threads \cup {None}
  /\ event \in [Ids -> SUBSET launched]
  /\ kind \in [Ids -> Contract!Kinds \cup {"none"}]
  /\ needs \in [Ids -> SUBSET issued] /\ issued \subseteq launched
  /\ calls \in 0 .. MaxCommands /\ errors \in 0 .. MaxErrors
  /\ pc \in [Threads -> Labels]
  /\ call \in [Threads -> [op : AllOps \cup {"none"}, id : 0 .. MaxCommands,
                           list : SUBSET issued, owed : SUBSET Ids]]
  /\ target \in [Threads -> Bank]
  /\ scan \in [Threads -> 0 .. Slots]
  /\ handles \in [Threads -> SUBSET launched]
  /\ \A s \in Bank : front[s] # {} => s \in created

\* The queue keeps the promises of the API (module AbstractQueue): a command runs
\* after its wait list, after every barrier before it and, for a barrier or a marker
\* without a wait list, after everything enqueued before it, although these are
\* spread over a bank of queues that grows meanwhile; urQueueFinish, urEventWait and
\* blocking copies return when what they wait for is done.
ImplementsQueue == Contract!Spec

=============================================================================
