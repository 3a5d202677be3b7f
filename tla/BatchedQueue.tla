---------------------------- MODULE BatchedQueue ----------------------------
(***************************************************************************)
(* The batched queue of the Level Zero v2 adapter (queue_batched.cpp,      *)
(* queue_batched.hpp): commands are recorded in a regular command list     *)
(* (the active batch) and run only once that list is appended to the       *)
(* queue's immediate command list.  Several threads call several queues;   *)
(* the fields of batch_manager are guarded by the lock of currentCmdLists, *)
(* which a thread keeps while it waits for the device.  The context may    *)
(* also hold immediate in-order queues (queue_immediate_in_order.cpp),     *)
(* whose commands go to the device at once.                                *)
(***************************************************************************)
EXTENDS Integers, Sequences, FiniteSets

CONSTANTS Threads,  \* host threads that call the API
          Queues,   \* batched queues of one context
          ImmQueues,\* immediate in-order queues of the same context
          Lists,    \* regular command lists, in use or in the cache
          Slots,    \* initialSlotsForBatches
          MaxOps,   \* maxNumberOfEnqueuedOperations
          Kinds,    \* the API calls the threads make
          MaxWaits, \* bound on the length of an event wait list
          MaxCalls, \* bound on the number of API calls
          None      \* "no thread"

\* Calls that append a command and count it in the batch, ...
Marked == {"op", "blockingop", "barrier"}
\* ... that append to the immediate list, and that append nothing.
Direct == {"cmdbuf"}
AllKinds == Marked \cup Direct \cup
            {"hosttask", "wait", "flush", "finish", "begincapture", "endcapture"}

ASSUME SlotsAssumption == Slots \in Nat \ {0}
ASSUME MaxOpsAssumption == MaxOps \in Nat \ {0}
ASSUME BoundsAssumption == MaxCalls \in Nat /\ MaxWaits \in Nat
ASSUME KindsAssumption == Kinds \subseteq AllKinds
ASSUME NoneAssumption == None \notin Threads \cup Queues \cup ImmQueues \cup Lists
ASSUME QueuesAssumption == Queues \cap ImmQueues = {}

AllQueues == Queues \cup ImmQueues

VARIABLES
  lock,    \* the thread that holds the lock of the queue's command lists
  batch,   \* batch_manager, per queue
  listCmds,\* commands recorded in each regular command list
  imm,     \* commands appended to the immediate list and not yet executed
  cmd,     \* every command appended so far, in the order of the appends
  done,    \* commands the device has executed
  events,  \* commands whose event was returned to the application
  kernels, \* commands whose kernel the queue retains (submittedKernels)
  pc,      \* where each thread is
  call,    \* the API call it is in
  after,   \* where it goes on once queueFinishUnlocked returns
  calls    \* number of API calls made (bounded by MaxCalls)

vars == <<lock, batch, listCmds, imm, cmd, done, events, kernels, pc, call,
          after, calls>>

NoGen == -1
\* The elements of a sequence.
InSeq(s) == {s[i] : i \in 1 .. Len(s)}
Ids == 1 .. Len(cmd)
NoCall == [kind |-> "flush", q |-> None, waits |-> {}, todo |-> {}, id |-> 0]

FreeLists == Lists \ UNION {batch[q].run \cup {batch[q].active} : q \in Queues}

\* Variant: off by one, the limit is noticed one batch too late.
UsedListsLimit_OffByOne(b) == Slots < Cardinality(b.run)

\* batch_manager::isLimitOfUsedCommandListsReached
UsedListsLimit(b) == Slots <= Cardinality(b.run)
\* batch_manager::isLimitOfEnqueuedCommandsReached
EnqueuedLimit(b) == MaxOps <= b.ops
\* batch_manager::isActiveBatchEmpty
ActiveEmpty(b) == b.ops = 0

\* ur_queue_batched_t::ur_queue_batched_t, one queue per element of Queues, each
\* with a regular list of its own out of the context's cache.
Init ==
  /\ \E a \in [Queues -> Lists] :
       /\ \A p, q \in Queues : a[p] = a[q] => p = q
       /\ batch = [q \in Queues |-> [gen |-> 0, ops |-> 0, active |-> a[q],
                                     run |-> {}, capture |-> FALSE]]
  /\ lock = [q \in AllQueues |-> None]
  /\ listCmds = [l \in Lists |-> <<>>]
  /\ imm = [q \in AllQueues |-> <<>>]
  /\ cmd = <<>>
  /\ done = {}
  /\ events = {}
  /\ kernels = [q \in AllQueues |-> {}]
  /\ pc = [t \in Threads |-> "idle"]
  /\ call = [t \in Threads |-> NoCall]
  /\ after = [t \in Threads |-> "idle"]
  /\ calls = 0

-----------------------------------------------------------------------------
\* Steps shared by the calls; the lock of q is held by t.

Goto(t, label) == pc' = [pc EXCEPT ![t] = label]

\* batch_manager::enqueueCurrentBatchUnlocked
Submit(q) == imm' = [imm EXCEPT ![q] = @ \o listCmds[batch[q].active]]

\* Variant: synchronizes without submitting the active batch.
FinishUnlocked_NoSubmit(t, q, next) ==
  /\ Goto(t, "sync")
  /\ after' = [after EXCEPT ![t] = next]
  /\ UNCHANGED <<imm, batch, listCmds>>

\* queueFinishUnlocked up to hostSynchronize, which Synchronize completes.
FinishUnlocked(t, q, next) ==
  /\ IF batch[q].capture
     THEN Goto(t, next) /\ UNCHANGED <<imm, after>>
     ELSE /\ IF ActiveEmpty(batch[q]) THEN UNCHANGED imm ELSE Submit(q)
          /\ Goto(t, "sync")
          /\ after' = [after EXCEPT ![t] = next]
  /\ UNCHANGED <<batch, listCmds>>

\* Variant: the generation number is not increased.
Renewed_SameGeneration(b, l) ==
  [gen |-> b.gen, ops |-> 0, active |-> l, run |-> b.run \cup {b.active},
   capture |-> b.capture]

\* batch_manager::renewRegularUnlocked
Renewed(b, l) ==
  [gen |-> b.gen + 1, ops |-> 0, active |-> l, run |-> b.run \cup {b.active},
   capture |-> b.capture]

\* renewBatchUnlocked: any free list is what the command list cache may return,
\* emptied by zeCommandListReset or new.
RenewBatch(t, q, next) ==
  IF UsedListsLimit(batch[q])
  THEN FinishUnlocked(t, q, next)
  ELSE /\ Submit(q)
       /\ \E l \in FreeLists :
            /\ batch' = [batch EXCEPT ![q] = Renewed(@, l)]
            /\ listCmds' = [listCmds EXCEPT ![l] = <<>>]
       /\ Goto(t, next)
       /\ UNCHANGED after

-----------------------------------------------------------------------------
\* The calls of an immediate queue that change its state.
ImmKinds == {"op", "blockingop", "cmdbuf", "wait", "finish"}

\* Variant: the comparison with the current queue is inverted.
HandedOver_OwnQueue(k, q, W) ==
  {e \in W : cmd[e].gen # NoGen /\ (k = "wait" \/ cmd[e].q = q)}

\* getZeHandlesBuffer: the events of wait list W that are handed to onWaitListUse
\* by a call of kind k on q.  Those are the events with a generation that another
\* queue made.  urEventWait has no current queue and hands over each event; the
\* wait_list_view of an immediate queue hands over none.
HandedOver(k, q, W) ==
  {e \in W : /\ cmd[e].gen # NoGen
             /\ \/ k = "wait"
                \/ q \in Queues /\ cmd[e].q # q}

\* An API call starts.
Call(t, k, q, W) ==
  /\ pc[t] = "idle"
  /\ calls < MaxCalls
  /\ W \subseteq events
  /\ Cardinality(W) <= MaxWaits
  /\ k \in {"flush", "finish", "begincapture", "endcapture"} => W = {}
  /\ k = "wait" => \E e \in W : W = {e} /\ q = cmd[e].q
  /\ q \in ImmQueues => k \in ImmKinds
  /\ calls' = calls + 1
  /\ call' = [call EXCEPT ![t] =
       [kind |-> k, q |-> q, waits |-> W, id |-> 0,
        todo |-> HandedOver(k, q, W)]]
  /\ Goto(t, "waitlist")
  /\ UNCHANGED <<lock, batch, listCmds, imm, cmd, done, events, kernels, after>>

\* onEventWaitListUse on the queue that made the event.
OnEventWaitListUse(t, e) ==
  LET q == cmd[e].q IN
  /\ pc[t] = "waitlist"
  /\ e \in call[t].todo
  /\ lock[q] = None
  /\ call' = [call EXCEPT ![t].todo = @ \ {e}]
  /\ IF cmd[e].gen = batch[q].gen
     THEN lock' = [lock EXCEPT ![q] = t] /\ RenewBatch(t, q, "release")
     ELSE UNCHANGED <<lock, batch, listCmds, imm, pc, after>>
  /\ UNCHANGED <<cmd, done, events, kernels, calls>>

\* onEventWaitListUse returns and gives the lock back.
Release(t, q) ==
  /\ pc[t] = "release"
  /\ lock[q] = t
  /\ lock' = [lock EXCEPT ![q] = None]
  /\ Goto(t, "waitlist")
  /\ UNCHANGED <<batch, listCmds, imm, cmd, done, events, kernels, call, after,
                 calls>>

\* The wait list is dealt with: the call k locks its own queue.
Enter(t, q, k) ==
  /\ pc[t] = "waitlist"
  /\ call[t].kind = k
  /\ call[t].q = q
  /\ call[t].todo = {}
  /\ lock[q] = None
  /\ lock' = [lock EXCEPT ![q] = t]
  /\ UNCHANGED <<cmd, done, events, kernels, call, calls>>

\* markIssuedCommandInBatch, up to the count that Append makes.
MarkIssued(t, q) ==
  /\ \E k \in Marked : Enter(t, q, k)
  /\ IF ~batch[q].capture /\ EnqueuedLimit(batch[q])
     THEN FinishUnlocked(t, q, "append")
     ELSE Goto(t, "append") /\ UNCHANGED <<batch, listCmds, imm, after>>

\* enqueueHostTaskExp appends without markIssuedCommandInBatch.
EnqueueHostTask(t, q) ==
  /\ Enter(t, q, "hosttask")
  /\ Goto(t, "append")
  /\ UNCHANGED <<batch, listCmds, imm, after>>

\* Variant: the active batch is not submitted first.
EnqueueCommandBuffer_NoRenew(t, q) ==
  /\ Enter(t, q, "cmdbuf")
  /\ Goto(t, "append")
  /\ UNCHANGED <<batch, listCmds, imm, after>>

\* enqueueCommandBufferExp, enqueueGraphExp up to the append.
EnqueueCommandBuffer(t, q) ==
  /\ Enter(t, q, "cmdbuf")
  /\ IF ActiveEmpty(batch[q])
     THEN Goto(t, "append") /\ UNCHANGED <<batch, listCmds, imm, after>>
     ELSE RenewBatch(t, q, "append")

\* recordSubmittedKernel: the list manager retains the kernel of a launch.
Retained(q, k, id) ==
  IF k = "op" THEN [kernels EXCEPT ![q] = @ \cup {id}] ELSE kernels

\* The append to the list manager.  While a graph is captured the command goes
\* into the graph and does not run.
AppendCommand(t, q) ==
  LET k == call[t].kind
      b == batch[q]
      id == Len(cmd) + 1
      new == [q |-> q, kind |-> k, waits |-> call[t].waits,
              gen |-> IF k \in Direct THEN NoGen ELSE b.gen,
              list |-> IF k \in Direct THEN None ELSE b.active]
  IN
  /\ pc[t] = "append"
  /\ lock[q] = t
  /\ IF b.capture
     THEN UNCHANGED <<cmd, imm, listCmds, batch, kernels, call>>
     ELSE /\ cmd' = Append(cmd, new)
          /\ call' = [call EXCEPT ![t].id = id]
          /\ IF k \in Direct
             THEN /\ imm' = [imm EXCEPT ![q] = Append(@, id)]
                  /\ UNCHANGED <<batch, listCmds, kernels>>
             ELSE /\ listCmds' = [listCmds EXCEPT ![b.active] = Append(@, id)]
                  /\ batch' = IF k \in Marked
                              THEN [batch EXCEPT ![q].ops = @ + 1]
                              ELSE batch
                  /\ kernels' = Retained(q, k, id)
                  /\ UNCHANGED imm
  /\ Goto(t, IF k \in {"blockingop", "barrier"} THEN "post" ELSE "return")
  /\ UNCHANGED <<lock, done, events, after, calls>>

\* What the enqueue functions do after the append: a blocking read or write
\* finishes the queue; event waits, barriers, asynchronous USM allocations and
\* external semaphores renew the batch.
AfterAppend(t, q) ==
  /\ pc[t] = "post"
  /\ lock[q] = t
  /\ IF call[t].kind = "barrier" THEN RenewBatch(t, q, "return")
                                 ELSE FinishUnlocked(t, q, "return")
  /\ UNCHANGED <<lock, cmd, done, events, kernels, call, calls>>

\* queueFlush
QueueFlush(t, q) ==
  /\ Enter(t, q, "flush")
  /\ IF batch[q].capture \/ ActiveEmpty(batch[q])
     THEN Goto(t, "return") /\ UNCHANGED <<batch, listCmds, imm, after>>
     ELSE RenewBatch(t, q, "return")

\* queueFinish
QueueFinish(t, q) == Enter(t, q, "finish") /\ FinishUnlocked(t, q, "return")

\* queueBeginGraphCapteExp, queueBeginCapteIntoGraphExp
BeginGraphCapture(t, q) ==
  /\ Enter(t, q, "begincapture")
  /\ IF ActiveEmpty(batch[q])
     THEN Goto(t, "capture") /\ UNCHANGED <<batch, listCmds, imm, after>>
     ELSE RenewBatch(t, q, "capture")

SetGraphCapture(t, q) ==
  /\ pc[t] = "capture"
  /\ lock[q] = t
  /\ batch' = [batch EXCEPT ![q].capture = TRUE]
  /\ Goto(t, "return")
  /\ UNCHANGED <<lock, listCmds, imm, cmd, done, events, kernels, call, after,
                 calls>>

\* queueEndGraphCapteExp
EndGraphCapture(t, q) ==
  /\ Enter(t, q, "endcapture")
  /\ batch' = [batch EXCEPT ![q].capture = FALSE]
  /\ Goto(t, "return")
  /\ UNCHANGED <<listCmds, imm, after>>

\* batch_manager::batchFinish on the batch manager's fields
Finished(b) ==
  [gen |-> IF ActiveEmpty(b) THEN b.gen ELSE b.gen + 1, ops |-> 0,
   active |-> b.active, run |-> {}, capture |-> b.capture]

\* Variant: batchFinish does not wait for the immediate list.
Synchronize_NoWait(t, q) ==
  LET b == batch[q] IN
  /\ pc[t] = "sync"
  /\ lock[q] = t
  /\ kernels' = [kernels EXCEPT ![q] = {}]
  /\ listCmds' = IF ActiveEmpty(b) THEN listCmds
                 ELSE [listCmds EXCEPT ![b.active] = <<>>]
  /\ batch' = [batch EXCEPT ![q] = Finished(b)]
  /\ Goto(t, after[t])
  /\ after' = [after EXCEPT ![t] = "idle"]
  /\ UNCHANGED <<lock, imm, cmd, done, events, call, calls>>

\* hostSynchronize returns once the immediate list is drained; batchFinish
\* releases the kernels, resets the submitted list and empties runBatches.
Synchronize(t, q) ==
  LET b == batch[q] IN
  /\ pc[t] = "sync"
  /\ lock[q] = t
  /\ imm[q] = <<>>
  /\ kernels' = [kernels EXCEPT ![q] = {}]
  /\ listCmds' = IF ActiveEmpty(b) THEN listCmds
                 ELSE [listCmds EXCEPT ![b.active] = <<>>]
  /\ batch' = [batch EXCEPT ![q] = Finished(b)]
  /\ Goto(t, after[t])
  /\ after' = [after EXCEPT ![t] = "idle"]
  /\ UNCHANGED <<lock, imm, cmd, done, events, call, calls>>

\* Variant: an event is published also when the call made none.
Return_ZeroEvent(t, q) ==
  /\ pc[t] = "return"
  /\ lock[q] = t
  /\ lock' = [lock EXCEPT ![q] = None]
  /\ events' = events \cup {call[t].id}
  /\ call' = [call EXCEPT ![t] = NoCall]
  /\ Goto(t, "idle")
  /\ UNCHANGED <<batch, listCmds, imm, cmd, done, kernels, after, calls>>

\* Variant: the lock is kept.
Return_KeepsLock(t, q) ==
  /\ pc[t] = "return"
  /\ lock[q] = t
  /\ events' = events \cup ({call[t].id} \ {0})
  /\ call' = [call EXCEPT ![t] = NoCall]
  /\ Goto(t, "idle")
  /\ UNCHANGED <<lock, batch, listCmds, imm, cmd, done, kernels, after, calls>>

\* The call returns: the lock is released, the event belongs to the application.
Return(t, q) ==
  /\ pc[t] = "return"
  /\ lock[q] = t
  /\ lock' = [lock EXCEPT ![q] = None]
  /\ events' = events \cup ({call[t].id} \ {0})
  /\ call' = [call EXCEPT ![t] = NoCall]
  /\ Goto(t, "idle")
  /\ UNCHANGED <<batch, listCmds, imm, cmd, done, kernels, after, calls>>

\* The enqueue functions of ur_queue_immediate_in_order_t: the command goes to the
\* immediate list, and a blocking one waits for the list with the lock held.
ImmEnqueue(t, q) ==
  /\ \E k \in {"op", "blockingop", "cmdbuf"} : Enter(t, q, k)
  /\ Goto(t, "append")
  /\ UNCHANGED <<batch, listCmds, imm, after>>

ImmAppend(t, q) ==
  LET id == Len(cmd) + 1
      blocking == call[t].kind = "blockingop"
  IN
  /\ pc[t] = "append"
  /\ lock[q] = t
  /\ cmd' = Append(cmd, [q |-> q, kind |-> call[t].kind, waits |-> call[t].waits,
                         gen |-> NoGen, list |-> None])
  /\ call' = [call EXCEPT ![t].id = id]
  /\ imm' = [imm EXCEPT ![q] = Append(@, id)]
  /\ kernels' = Retained(q, call[t].kind, id)
  /\ Goto(t, IF blocking THEN "sync" ELSE "return")
  /\ after' = [after EXCEPT ![t] = IF blocking THEN "return" ELSE @]
  /\ UNCHANGED <<lock, batch, listCmds, done, events, calls>>

\* ur_queue_immediate_in_order_t::queueFinish up to zeCommandListHostSynchronize
ImmFinish(t, q) ==
  /\ Enter(t, q, "finish")
  /\ Goto(t, "sync")
  /\ after' = [after EXCEPT ![t] = "return"]
  /\ UNCHANGED <<batch, listCmds, imm>>

\* Variant: queueFinish gives up waiting (a finite timeout).
ImmSynchronize_TimesOut(t, q) ==
  /\ pc[t] = "sync"
  /\ lock[q] = t
  /\ kernels' = IF call[t].kind = "finish" THEN [kernels EXCEPT ![q] = {}]
                                           ELSE kernels
  /\ Goto(t, after[t])
  /\ after' = [after EXCEPT ![t] = "idle"]
  /\ UNCHANGED <<lock, batch, listCmds, imm, cmd, done, events, call, calls>>

\* zeCommandListHostSynchronize returns; only queueFinish releases the kernels.
ImmSynchronize(t, q) ==
  /\ pc[t] = "sync"
  /\ lock[q] = t
  /\ imm[q] = <<>>
  /\ kernels' = IF call[t].kind = "finish" THEN [kernels EXCEPT ![q] = {}]
                                           ELSE kernels
  /\ Goto(t, after[t])
  /\ after' = [after EXCEPT ![t] = "idle"]
  /\ UNCHANGED <<lock, batch, listCmds, imm, cmd, done, events, call, calls>>

\* urEventWait after onWaitListUse: zeEventHostSynchronize.
EventHostSynchronize(t) ==
  /\ pc[t] = "waitlist"
  /\ call[t].kind = "wait"
  /\ call[t].todo = {}
  /\ call[t].waits \subseteq done
  /\ call' = [call EXCEPT ![t] = NoCall]
  /\ Goto(t, "idle")
  /\ UNCHANGED <<lock, batch, listCmds, imm, cmd, done, events, kernels, after,
                 calls>>

\* The device runs the commands of an in-order immediate list one by one, each
\* once the events it waits on are signalled.
Execute(q) ==
  /\ imm[q] # <<>>
  /\ cmd[Head(imm[q])].waits \subseteq done
  /\ done' = done \cup {Head(imm[q])}
  /\ imm' = [imm EXCEPT ![q] = Tail(@)]
  /\ UNCHANGED <<lock, batch, listCmds, cmd, events, kernels, pc, call, after,
                 calls>>

\* All calls have returned and the bound on their number is reached.
Quiescent ==
  /\ calls = MaxCalls
  /\ \A t \in Threads : pc[t] = "idle"
  /\ \A q \in AllQueues : imm[q] = <<>>
  /\ UNCHANGED vars

Step(t) ==
  \/ \E e \in call[t].todo : OnEventWaitListUse(t, e)
  \/ EventHostSynchronize(t)
  \/ \E q \in Queues :
       \/ Release(t, q)
       \/ MarkIssued(t, q)
       \/ EnqueueHostTask(t, q)
       \/ EnqueueCommandBuffer(t, q)
       \/ AppendCommand(t, q)
       \/ AfterAppend(t, q)
       \/ QueueFlush(t, q)
       \/ QueueFinish(t, q)
       \/ BeginGraphCapture(t, q)
       \/ SetGraphCapture(t, q)
       \/ EndGraphCapture(t, q)
       \/ Synchronize(t, q)
  \/ \E q \in ImmQueues :
       \/ ImmEnqueue(t, q)
       \/ ImmAppend(t, q)
       \/ ImmFinish(t, q)
       \/ ImmSynchronize(t, q)
  \/ \E q \in AllQueues : Return(t, q)

Next ==
  \/ \E t \in Threads, k \in Kinds, q \in AllQueues, W \in SUBSET events :
       Call(t, k, q, W)
  \/ \E t \in Threads : Step(t)
  \/ \E q \in AllQueues : Execute(q)
  \/ Quiescent

Spec == Init /\ [][Next]_vars

\* Threads that have started a call go on, and so does the device.
Fairness == /\ \A t \in Threads : WF_vars(Step(t))
            /\ \A q \in AllQueues : WF_vars(Execute(q))

FairSpec == Spec /\ Fairness

-----------------------------------------------------------------------------
Labels == {"idle", "waitlist", "release", "append", "post", "capture", "sync",
           "return"}
InLock == Labels \ {"idle", "waitlist"}

BatchManager == [gen : Nat, ops : Nat, active : Lists, run : SUBSET Lists,
                 capture : BOOLEAN]
Command == [q : AllQueues, kind : AllKinds, waits : SUBSET Nat, gen : Int,
            list : Lists \cup {None}]
ApiCall == [kind : AllKinds, q : AllQueues \cup {None}, waits : SUBSET Nat,
            todo : SUBSET Nat, id : Nat]

\* The state of the queues, the device and the calls has its type; the events
\* returned and the commands executed are commands that were appended.
TypeOK ==
  /\ lock \in [AllQueues -> Threads \cup {None}]
  /\ batch \in [Queues -> BatchManager]
  /\ listCmds \in [Lists -> Seq(Nat)]
  /\ imm \in [AllQueues -> Seq(Nat)]
  /\ cmd \in Seq(Command)
  /\ done \subseteq Ids
  /\ events \subseteq Ids
  /\ kernels \in [AllQueues -> SUBSET Nat]
  /\ pc \in [Threads -> Labels]
  /\ call \in [Threads -> ApiCall]
  /\ after \in [Threads -> Labels]
  /\ calls \in 0 .. MaxCalls

Submitted == done \cup UNION {InSeq(imm[q]) : q \in AllQueues}

\* Comment of regularGenerationNumber: a command whose generation is below the
\* current one has been submitted; one of the current generation is still in
\* the active batch, unless queueFinish has just submitted it and still holds
\* the lock.
GenerationTruth ==
  \A c \in {i \in Ids : cmd[i].gen # NoGen} :
    LET b == batch[cmd[c].q] IN
      /\ cmd[c].gen <= b.gen
      /\ cmd[c].gen < b.gen => c \in Submitted
      /\ cmd[c].gen = b.gen => c \in InSeq(listCmds[b.active])

\* Comment of wait_list_view: "the constructor also ensures that all associated
\* operations will eventually be executed".  No command reaches the device
\* before the commands whose events it waits on have been submitted.
WaitsSubmitted ==
  \A q \in AllQueues : \A c \in InSeq(imm[q]) : cmd[c].waits \subseteq Submitted

\* A queue is in order: the commands run in the order they were enqueued, also
\* across the switch between the active batch and the immediate list.  A host task
\* can be overtaken, as enqueueHostTaskExp leaves the batch counted as empty.
RunsInOrder ==
  \A c \in done, d \in Ids :
    d < c /\ cmd[d].q = cmd[c].q /\ cmd[d].kind # "hosttask" => d \in done

\* urQueueFinish and a blocking read or write return only when every command
\* enqueued on the queue before has been executed.
FinishDrains ==
  \A t \in Threads :
    (/\ pc[t] = "return"
     /\ call[t].kind \in {"finish", "blockingop"}
     /\ call[t].q \in Queues => ~batch[call[t].q].capture)
      => \A c \in Ids : cmd[c].q = call[t].q => c \in done

\* A regular list is reset or returned to the cache only when the device is
\* through with it, and the kernels of a command are retained until it has run.
PendingCommandsOwned ==
  \A c \in Ids \ done :
    /\ cmd[c].list # None =>
         LET b == batch[cmd[c].q] IN
           /\ cmd[c].list \in b.run \cup {b.active}
           /\ c \in InSeq(listCmds[cmd[c].list])
    /\ cmd[c].kind = "op" => c \in kernels[cmd[c].q]

\* No two queues record into, or keep, the same regular list.
ListsApart ==
  \A p \in Queues :
    /\ batch[p].active \notin batch[p].run
    /\ \A q \in Queues \ {p} :
         (batch[p].run \cup {batch[p].active})
           \cap (batch[q].run \cup {batch[q].active}) = {}

\* runBatches stays within the slots reserved for it.
RunsWithinSlots ==
  \A q \in Queues : IsFiniteSet(batch[q].run) /\ Cardinality(batch[q].run) <= Slots

\* A regular list belongs to one batch of one queue, and the batches that wait
\* for reuse never outgrow initialSlotsForBatches.
ListsDisjoint == ListsApart /\ RunsWithinSlots

\* Every API call returns: hostSynchronize, which keeps the queue's lock, never
\* waits for a command that only another call on that queue could submit.
CallsReturn == \A t \in Threads : pc[t] # "idle" ~> pc[t] = "idle"

-----------------------------------------------------------------------------
\* The strengthening that makes GenerationTruth and ListsApart inductive.

\* Identifiers stored anywhere are those of commands appended before; only a
\* batched queue gives a command a generation or a regular list.
Known ==
  /\ \A q \in AllQueues : InSeq(imm[q]) \subseteq Ids
  /\ \A l \in Lists : InSeq(listCmds[l]) \subseteq Ids
  /\ \A c \in Ids : cmd[c].gen # NoGen => cmd[c].q \in Queues
  /\ \A t \in Threads :
       /\ call[t].id \in Ids \cup {0}
       /\ call[t].todo \subseteq {c \in Ids : cmd[c].gen # NoGen}

\* A thread holds at most one queue's lock, and only between lock and unlock; a
\* thread that waits for the device goes on inside the locked region.
LockDiscipline ==
  \A t \in Threads :
    /\ \A p, q \in AllQueues : lock[p] = t /\ lock[q] = t => p = q
    /\ \A q \in AllQueues : lock[q] = t => pc[t] \in InLock
    /\ pc[t] = "sync" => after[t] \in InLock \ {"sync"}

\* While queueFinishUnlocked waits, a batch that is not empty is submitted.
SubmittedAtSync ==
  \A t \in Threads, q \in Queues :
    lock[q] = t /\ pc[t] = "sync" /\ ~ActiveEmpty(batch[q])
      => InSeq(listCmds[batch[q].active]) \subseteq Submitted

IInv == /\ TypeOK
        /\ Known
        /\ LockDiscipline
        /\ SubmittedAtSync
        /\ ListsApart
        /\ GenerationTruth


-----------------------------------------------------------------------------
\* The strengthening that makes RunsInOrder, FinishDrains, PendingCommandsOwned
\* and WaitsSubmitted inductive, on top of IInv.

HostTasks == {c \in Ids : cmd[c].kind = "hosttask"}

\* No element occurs twice, and a later one has a larger identifier unless it is
\* one of H.
InOrder(s, H) ==
  \A i, j \in 1 .. Len(s) :
    i < j => s[i] # s[j] /\ (s[i] < s[j] \/ s[j] \in H)

\* The immediate list and the active list of a queue hold commands of that queue:
\* the first those not yet run, the second those of the current generation.  A
\* command without a generation went straight to the immediate list.
Placed ==
  /\ \A q \in AllQueues : \A c \in InSeq(imm[q]) : cmd[c].q = q /\ c \notin done
  /\ \A q \in Queues : \A c \in InSeq(listCmds[batch[q].active]) :
       /\ cmd[c].q = q
       /\ cmd[c].gen = batch[q].gen
       /\ cmd[c].list = batch[q].active
  /\ \A c \in Ids : cmd[c].gen = NoGen => c \in Submitted /\ cmd[c].list = None

\* What the active list holds is still to be submitted, except between the
\* submission by queueFinishUnlocked and its reset of the list; a batch counted
\* as empty holds host tasks only.
ActiveUnsubmitted ==
  \A q \in Queues :
    LET b == batch[q] IN
      /\ ActiveEmpty(b) => InSeq(listCmds[b.active]) \subseteq HostTasks
      /\ (ActiveEmpty(b) \/ \A t \in Threads : lock[q] = t => pc[t] # "sync")
           => InSeq(listCmds[b.active]) \cap Submitted = {}

\* Both lists keep the order of the calls, and what has been submitted comes
\* before what has not.
Sequenced ==
  /\ \A q \in AllQueues : InOrder(imm[q], HostTasks)
  /\ \A q \in Queues : InOrder(listCmds[batch[q].active], {})
  /\ \A c \in Submitted, d \in Ids \ (Submitted \cup HostTasks) :
       cmd[d].q = cmd[c].q => c < d

\* Where a call goes on once the wait it is in ends.
Resume(t) == IF pc[t] = "sync" THEN after[t] ELSE pc[t]

\* The call of t is about to do what it may do on an empty batch only.
AtEmpty(t) ==
  \/ pc[t] = "append" /\ call[t].kind \in Direct
  \/ pc[t] = "capture"

\* A call past its wait list holds the lock of its own queue; only a call that
\* enqueues appends; a command buffer is appended, and a capture begun, with
\* nothing in the active batch.
CallInPlace(t) ==
  /\ Resume(t) \in {"append", "post", "capture", "return"} =>
       call[t].q \in AllQueues /\ lock[call[t].q] = t /\ call[t].todo = {}
  /\ Resume(t) = "append" => call[t].kind \in Marked \cup Direct \cup {"hosttask"}
  /\ pc[t] # "idle" => call[t].kind \in Kinds
  /\ \A q \in Queues :
       lock[q] = t /\ AtEmpty(t) => ActiveEmpty(batch[q])

\* While a graph is captured the active batch stays empty.
CallsInPlace ==
  /\ \A t \in Threads : CallInPlace(t)
  /\ \A q \in Queues : batch[q].capture => ActiveEmpty(batch[q])
  /\ \A c \in Ids : cmd[c].kind \in Kinds

\* FinishDrains for the call of t, but for host tasks.
FinishRun(t) ==
  (/\ pc[t] = "return"
   /\ call[t].kind \in {"finish", "blockingop"}
   /\ call[t].q \in Queues => ~batch[call[t].q].capture)
    => \A c \in Ids \ HostTasks : cmd[c].q = call[t].q => c \in done

FinishRuns == \A t \in Threads : FinishRun(t)

\* The events that a call on a batched queue, and the command it appends, wait on
\* are submitted, to be handed over, or of its own queue.
CallCovered(t) ==
  call[t].q \in Queues =>
    \A e \in call[t].waits :
      /\ e \in Ids
      /\ e \in call[t].todo \cup Submitted \/ cmd[e].q = call[t].q

WaitsCovered ==
  /\ \A t \in Threads : CallCovered(t)
  /\ \A c \in Ids : cmd[c].q \in Queues =>
       \A e \in cmd[c].waits :
         e \in Ids /\ e < c /\ (e \in Submitted \/ cmd[e].q = cmd[c].q)

LInv == /\ Placed
        /\ ActiveUnsubmitted
        /\ Sequenced
        /\ CallsInPlace
        /\ RunsInOrder
        /\ PendingCommandsOwned
        /\ FinishRuns

=============================================================================
