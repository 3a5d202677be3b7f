# Unified Runtime: a verification project

TLA+ models of the parts of the Unified Runtime (UR) that decide *when* a
command runs and *when* a host call may return, model-checked with TLC on small
instances and, where TLAPS can follow, proved for every size. All paths are
relative to the repository root (`src/` in `PROJECT.json`).

## 1. The system

UR is a C API (`urEnqueueKernelLaunch...`, `urEventWait`, `urQueueFinish`, ...)
with one adapter per driver. A loader forwards each call, through optional layers
(validation, tracing, sanitizer), to the adapter of the handle. What makes the
code hard is in the adapters: a *queue* accepts commands with wait lists of
*events*, gives them to the driver in its own way, and must let host threads
wait for them. Every adapter invents its own mechanism for this.

| Part | State | What makes it hard | Module |
|---|---|---|---|
| Level Zero v2 batched queue and immediate in-order queue (`adapters/level_zero/v2/queue_batched.*`, `queue_immediate_in_order.*`) | active batch, counter, generation number, run batches, immediate list | commands that are enqueued and not submitted; locks kept while waiting for the device; reuse of command lists | `BatchedQueue` |
| Level Zero v2 out-of-order queue, event pool, asynchronous allocations (`queue_immediate_out_of_order.*`, `event_pool.*`, `event.cpp`, `common/enqueued_pool.*`) | several immediate lists, barrier events, free events by reference count, freed memory with the event that frees it | barriers across independent lists; events and memory handed out again before the device is through | `OutOfOrderQueue` |
| Offload queue (`adapters/offload/{queue,enqueue,event}.*`) | a bank of driver queues created on demand, barrier | a mutex that covers the choice of a queue and not its use | `OffloadQueue` |
| CUDA/HIP stream queue (`common/cuda-hip/stream_queue.hpp`, `adapters/{cuda,hip}/{queue,enqueue,event}.cpp`) | round-robin stream pools, tokens, last synchronized index, barrier flags, three mutexes | tokens compared with a moving index, lazily applied barriers, one event standing for many | `StreamQueue` |
| Native CPU queue, events, thread pool (`adapters/native_cpu/`) | per-worker task queues, futures, event sets, reference counts | tasks block inside workers, callbacks run in whichever thread waits first | `NativeCpuQueue` |
| CUDA/HIP memory objects; OpenCL and mock adapters; loader, validation, tracing, sanitizer | copies and flags; little; handle counts, quarantine | see section 7 | none |

`PROJECT.json` lists every component with its status, and every hazard of the
modelled ones at the line where it bites.

The properties the project is after, in any adapter:

1. a command runs only after its wait list and after what its queue orders
   before it;
2. `urQueueFinish`, `urEventWait` and blocking calls return only when what they
   promise is done;
3. they do return;
4. nothing the device or a worker still needs is reset, reused or deleted.

`AbstractQueue` states 1 and 2 once, as a specification of its own; the
out-of-order queue and the offload queue are shown to implement it. The others
have the same facts as invariants.

## 2. Modules

Every module names in its header the files it models; `PROJECT.json` maps each
definition to its lines.

### AbstractQueue and Lanes

`AbstractQueue` is what the API promises of one queue: `Enqueue` fixes what a
command runs after (its wait list, the barriers before it, and everything before
it if the queue is in order or the command is a barrier or marker without a list),
`Run` runs a command when that is done, `HostWait` and `Finish` fix what must be
done before the call returns, `Fail` is a call that returns an error. A promise
speaks only of calls that had returned when a call was made.

`Lanes` is the driver as two adapters use it: in-order lanes (queues of
liboffload, immediate lists of Level Zero). A lane is represented by its *front*,
the set of commands whose completion completes everything given to it; a native
event is the front it was recorded at.

### BatchedQueue

One module for all queues of a context. A thread is a small state machine:
`Call` fixes the kind of call, queue and wait list; `OnEventWaitListUse` handles
one event of another queue at a time, under *that* queue's lock; then the call
enters its own queue's lock and runs to `Return`. `lock` is the mutex of
`currentCmdLists`; it stays held in `Synchronize`, as in the code.

| Model | Code |
|---|---|
| `batch[q].gen, ops, active, run, capture` | `regularGenerationNumber`, `enqueuedOperationsCounter`, `activeBatch`, `runBatches`, `graphCaptureActive` |
| `listCmds[l]`, `imm[q]` | commands recorded in a regular list; appended to the immediate list and not yet run |
| `cmd[i].gen` | the generation an event remembers |
| `kernels[q]` | `submittedKernels` of the list manager |
| `Renewed`, `RenewBatch`, `FinishUnlocked`, `Finished` | `renewRegularUnlocked`, `renewBatchUnlocked`, `queueFinishUnlocked`, `batchFinish` |
| `HandedOver` | the loop of `getZeHandlesBuffer` that calls `onWaitListUse` |
| `Execute` | the device: runs an in-order immediate list, each command once its wait list is done |

The enqueue functions are grouped by what they do to the queue's state: `op`
(launches, copies, fills), `blockingop` (blocking reads and writes), `barrier`
(event waits, barriers, asynchronous USM, semaphores, which renew the batch),
`cmdbuf` (command buffers, graphs: straight to the immediate list), `hosttask`.
The command list cache is abstracted to "any list no queue holds, empty".

### OutOfOrderQueue

One out-of-order queue with the event pool its events come from and the pool of
memory freed on it. A call picks its list (`GetNextCommandListId`, an atomic
counter) when it is made and takes the lock when it appends.

| Model | Code |
|---|---|
| `index`, `lock`, `front` | `commandListIndex`, the lock of `commandListManagers`, the immediate lists |
| `pool` | `event_pool`: free list, events created, `RefCount`, and the command each event was last signalled by |
| `usm`, `async` | memory free in UMF; `EnqueuedPool::Freelist`, each entry with the event of the command that freed it |
| `TakeEvent`, `ReleaseEvent` | `event_pool::allocate`, `event_pool::free` |
| `AppendReuse`, `AppendAlloc`, `AllocFails`, `AppendFree` | `appendUSMAllocHelper` and `appendUSMFreeExp` |
| `Barrier` | `enqueueEventsWaitWithBarrierExt`: every list signals and waits for `barrierEvents` |
| `Cleanup`, `EndFinish` | `queueFinish` and `cleanupPoolsForQueue` |

An event is counter based, so a wait stands for the command that signalled the
event last when the wait was appended; `meaning` records which command the holder
of an event takes it for, `uses` and `handed` which owner of an allocation a
command belongs to. Assumed of the application: a wait list holds events of calls
that have returned and that it has not released; memory is used by commands that
are ordered after its allocation, and freed by commands ordered after its uses.
`ProperUse` counts as ordered only what a command's own wait list and the barriers
before it order; an application may also go through intermediate commands or
markers, which the model leaves out.

### OffloadQueue

The bank of in-order queues of liboffload behind an out-of-order queue, or the
single one of an in-order queue.

| Model | Code |
|---|---|
| `created`, `offset`, `barrier`, `mutex` | the slots of `OffloadQueues` that are not null, `QueueOffset`, `Barrier`, `OooMutex` |
| `NextQueueNoLock`, `NextQueue`, `NextQueueError` | `nextQueueNoLock`, `nextQueue`; a slot of `FailSlots` may fail to be created |
| `WaitOnEvents`, `Launch`, `MakeEvent` | `waitOnEvents`, the launch, `makeEvent`: three steps without the mutex |
| `LockWait`, `Gather`, `WaitOnList`, `Signal`, `Spread`, `EndSpread` | `doWait`: marker and barrier, with the loops over the bank one slot a step |
| `SyncQueue`, `EndSync` | `urQueueFinish`, one slot a step |

### StreamQueue

A stream is represented by its front, and a native event by the front it was
recorded at. This makes "waiting for the latest event of a stream" and "reusing
the stream of a dependency" facts to be checked rather than assumed.

| Model | Code |
|---|---|
| `index`, `lastSync`, `created` | `ComputeStreamIndex`, `LastSyncComputeStreams`, `NumComputeStreams` and the transfer ones |
| `delay`, `applied`, `barrierEvent` | `DelayCompute`, `ComputeAppliedBarrier`, `TransferAppliedBarrier`, `BarrierEvent` |
| `poolMutex`, `syncMutex`, `barrierMutex` | `ComputeStreamMutex` and `TransferStreamMutex`, `ComputeStreamSyncMutex`, `BarrierMutex` |
| `ReuseStream`, `NoReuse`, `CreateStream`, `TakeStream` | the two overloads of `getNextComputeStream`, `getNextTransferStream` |
| `SyncRange`, `LockSync`, `LockPool`, `SyncStream`... | `syncStreams` |
| `LatestEvents` | `forLatestEvents` |
| `Barrier...` | `urEnqueueEventsWaitWithBarrier` |

The stream indices are numbers modulo `UintMod`, 2^32 in the code; `Init` also
admits queues on which many streams were taken and synchronized, so that runs
and proofs can start close to the wrap.

### NativeCpuQueue

Host threads and workers are both *actors*, because both execute
`ur_event_handle_t_::wait`: `AlreadyDone`, `LockEvent`, `WaitAll` and `Callback`
are its steps. A worker takes its oldest task (`Pop`), waits in it for the wait
list, runs it (`Body`), and counts (`Count`). `BestWorker` compares one pair of
counters a step, since they are read without a lock. `Stop` and `Exit` are the
destructor of the pool. `Ranges`, `Coordinates`, `NextGroup` and `GroupsOf` are
the arithmetic that cuts the work-groups of a launch into tasks. A launch that
fails leaves its local argument in the kernel handle (`CallRejected`).

A grid with an empty second or third dimension passes `urEnqueueKernelLaunch` and
makes no task: its event is done as soon as somebody waits for it, also before
its wait list.

Assumptions on the application. Calls on the same queue or kernel handle do not
overlap (`scripts/core/INTRO.rst`). It keeps an event until the commands that wait
for it have run; this is an assumption of the model, the documentation does not
say it. With `ReleaseApart = TRUE`, as in all runs and theorems, it does not call
`urEventRelease` and `urQueueFinish` of the event's queue at the same time, in two
threads; `urEventRelease` may overlap every other call that does not use the
event. `INTRO.rst:94` allows that overlap too ("APIs are free-threaded when the runtime's object handle is
different."), so `ReleaseApart` restricts what is shown; section 5 has what
happens with `ReleaseApart = FALSE`.

## 3. Runs

Every property is also checked against a plausible bug (the operators marked
"Variant" beside the definitions, listed under `mutants`), which must break it.

| Run | Instance | Shows |
|---|---|---|
| `batched_cross` | 2 threads, 2 batched queues, 4 lists, 1 slot, limit of 2 commands, 3 calls | finish drains; what a submitted command waits for is submitted; every call returns |
| `batched_mixed` | 2 batched queues and an immediate one, every kind of call, 3 calls | order of commands across batch and immediate list; generation numbers tell the truth; lists and kernels are kept while needed |
| `hosttask_finish` | 1 queue, 2 calls | *violated*: finish returns before a host task |
| `immediate_wait` | batched and immediate queue, 2 calls | *violated*: an immediate queue waits for an unsubmitted command |
| `outoforder` | 2 threads, 2 lists, 1 allocation, 3 commands, every kind of call but event waits without a list (section 5) | the queue implements `AbstractQueue`; reused memory has one owner at a time; events keep their meaning |
| `offload` | 2 threads, a bank of 2 whose second queue may fail to be created, every kind of call, 3 commands, 1 error | the queue implements `AbstractQueue` |
| `stream_order` | 1 thread, 2 compute streams, 1 transfer stream, 4 commands | wait lists and barriers through reuse and finish; nothing falls out of the synchronized range; finish drains |
| `stream_threads` | 2 threads on one queue, 3 commands, a new queue or indices about to wrap | wait lists and event waits under any interleaving |
| `native_wait` | 1 queue, 3 commands | *violated*: a native command does not wait for its wait list |
| `nativecpu_safety` | 2 threads, 2 workers, out-of-order and in-order queue, 2 commands, `ReleaseApart` | wait lists, waits, lifetimes of events, work-groups |
| `nativecpu_liveness` | 1 thread, 2 workers, 2 commands | calls return and commands run, also during shutdown |
| `local_args` | 1 thread, 3 launches of one kernel | *violated*: a launch loses its local argument |

Bounds. `Slots = 1` and `MaxOps = 2` make both limits of the batched queue bite
within three calls, which are also enough for two queues to wait on each other and
for a renewal to turn into a finish. Three commands are enough to free memory,
hand it out again and use it, and to put a barrier between two commands on
different lanes; with one allocation every reuse is of the same memory. Two
compute streams and one transfer stream make the vectors wrap, skip and reuse
within three or four commands. `UintMod = 12` leaves room for every index the
bounded calls reach. `stream_threads` starts with a new queue or two streams before
the wrap (`StartIndices = {0, 10}`); `stream_order` starts with a new queue and does
not reach the wrap, which its properties do not survive (section 5). Two
commands on the native CPU queue suffice for a dependency between tasks on the
same or on different workers, and 27 work-groups in three dimensions (and all
smaller grids, empty ones included) on two workers for uneven ranges and both carries. Symmetry is used
only where no liveness is checked.

Deadlock is checked except where the system may stop: in `batched_mixed` a
command may wait forever (finding `immediate_wait`), in `stream_threads` two
barriers may block each other (section 5), and the native CPU system ends with
its pool destroyed.

Fairness. `batched_cross` assumes that a thread inside a call goes on when it
can and that the device runs a command whose wait list is done: weak fairness on
`Step` and `Execute`, which an operating system and a driver that make progress
give. Mutexes need no strong fairness in the bounded instance, since a thread
makes finitely many calls. `nativecpu_liveness` assumes weak fairness of each
thread and each worker. No run assumes that an application makes calls.

## 4. Proofs

All proofs are checked by TLAPS without assumptions other than the `ASSUME`s of
the modules (finite bounds are naturals, slots and limits are positive, names do
not clash), which TLC evaluates in the runs. Each theorem holds for any number of
threads, queues, lists, lanes, workers and commands, but for four of the stream
queue that are about one thread and say so.

### Batched queue (`BatchedQueueProofs`, `BatchedQueueOrderProofs`)

| Theorem | Says |
|---|---|
| `TypeCorrect`, `GenerationsTellTheTruth`, `ListsStayDisjoint` | types; a command below its queue's generation was submitted and one at it is in the active list; no list has two owners, `runBatches` stays within its slots |
| `QueuesRunInOrder` | the commands of a queue run in the order of the calls; only host tasks may be overtaken |
| `PendingCommandsStayOwned` | the list and the kernel of a command that has not run stay with its queue |
| `FinishRunsAll`, `FinishDrainsQueue` | `urQueueFinish` and blocking copies return when everything before them has run: host tasks apart, and without exception if there are none |
| `BatchedQueuesSubmitWaits`, `WaitsSubmittedFirst` | without host tasks, what a command of a batched queue waits for was submitted before it; hence, with batched queues only, for every command |

The hypotheses "no host tasks" and "batched queues only" are those the runs
`hosttask_finish` and `immediate_wait` show to be necessary.

`GenerationTruth`, on which `onEventWaitListUse` relies, is not inductive. `IInv`
adds `Known` (identifiers stored anywhere are those of appended commands),
`LockDiscipline` (a thread holds at most one queue's lock and only inside its
locked region), `SubmittedAtSync` (while `queueFinishUnlocked` waits, a non-empty
batch has been submitted; needed because `Synchronize` increases the generation
only afterwards) and `ListsApart` (needed because a renewal empties the list it
takes). `LInv` adds what order and ownership depend on: where each command is
(`Placed`), that the active list is unsubmitted except while a finish waits
(`ActiveUnsubmitted`), that both lists keep the order of the calls and what was
submitted comes before what was not (`Sequenced`), and at which places a call may
count on an empty batch (`CallsInPlace`; a command buffer or a capture begins with
nothing in the batch). `WaitsCovered` says of each event in a wait list that it is
submitted, still to be handed over, or of the call's own queue, where order does
the rest; for that a queue must be in order, which host tasks break.

### Out-of-order queue (`OutOfOrderQueueProofs`) and offload queue (`OffloadQueueProofs`)

`QueueRefines` and `OffloadRefines` state that the queues implement
`AbstractQueue`. The refinement mapping takes a call to the command it enqueues
and the commands it owes; `kind`, `needs` and `issued` are auxiliary variables
that record the promise when the call is made, so that the step to prove is that
a command completes only after its `needs` and that a call returns only with what
it owes done. `QueueRefines` is stated for queues on which `urEnqueueEventsWait`
is called with a wait list, or that have one list, and `OffloadRefines` for
failures of `olCreateQueue` in the last slot only; section 5 says what happens
otherwise.

What a command waits for on the device is known only through chains of waits, over
fronts, events and barriers. Instead of induction on chains the invariants speak
of *closed* sets, those that hold what their launched members wait for; the set of
commands done is closed. `F` *covers* `i` if every closed set that includes `F`
contains `i`. Covering is kept by everything that is later put on a lane, which is
why a call needs no lock between the choice of a lane and the launch. The
invariants (`Inv` in both modules) say what the front of each lane, each event and
the barrier cover, and for a call in progress what its lane will cover at each
place; for the offload queue also that slots are filled in order, so that the
loops over the bank, which stop at the first null slot, see all of them, and how
far each loop has come.

`EventsKept` (an event stands for the command it was made for as long as anybody
holds it) is part of the same induction, since a recycled event would signal for
another command. `MemoryIsExclusive` adds `MemInv`: who owns each allocation,
that its uses by earlier owners are covered by whatever the event of its release
covers, and that the application is ordered behind the allocation it uses.

### Stream queue (`StreamQueueProofs`)

`WaitListsHonouredAlways`: a kernel or copy completes only after its wait list;
`HostWaitsTruthfulAlways`: `urEventWait` returns only when every command of the
list is done, although it waits for one event of each stream. Both hold wherever
the indices start, wrap included. The argument is again about closed sets: the set
of done commands is closed (`DoneClosed`), the front of a stream implies every
command put on it (`FrontImplies`), the event with the larger number of a stream
implies the commands of the smaller ones (`EventImplies`), what a launched command
waits for implies its wait list (`DepsImplyList`), and each thread knows something
at each place of its call (`ThreadInv`).

`TypeCorrect`: types, and no stream is given work before it was created, for any
number of threads. `getNextComputeStream` creates a stream, drops the mutex and
then takes an index that other threads may have moved; `CreatedOK` counts the
threads between the two steps: while streams of a pool are missing, one was created
for every index taken and for every thread about to take one. `InUse` and
`Numbered` (the events of a queue are numbered one by one) complete `CreatedInv`.

`FinishDrainsAlone`, `SyncedTokensDoneAlone` and `PendingInRangeAlone` are the
promises of `urQueueFinish` and of tokens. They are proved from two hypotheses,
`OneThread` and `[]NoWrap` (no index reaches the last value of its type), because
without either they fail (section 5); the pools, queues and calls are arbitrary.
`SyncInv` says that a stream with unfinished work was taken with some value of the
counter between `lastSync` and `index`, or the finish in progress has yet to visit
it (`PendingCovered`), what a token tells about its event (`TokensTell`), and how
far a finish has come (`FinishInv`). That the range `syncStreams` visits, modulo
the size of the pool and with its two special cases, holds each such stream is
`RangeCovers`.

`NeedsMetAlone` says the same of `NeedsMet`, the order of commands: wait lists,
barriers and, on an in-order queue, everything enqueued before. Two hypotheses
come on top: no `urEnqueueNativeCommandExp` (run `native_wait` shows why), and
`OneLane`, that an in-order queue has no transfer streams, as its constructor sees
to. `OrderIInv` says that `BarrierEvent` implies every barrier of its queue
(`BarriersHeld`), that so does the front of a stream whose flag says it has applied
the barrier (`AppliedHold`), that a launched command waits for all it was to run
after, or that is done (`DepsMeet`), and how much of this the stream of a call in
progress already waits for (`OrderInv`). A barrier without a list relies on
`PendingCovered` and `RangeCovers`: a stream it does not visit has no unfinished
work. A barrier with a list relies on `SyncedDone` for the events it skips.

### Native CPU (`NativeCpuQueueWorkerProofs`, `NativeCpuQueueThreadProofs`, `NativeCpuQueueProofs`)

| Theorem | Says |
|---|---|
| `TypeCorrect` | types; the counter of a worker is the number of its tasks |
| `NeedsAreMet` | a task or a command run in its call runs only after its wait list and, on an in-order queue, after what was enqueued before |
| `WaitsAreTruthful` | `urEventWait`, `urQueueFinish` and blocking calls return when the commands they wait for have run; an event that is done has run |
| `EventsOutlive` | no event is deleted before its tasks have run, nor while a thread or a worker waits for it |

All four assume `ReleaseApart`. `EventsOutlive` fails without it (section 5), and
the others share its inductive invariant.

None is inductive alone, and they need each other: a task may start because its
wait list was waited for, which is truthful only if done events have run, which
depends on the futures being in the event before anybody may wait, which depends
on the event being alive. `IInv` has four layers. `Types` holds the types, what
each place of a call says about its queue, command and event (`CallOK`), and that
calls on one queue do not overlap, nor `urEventRelease` and `urQueueFinish` of the
event's queue (`CallsApart`). `TasksOnce` says that a task
that has not run is in one place only; without it a command could look complete
with a task still queued. `EventOK` ties the life of an event to its command: in
the queue's set until done, done only when the command has run, the reference
count 2 exactly while a finish retains it, deleted only after its release. `GoalOK`
says of every actor what it waits for, that each such event is done or still to be
waited for, and that nobody else is about to make or delete it; `NeedsOK` that
what a command needs is complete or on its wait list, which the application keeps.
There is one lemma per action (`PopIInv`, `CreateIInv`, ...): what the step does,
that it keeps the types and the tasks, and then the rest through `StepIInv`, which
reduces a step to what its own actor and its own event do. The first module has
the general lemmas and the steps of the workers and of `wait`, the second the
steps of a call on tasks and events, the third the beginnings and ends of calls
and the theorems.

### Only model-checked

* All liveness (`CallsReturn`, `CommandsRun`): beyond the proof system.
* `EveryGroupOnce`: what `NextGroup` computes by iteration needs induction over
  data.
* `TypeOK` of the out-of-order and offload queues: their inductive
  invariants carry the types the arguments use. The rest, such as that the number
  of an event stays within the bound on calls, would need counting.

## 5. What the checks found

Runs that show a disagreement between the code and what it documents:

* `hosttask_finish`: `enqueueHostTaskExp` does not count its command in the batch,
  so a batch of host tasks looks empty and `urQueueFinish` does not submit it.
  For the same reason a command buffer overtakes a host task.
* `immediate_wait`: immediate queues build their wait list without the queue
  argument, so events of a batched queue are not submitted for them.
* `native_wait`: `urEnqueueNativeCommandExp` of CUDA and HIP uses its wait list
  only to choose a stream.
* `local_args`: the callback of a native CPU launch clears the local arguments of
  the kernel handle, in whichever thread waits first, possibly after the next
  launch has set its own.

Observed with the models, without a run of their own:

* `urEnqueueEventsWait` with an empty list on a Level Zero out-of-order queue
  appends to one command list and is ordered after that list only, while
  `include/unified-runtime/ur_api.h:7196` says "If the event list is empty, it
  waits for all previously enqueued commands to complete". `MarkersWait` of
  `OutOfOrderQueue` states it and is violated once `"waitall"` is among `Ops`. The
  same calls of the native CPU adapter wait for nothing on an out-of-order queue.
* `enqueueUSMFreeExp` without `phEvent` on that queue makes an event and retains
  it once more for the pool of freed memory; the first reference belongs to
  nobody, so the event never returns to the event pool (`EventsReturn` is
  violated).
* When `olCreateQueue` fails for a slot of the offload queue other than the last,
  later slots are created behind a null one; the loops of barriers and
  `urQueueFinish` stop at it and miss them (`ImplementsQueue` is violated with
  `FailSlots = {0}` and two slots).
* `hasBeenSynchronized` compares a token with the last synchronized index by `>`;
  once the 32-bit index has wrapped, tokens handed out since compare as
  synchronized. `NeedsMet` (a barrier skips the event) and `FinishDrains` fail in
  instances of `StreamQueue` whose `StartIndices` are just below `UintMod`.
* With two threads on one stream queue, `urQueueFinish` can move the last
  synchronized index past a token whose command is not launched yet; a barrier
  can be marked as applied to a stream that waited for the previous one; and a
  barrier with a wait list (`ComputeStreamSyncMutex`, then `BarrierMutex`) and one
  without (the other order) can block each other. `INTRO.rst` excludes such calls.
* `urEventRelease` of a native CPU event waits in its destructor while the event is
  still in the queue's set. With `ReleaseApart = FALSE` TLC finds `EventsOutliveUse`
  violated in eleven steps: a launch has returned; one thread is in
  `urQueueFinish` when another calls `urEventRelease`, which brings the reference
  count to 0 and waits in the destructor; `urQueueFinish` retains the event (0 to
  1), waits for its tasks, releases it and so deletes it while the destructor of
  the other thread still waits for it.
* A native CPU launch without `phEvent` never releases its event.
* `urEnqueueMemBufferMap` and `urEnqueueMemUnmap` of CUDA and HIP, where no data has
  to move and the memory is not pinned, record an event on a stream that does not
  wait for the wait list (`adapters/cuda/enqueue.cpp:1437-1454`, `1486-1503`). Seen
  while reading the code; the model has no such call.

## 6. Reading order

`AbstractQueue` and `Lanes`, then one queue module with its `.cfg` files, then the
statements at the end of its proof module, from which the lemmas can be followed
backwards. A property is stated in the module of its queue, with the strengthening
that makes it inductive where the proof needs one; the `MC` modules only add
symmetry sets and grids.

## 7. Not modelled

Failures of the driver, except where section 2 names one; profiling and
timestamps; native handles beyond the stream they expose; `urEventRetain`,
`urEventSetCallback`, `urEnqueueUSMAdvise`; release of queues; graph capture on
immediate queues; several queues, sizes or pools of asynchronous allocations;
buffer migration between devices; the oneTBB backend of the native CPU adapter; the
contents of memory. Of the calls that are modelled, these branches are left out:
maps and unmaps that move no data (CUDA and HIP: above; offload:
`enqueue.cpp:398` and `433`, where an out-of-order queue without `phEvent` does not
put the waits on its queue); the barrier of a batched queue that reuses an event
of the caller (`queue_batched.cpp:590-595`), which no property depends on; a
failing `olWaitEvents` in `nextQueueNoLock`. `BarrierEvent` of a stream queue counts
as made when it is recorded, not at `cuEventCreate` a few lines earlier, which only
several threads on one queue could tell apart. Of the Level Zero adapter's caches only the effect is
modelled: any list no queue holds may be handed out, a pool grows when it is
empty. OpenCL, mock, loader and layers forward calls and are left out; the
reasons, component by component, are in `PROJECT.json`.
