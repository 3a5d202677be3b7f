--------------------------- MODULE NativeCpuQueue ---------------------------
(***************************************************************************)
(* The queue, the events and the thread pool of the native CPU adapter     *)
(* (queue.hpp, event.cpp, enqueue.cpp, threadpool.hpp).  A kernel is cut   *)
(* into one task for each worker, a non-blocking copy is one task, and     *)
(* every other command runs in the thread that enqueues it.  The tasks of  *)
(* a worker run in the order they were scheduled, and a task first waits,  *)
(* in the worker, for the events of its command's wait list.  An event     *)
(* becomes done only when some thread waits for it; that thread runs its   *)
(* callback.                                                               *)
(*                                                                         *)
(* A command is named by a number; so is its event, when it has one.  A    *)
(* task is a pair of its command and its place in it.                      *)
(***************************************************************************)
EXTENDS Integers, Sequences, FiniteSets

CONSTANTS Threads,       \* host threads
          NumThreads,    \* workers of the pool, SYCL_NATIVE_CPU_HOST_THREADS
          Queues,        \* queues of one device
          InOrderQueues, \* those without UR_QUEUE_FLAG_OUT_OF_ORDER_EXEC_MODE
          Kernels,       \* kernel handles
          Grids,         \* the numbers of work-groups <<numWG0, numWG1, numWG2>>
          LocalArgs,     \* whether launches set a local argument: values of it
          Ops,           \* the API calls the threads make
          ReleaseApart,  \* whether the application keeps the release of an event
                         \* apart from urQueueFinish of the event's queue
          MaxWaits,      \* bound on the length of an event wait list
          MaxCommands,   \* bound on the commands enqueued
          MaxRejected,   \* bound on local arguments that failed launches leave
          None           \* "no thread", "no queue", "no kernel"

AllOps == {"kernel", "copy", "sync", "wait", "finish", "release"}

ASSUME PoolAssumption == NumThreads \in Nat \ {0}
ASSUME QueueAssumption == InOrderQueues \subseteq Queues
ASSUME GridAssumption == Grids \subseteq Nat \X Nat \X Nat
ASSUME LocalAssumption == LocalArgs \subseteq BOOLEAN
ASSUME ReleaseAssumption == ReleaseApart \in BOOLEAN
ASSUME NamesAssumption ==
  /\ Ops \subseteq AllOps
  /\ None \notin Threads \cup Queues \cup Kernels
  /\ Threads \cap (1 .. NumThreads) = {}
ASSUME BoundAssumption == MaxWaits \in Nat /\ MaxCommands \in Nat /\ MaxRejected \in Nat

Workers == 1 .. NumThreads
Actors == Threads \cup Workers
Ids == 1 .. MaxCommands
Tasks == Ids \X Workers
NoTask == <<0, 0>>

VARIABLES
  tasks,      \* m_tasks of each worker
  numTasks,   \* m_numTasks of each worker
  isRunning,  \* m_isRunning of each worker
  busy,       \* the task each worker executes
  finished,   \* the tasks whose future is ready
  stopping,   \* the worker ~simple_thread_pool has come to, 0 before it
  events,     \* events of each queue
  event,      \* refs, alive, done, mutex, tasksinfo and callback of each event
  localArgs,  \* length of _localArgInfo of each kernel handle
  commands,   \* number of commands enqueued
  cmd,        \* what each command is: see NoCommand
  hostRan,    \* commands whose function ran in the host thread
  released,   \* events the application has released
  pc, todo, then, \* of each actor: place, events left to wait for, place after
  call,       \* of each thread: operation, queue and command
  scan        \* of each thread: best_worker's best so far and next candidate

poolVars == <<tasks, numTasks, isRunning, busy, finished, stopping>>
eventVars == <<events, event, localArgs>>
cmdVars == <<commands, cmd, hostRan, released>>
control == <<pc, todo, then>>
vars == <<poolVars, eventVars, cmdVars, control, call, scan>>

NoCommand == [op |-> "none", q |-> None, list |-> <<>>, kernel |-> None,
              grid |-> <<1, 1, 1>>, event |-> FALSE,
              local |-> FALSE, copied |-> 0, needs |-> {}]
NoEvent == [refs |-> 0, alive |-> FALSE, done |-> FALSE, mutex |-> None,
            tasksinfo |-> {}, callback |-> FALSE]
NoCall == [op |-> "none", q |-> None, id |-> 0, part |-> 0, before |-> {}]
NoScan == [best |-> 1, next |-> 2]

Init ==
  /\ tasks = [w \in Workers |-> <<>>] /\ numTasks = [w \in Workers |-> 0]
  /\ isRunning = [w \in Workers |-> TRUE] /\ busy = [w \in Workers |-> NoTask]
  /\ finished = {} /\ stopping = 0
  /\ events = [q \in Queues |-> {}] /\ event = [e \in Ids |-> NoEvent]
  /\ localArgs = [k \in Kernels |-> 0]
  /\ commands = 0 /\ cmd = [i \in Ids |-> NoCommand]
  /\ hostRan = {} /\ released = {}
  /\ pc = [a \in Actors |-> "idle"] /\ todo = [a \in Actors |-> <<>>]
  /\ then = [a \in Actors |-> "idle"]
  /\ call = [t \in Threads |-> NoCall] /\ scan = [t \in Threads |-> NoScan]

InSeq(s) == {s[n] : n \in 1 .. Len(s)}

Goto(a, label) == pc' = [pc EXCEPT ![a] = label]
\* Calls urEventWait(list) and goes on at label.
WaitFor(a, list, label) ==
  IF list = <<>> THEN Goto(a, label) /\ UNCHANGED <<todo, then>>
  ELSE /\ pc' = [pc EXCEPT ![a] = "wait"]
       /\ todo' = [todo EXCEPT ![a] = list]
       /\ then' = [then EXCEPT ![a] = label]

-----------------------------------------------------------------------------
\* The work-groups of a kernel, cut into ranges of their linear numbers.

NumWG(grid) == grid[1] * grid[2] * grid[3]

\* Variant: one range too few gets one of the remaining work-groups.
RangeSize_Remainder(grid, t) ==
  LET perThread == NumWG(grid) \div NumThreads
      remainder == NumWG(grid) - perThread * NumThreads
  IN perThread + (IF t + 1 < remainder THEN 1 ELSE 0)

\* Number of work-groups of the task t
RangeSize(grid, t) ==
  LET perThread == NumWG(grid) \div NumThreads
      remainder == NumWG(grid) - perThread * NumThreads
  IN perThread + (IF t < remainder THEN 1 ELSE 0)

\* rangeStart, as a linear number, of the task t
RangeStart(grid, t) ==
  LET start[u \in 0 .. NumThreads] ==
        IF u = 0 THEN 0 ELSE start[u - 1] + RangeSize(grid, u - 1)
  IN start[t]

\* The ranges of the tasks, up to the first empty one
Ranges(grid) ==
  LET used == CHOOSE n \in 0 .. NumThreads :
                /\ \A t \in 0 .. n - 1 : RangeSize(grid, t) > 0
                /\ n = NumThreads \/ RangeSize(grid, n) = 0
  IN [i \in 1 .. used |-> <<RangeStart(grid, i - 1), RangeStart(grid, i)>>]
NumRanges == [grid \in Grids |-> Len(Ranges(grid))]

\* rangeStart, as three coordinates
Coordinates(grid, linear) ==
  <<linear % grid[1], (linear \div grid[1]) % grid[2],
    linear \div (grid[1] * grid[2])>>

\* ++g0 with its carries into g1 and g2
NextGroup(grid, g) ==
  IF g[1] + 1 < grid[1] THEN <<g[1] + 1, g[2], g[3]>>
  ELSE IF g[2] + 1 < grid[2] THEN <<0, g[2] + 1, g[3]>>
  ELSE <<0, 0, g[3] + 1>>

\* The work-groups a task with this range runs, in order
GroupsOf(grid, range) ==
  LET g[i \in 0 .. range[2] - range[1]] ==
        IF i = 0 THEN Coordinates(grid, range[1]) ELSE NextGroup(grid, g[i - 1])
  IN [i \in 1 .. range[2] - range[1] |-> g[i - 1]]

-----------------------------------------------------------------------------
\* ur_event_handle_t_::wait, in a host thread or in a worker.

\* The head of the list was waited for: on to the next event, or out of the loop.
Waited(a) ==
  /\ todo' = [todo EXCEPT ![a] = Tail(@)]
  /\ IF Len(todo[a]) > 1 THEN Goto(a, "wait") /\ UNCHANGED then
     ELSE Goto(a, then[a]) /\ then' = [then EXCEPT ![a] = "idle"]

\* The mutex is free and the event is done.
AlreadyDone(a) ==
  /\ pc[a] = "wait"
  /\ LET e == Head(todo[a]) IN event[e].mutex = None /\ event[e].done
  /\ Waited(a)
  /\ UNCHANGED <<poolVars, eventVars, cmdVars, call, scan>>

\* The event is not done: its mutex is kept while its tasks are waited for.
LockEvent(a) ==
  /\ pc[a] = "wait"
  /\ LET e == Head(todo[a]) IN
       /\ event[e].mutex = None /\ ~event[e].done
       /\ event' = [event EXCEPT ![e].mutex = a]
  /\ Goto(a, "waitAll")
  /\ UNCHANGED <<poolVars, events, localArgs, cmdVars, todo, then, call, scan>>

\* Variant: waits for one task only.
WaitAll_Any(a) ==
  /\ pc[a] = "waitAll"
  /\ LET e == Head(todo[a]) IN
       /\ event[e].tasksinfo # {} => event[e].tasksinfo \cap finished # {}
       /\ events' = [events EXCEPT ![cmd[e].q] = @ \ {e}]
       /\ event' = [event EXCEPT ![e].done = TRUE, ![e].mutex = None]
  /\ Goto(a, "callback")
  /\ UNCHANGED <<poolVars, localArgs, cmdVars, todo, then, call, scan>>

\* wait_all returns; the event leaves the queue's set and is done.
WaitAll(a) ==
  /\ pc[a] = "waitAll"
  /\ LET e == Head(todo[a]) IN
       /\ event[e].tasksinfo \subseteq finished
       /\ events' = [events EXCEPT ![cmd[e].q] = @ \ {e}]
       /\ event' = [event EXCEPT ![e].done = TRUE, ![e].mutex = None]
  /\ Goto(a, "callback")
  /\ UNCHANGED <<poolVars, localArgs, cmdVars, todo, then, call, scan>>

\* The callback of a kernel's event clears the local arguments of the handle.
Callback(a) ==
  /\ pc[a] = "callback"
  /\ LET e == Head(todo[a]) IN
       localArgs' = IF event[e].callback /\ cmd[e].op = "kernel"
                    THEN [localArgs EXCEPT ![cmd[e].kernel] = 0] ELSE localArgs
  /\ Waited(a)
  /\ UNCHANGED <<poolVars, events, event, cmdVars, call, scan>>

Wait(a) == AlreadyDone(a) \/ LockEvent(a) \/ WaitAll(a) \/ Callback(a)

-----------------------------------------------------------------------------
\* worker_thread: the loop of a worker.

\* Variant: runs the newest task first.
Pop_Newest(w) ==
  /\ pc[w] = "idle" /\ tasks[w] # <<>>
  /\ LET task == tasks[w][Len(tasks[w])] IN
       /\ busy' = [busy EXCEPT ![w] = task]
       /\ WaitFor(w, cmd[task[1]].list, "body")
  /\ tasks' = [tasks EXCEPT ![w] = SubSeq(@, 1, Len(@) - 1)]
  /\ UNCHANGED <<numTasks, isRunning, finished, stopping, eventVars, cmdVars, call,
                 scan>>

\* Variant: does not wait for the wait list.
Pop_NoWait(w) ==
  /\ pc[w] = "idle" /\ tasks[w] # <<>>
  /\ busy' = [busy EXCEPT ![w] = Head(tasks[w])]
  /\ WaitFor(w, <<>>, "body")
  /\ tasks' = [tasks EXCEPT ![w] = Tail(@)]
  /\ UNCHANGED <<numTasks, isRunning, finished, stopping, eventVars, cmdVars, call,
                 scan>>

\* Takes the oldest task, which begins with InEvents.wait().
Pop(w) ==
  /\ pc[w] = "idle" /\ tasks[w] # <<>>
  /\ LET task == Head(tasks[w]) IN
       /\ busy' = [busy EXCEPT ![w] = task]
       /\ WaitFor(w, cmd[task[1]].list, "body")
  /\ tasks' = [tasks EXCEPT ![w] = Tail(@)]
  /\ UNCHANGED <<numTasks, isRunning, finished, stopping, eventVars, cmdVars, call,
                 scan>>

\* The rest of the task: its future becomes ready.
Body(w) ==
  /\ pc[w] = "body"
  /\ finished' = finished \cup {busy[w]}
  /\ Goto(w, "count")
  /\ UNCHANGED <<tasks, numTasks, isRunning, busy, stopping, eventVars, cmdVars,
                 todo, then, call, scan>>

\* --m_numTasks
Count(w) ==
  /\ pc[w] = "count"
  /\ numTasks' = [numTasks EXCEPT ![w] = @ - 1]
  /\ busy' = [busy EXCEPT ![w] = NoTask]
  /\ Goto(w, "idle")
  /\ UNCHANGED <<tasks, isRunning, finished, stopping, eventVars, cmdVars, todo,
                 then, call, scan>>

\* Variant: a stopped worker leaves its tasks.
Exit_Leaves(w) ==
  /\ pc[w] = "idle" /\ ~isRunning[w]
  /\ Goto(w, "exited")
  /\ UNCHANGED <<poolVars, eventVars, cmdVars, todo, then, call, scan>>

\* A stopped worker ends when its tasks are done.
Exit(w) ==
  /\ pc[w] = "idle" /\ ~isRunning[w] /\ tasks[w] = <<>>
  /\ Goto(w, "exited")
  /\ UNCHANGED <<poolVars, eventVars, cmdVars, todo, then, call, scan>>

Work(w) == Wait(w) \/ Pop(w) \/ Body(w) \/ Count(w) \/ Exit(w)

\* ~simple_thread_pool, after the last API call: stops the workers one by one and
\* joins each.
Stop ==
  /\ \A t \in Threads : pc[t] = "idle"
  /\ stopping < NumThreads
  /\ stopping > 0 => pc[stopping] = "exited"
  /\ stopping' = stopping + 1
  /\ isRunning' = [isRunning EXCEPT ![stopping + 1] = FALSE]
  /\ UNCHANGED <<tasks, numTasks, busy, finished, eventVars, cmdVars, control, call,
                 scan>>

-----------------------------------------------------------------------------
\* The API calls.  INTRO.rst: calls with the same queue handle do not overlap, nor
\* do launches with the same kernel handle.

\* The number of tasks of the command i, and the tasks
NumTasks(i) ==
  CASE cmd[i].op = "kernel" -> NumRanges[cmd[i].grid]
    [] cmd[i].op = "copy" -> 1
    [] OTHER -> 0
TasksOf(i) == {i} \X (1 .. NumTasks(i))
Complete(i) == IF cmd[i].op = "sync" THEN i \in hostRan ELSE TasksOf(i) \subseteq finished

InCall(i) == \E t \in Threads : pc[t] # "idle" /\ call[t].id = i
Returned == {i \in 1 .. commands : ~InCall(i)}
\* The events the application has.
Known == {i \in Returned : cmd[i].event /\ i \notin released}

QueueFree(t, q) == \A u \in Threads \ {t} : pc[u] # "idle" => call[u].q # q
KernelFree(t, k) ==
  \A u \in Threads \ {t} : pc[u] # "idle" /\ call[u].op = "kernel" =>
                               cmd[call[u].id].kernel # k

WaitLists == UNION {[1 .. n -> Known] : n \in 0 .. MaxWaits}

OnQueue(q) == {i \in 1 .. commands : cmd[i].q = q}

\* A call that makes the command c: it runs after its wait list and, on an in-order
\* queue, after what is on the queue.
NewCommand(t, c) ==
  /\ commands < MaxCommands
  /\ commands' = commands + 1
  /\ cmd' = [cmd EXCEPT ![commands + 1] =
       [c EXCEPT !.needs = InSeq(c.list) \cup
                           IF c.q \in InOrderQueues THEN OnQueue(c.q) ELSE {}]]
  /\ call' = [call EXCEPT ![t] = [NoCall EXCEPT !.op = c.op, !.q = c.q,
                                                !.id = commands + 1]]

\* urEnqueueKernelLaunchWithArgsExp sets the arguments in the kernel handle.  It
\* makes an event even if phEvent is null: the application then never uses it.
CallKernel(t) ==
  \E q \in Queues, list \in WaitLists, k \in Kernels, grid \in Grids,
     local \in LocalArgs :
    /\ pc[t] = "idle" /\ "kernel" \in Ops /\ stopping = 0
    /\ QueueFree(t, q) /\ KernelFree(t, k)
    /\ NewCommand(t, [NoCommand EXCEPT !.op = "kernel", !.q = q, !.list = list,
                        !.event = TRUE, !.kernel = k, !.grid = grid,
                        !.local = local])
    /\ localArgs' = IF local THEN [localArgs EXCEPT ![k] = @ + 1] ELSE localArgs
    /\ Goto(t, "create")
    /\ UNCHANGED <<poolVars, events, event, hostRan, released, todo, then, scan>>

\* A launch that fails one of the checks, or at a later argument, leaves the local
\* argument it has set in the handle.
CallRejected(t) ==
  \E k \in Kernels :
    /\ pc[t] = "idle" /\ "kernel" \in Ops /\ stopping = 0
    /\ KernelFree(t, k) /\ localArgs[k] < MaxRejected
    /\ localArgs' = [localArgs EXCEPT ![k] = @ + 1]
    /\ UNCHANGED <<poolVars, events, event, cmdVars, control, call, scan>>

\* withTimingEvent, not blocking, with an event, on an out-of-order queue
CallCopy(t) ==
  \E q \in Queues \ InOrderQueues, list \in WaitLists :
    /\ pc[t] = "idle" /\ "copy" \in Ops /\ stopping = 0 /\ QueueFree(t, q)
    /\ NewCommand(t, [NoCommand EXCEPT !.op = "copy", !.q = q, !.list = list,
                        !.event = TRUE])
    /\ Goto(t, "create")
    /\ UNCHANGED <<poolVars, eventVars, hostRan, released, todo, then, scan>>

\* withTimingEvent otherwise: the command runs in this call.
CallSync(t) ==
  \E q \in Queues, list \in WaitLists, ev \in BOOLEAN :
    /\ pc[t] = "idle" /\ "sync" \in Ops /\ stopping = 0 /\ QueueFree(t, q)
    /\ NewCommand(t, [NoCommand EXCEPT !.op = "sync", !.q = q, !.list = list,
                        !.event = ev])
    /\ IF ev THEN Goto(t, "create") /\ UNCHANGED <<todo, then>>
       ELSE WaitFor(t, list, "function")
    /\ UNCHANGED <<poolVars, eventVars, hostRan, released, scan>>

\* new ur_event_handle_t_, which adds itself to the queue; a kernel launch copies
\* the kernel with its arguments.  A grid without work-groups makes no task.
Create(t) ==
  LET e == call[t].id
      c == cmd[e] IN
  /\ pc[t] = "create"
  /\ event' = [event EXCEPT ![e] = [NoEvent EXCEPT !.refs = 1, !.alive = TRUE]]
  /\ events' = [events EXCEPT ![c.q] = @ \cup {e}]
  /\ cmd' = IF c.op = "kernel" THEN [cmd EXCEPT ![e].copied = localArgs[c.kernel]]
            ELSE cmd
  /\ IF c.op = "sync" THEN WaitFor(t, c.list, "function")
     ELSE /\ Goto(t, IF NumTasks(e) = 0 THEN "setTasksinfo" ELSE "bestWorker")
          /\ UNCHANGED <<todo, then>>
  /\ call' = [call EXCEPT ![t].part = 1]
  /\ scan' = [scan EXCEPT ![t] = NoScan]
  /\ UNCHANGED <<poolVars, localArgs, commands, hostRan, released>>

\* best_worker compares the counters of two workers.
BestWorker(t) ==
  LET s == scan[t] IN
  /\ pc[t] = "bestWorker" /\ s.next <= NumThreads
  /\ scan' = [scan EXCEPT ![t] =
       [best |-> IF numTasks[s.next] < numTasks[s.best] THEN s.next ELSE s.best,
        next |-> s.next + 1]]
  /\ UNCHANGED <<poolVars, eventVars, cmdVars, control, call>>

\* Variant: m_numTasks is not increased.
Schedule_NoCount(t) ==
  LET i == call[t].id
      w == scan[t].best IN
  /\ pc[t] = "bestWorker" /\ scan[t].next > NumThreads
  /\ tasks' = [tasks EXCEPT ![w] = Append(@, <<i, call[t].part>>)]
  /\ call' = [call EXCEPT ![t].part = @ + 1]
  /\ scan' = [scan EXCEPT ![t] = NoScan]
  /\ Goto(t, IF call[t].part = NumTasks(i) THEN "setTasksinfo"
             ELSE "bestWorker")
  /\ UNCHANGED <<numTasks, isRunning, busy, finished, stopping, eventVars, cmdVars,
                 todo, then>>

\* worker_thread::schedule, and on to the next task
Schedule(t) ==
  LET i == call[t].id
      w == scan[t].best IN
  /\ pc[t] = "bestWorker" /\ scan[t].next > NumThreads
  /\ tasks' = [tasks EXCEPT ![w] = Append(@, <<i, call[t].part>>)]
  /\ numTasks' = [numTasks EXCEPT ![w] = @ + 1]
  /\ call' = [call EXCEPT ![t].part = @ + 1]
  /\ scan' = [scan EXCEPT ![t] = NoScan]
  /\ Goto(t, IF call[t].part = NumTasks(i) THEN "setTasksinfo"
             ELSE "bestWorker")
  /\ UNCHANGED <<isRunning, busy, finished, stopping, eventVars, cmdVars, todo, then>>

\* set_tasksinfo and set_callback: the callback takes over the copies of the kernel
\* and of the wait list.  A kernel on an in-order queue is waited for.
SetTasksinfo(t) ==
  LET e == call[t].id IN
  /\ pc[t] = "setTasksinfo" /\ event[e].mutex = None
  /\ event' = [event EXCEPT ![e].tasksinfo = TasksOf(e), ![e].callback = TRUE]
  /\ IF cmd[e].q \in InOrderQueues THEN WaitFor(t, <<e>>, "return")
     ELSE Goto(t, "return") /\ UNCHANGED <<todo, then>>
  /\ UNCHANGED <<poolVars, events, localArgs, cmdVars, call, scan>>

\* The command's function runs in the host thread.
Function(t) ==
  /\ pc[t] = "function"
  /\ hostRan' = hostRan \cup {call[t].id}
  /\ Goto(t, "return")
  /\ UNCHANGED <<poolVars, eventVars, commands, cmd, released, todo, then, call, scan>>

\* urEventWait
CallWait(t) ==
  \E list \in WaitLists \ {<<>>} :
    /\ pc[t] = "idle" /\ "wait" \in Ops /\ stopping = 0
    /\ call' = [call EXCEPT ![t] = [NoCall EXCEPT !.op = "wait",
                                                  !.before = InSeq(list)]]
    /\ WaitFor(t, list, "return")
    /\ UNCHANGED <<poolVars, eventVars, cmdVars, scan>>

\* urQueueFinish
CallFinish(t) ==
  \E q \in Queues :
    /\ pc[t] = "idle" /\ "finish" \in Ops /\ stopping = 0 /\ QueueFree(t, q)
    /\ ReleaseApart => \A u \in Threads : call[u].op = "release" =>
                                             cmd[call[u].part].q # q
    /\ OnQueue(q) # {}
    /\ call' = [call EXCEPT ![t] = [NoCall EXCEPT !.op = "finish", !.q = q,
                                                  !.before = OnQueue(q)]]
    /\ Goto(t, "finish")
    /\ UNCHANGED <<poolVars, eventVars, cmdVars, todo, then, scan>>

\* One turn of finish's loop: retains some event of the set and waits for it.
Finish(t) ==
  /\ pc[t] = "finish"
  /\ \E e \in events[call[t].q] :
       /\ event' = [event EXCEPT ![e].refs = @ + 1]
       /\ WaitFor(t, <<e>>, "unref")
       /\ call' = [call EXCEPT ![t].part = e]
  /\ UNCHANGED <<poolVars, events, localArgs, cmdVars, scan>>

Finished(t) ==
  /\ pc[t] = "finish" /\ events[call[t].q] = {}
  /\ Goto(t, "return")
  /\ UNCHANGED <<poolVars, eventVars, cmdVars, todo, then, call, scan>>

\* decrementOrDelete after the wait: the event is done and its destructor does not
\* wait.
Unref(t) ==
  LET e == call[t].part IN
  /\ pc[t] = "unref"
  /\ event' = [event EXCEPT ![e].refs = @ - 1, ![e].alive = @ /\ event[e].refs > 1]
  /\ Goto(t, "finish")
  /\ UNCHANGED <<poolVars, events, localArgs, cmdVars, todo, then, call, scan>>

\* Variant: the destructor does not wait.
Release_NoWait(t, e) ==
  /\ event' = [event EXCEPT ![e].refs = @ - 1, ![e].alive = @ /\ event[e].refs > 1]
  /\ Goto(t, "return")
  /\ UNCHANGED <<todo, then>>

\* decrementOrDelete; the destructor waits if the event is not done.
Release(t, e) ==
  /\ event' = [event EXCEPT ![e].refs = @ - 1,
                 ![e].alive = @ /\ (event[e].refs > 1 \/ ~event[e].done)]
  /\ IF event[e].refs = 1 /\ ~event[e].done THEN WaitFor(t, <<e>>, "delete")
     ELSE Goto(t, "return") /\ UNCHANGED <<todo, then>>

\* urEventRelease of an event that the application does not use in another call and
\* that is in the wait list of no command left to run.  The handle is not the queue's:
\* calls on the queue may overlap, urQueueFinish unless ReleaseApart.
CallRelease(t) ==
  \E e \in Known :
    /\ pc[t] = "idle" /\ "release" \in Ops /\ stopping = 0
    /\ \A u \in Threads : call[u].op # "finish" => e \notin InSeq(todo[u])
    /\ \A i \in 1 .. commands : e \in InSeq(cmd[i].list) => Complete(i) /\ ~InCall(i)
    /\ ReleaseApart => \A u \in Threads : call[u].op = "finish" => call[u].q # cmd[e].q
    /\ released' = released \cup {e}
    /\ call' = [call EXCEPT ![t] = [NoCall EXCEPT !.op = "release", !.part = e]]
    /\ Release(t, e)
    /\ UNCHANGED <<poolVars, events, localArgs, commands, cmd, hostRan, scan>>

\* The destructor has waited.
Delete(t) ==
  /\ pc[t] = "delete"
  /\ event' = [event EXCEPT ![call[t].part].alive = FALSE]
  /\ Goto(t, "return")
  /\ UNCHANGED <<poolVars, events, localArgs, cmdVars, todo, then, call, scan>>

Return(t) ==
  /\ pc[t] = "return"
  /\ Goto(t, "idle")
  /\ call' = [call EXCEPT ![t] = NoCall]
  /\ UNCHANGED <<poolVars, eventVars, cmdVars, todo, then, scan>>

Call(t) == CallKernel(t) \/ CallRejected(t) \/ CallCopy(t) \/ CallSync(t)
           \/ CallWait(t) \/ CallFinish(t) \/ CallRelease(t)

Step(t) == Wait(t) \/ Create(t) \/ BestWorker(t) \/ Schedule(t) \/ SetTasksinfo(t)
           \/ Function(t) \/ Finish(t) \/ Finished(t) \/ Unref(t)
           \/ Delete(t) \/ Return(t)

Next == \/ \E t \in Threads : Call(t) \/ Step(t)
        \/ \E w \in Workers : Work(w)
        \/ Stop

Spec == Init /\ [][Next]_vars

\* The system runs its threads, host and worker; applications need not call.
FairSpec == Spec /\ (\A t \in Threads : WF_vars(Step(t)))
                 /\ (\A w \in Workers : WF_vars(Work(w)))

-----------------------------------------------------------------------------
Labels == {"idle", "wait", "waitAll", "callback", "body", "count", "exited", "create",
           "bestWorker", "setTasksinfo", "function", "finish", "unref",
           "delete", "return"}

\* Every variable has its type; in particular the unsigned m_numTasks of a worker,
\* which the worker decreases after the task, never falls below zero.
TypeOK ==
  /\ tasks \in [Workers -> Seq(Tasks)] /\ numTasks \in [Workers -> Nat]
  /\ isRunning \in [Workers -> BOOLEAN]
  /\ busy \in [Workers -> Tasks \cup {NoTask}] /\ finished \subseteq Tasks
  /\ stopping \in 0 .. NumThreads
  /\ events \in [Queues -> SUBSET Ids]
  /\ event \in [Ids -> [refs : Nat, alive : BOOLEAN, done : BOOLEAN,
                        mutex : Actors \cup {None}, tasksinfo : SUBSET Tasks,
                        callback : BOOLEAN]]
  /\ localArgs \in [Kernels -> Nat]
  /\ commands \in 0 .. MaxCommands
  /\ hostRan \subseteq Ids /\ released \subseteq Ids
  /\ pc \in [Actors -> Labels] /\ then \in [Actors -> Labels]
  /\ todo \in [Actors -> Seq(Ids)]

\* A task runs only when every command of its wait list has run, to the last of its
\* tasks, and on an in-order queue everything enqueued before.
NeedsMet ==
  /\ \A task \in finished : \A i \in cmd[task[1]].needs : Complete(i)
  /\ \A i \in hostRan : \A j \in cmd[i].needs : Complete(j)

\* An event is done only when all the tasks of its command are; urEventWait and
\* urQueueFinish return only when the commands they are about have run.
WaitsTruthful ==
  /\ \A e \in Known : event[e].done => Complete(e)
  /\ \A t \in Threads : pc[t] = "return" => \A i \in call[t].before : Complete(i)

\* The copy of the kernel and of the wait list that a task uses belongs to the
\* callback of its event: an event is not deleted before the tasks have run, nor
\* while a thread waits for it.  The application is one that keeps urEventRelease
\* apart from urQueueFinish of the event's queue (ReleaseApart): finish may retain an
\* event whose destructor already waits, and then waits for a deleted one.
EventsOutliveUse ==
  /\ \A i \in Returned : cmd[i].op # "sync" /\ ~event[i].alive => Complete(i)
  /\ \A a \in Actors : \A n \in 1 .. Len(todo[a]) : event[todo[a][n]].alive

Smaller(grid) == (0 .. grid[1]) \X (0 .. grid[2]) \X (0 .. grid[3])
RunsOnce(grid) ==
  LET ranges == Ranges(grid)
      groups == [p \in 1 .. Len(ranges) |-> GroupsOf(grid, ranges[p])]
      runs == UNION {{p} \X (1 .. Len(groups[p])) : p \in 1 .. Len(ranges)}
  IN /\ {groups[r[1]][r[2]] : r \in runs} =
          (0 .. grid[1] - 1) \X (0 .. grid[2] - 1) \X (0 .. grid[3] - 1)
     /\ Cardinality(runs) = NumWG(grid)
SoundGrids == {grid \in Grids : \A g \in Smaller(grid) : RunsOnce(g)}
\* The tasks of a launch run every work-group of the grid once, and so they would
\* with any smaller grid, empty ones included.
EveryGroupOnce == \A i \in 1 .. commands : cmd[i].op = "kernel" =>
                    cmd[i].grid \in SoundGrids

\* Every API call returns, although tasks wait for other commands inside the
\* workers, and although a thread keeps an event's mutex while it waits.
CallsReturn == \A t \in Threads : pc[t] # "idle" ~> pc[t] = "idle"

\* Every command that was enqueued is run, even if the pool is destroyed before.
CommandsRun == \A i \in Ids : i \in Returned ~> Complete(i)

\* A launch that sets a local argument runs with it: its copy of the kernel, from
\* which getArgs replaces the placeholder, has the entry.
LocalArgsKept ==
  \A i \in Returned : cmd[i].op = "kernel" /\ cmd[i].local => cmd[i].copied > 0

-----------------------------------------------------------------------------
\* The strengthening that makes the invariants above inductive.

Enqueued == 1 .. commands
Enqueues == {"kernel", "copy", "sync"}
Waiting == {"wait", "waitAll", "callback"}

\* Where an actor goes on once it has waited.
Place(a) == IF pc[a] \in Waiting THEN then[a] ELSE pc[a]

\* The places of a call
Places(op) ==
  CASE op \in {"kernel", "copy"} -> {"create", "bestWorker", "setTasksinfo", "return"}
    [] op = "sync" -> {"create", "function", "return"}
    [] op = "wait" -> {"return"}
    [] op = "finish" -> {"finish", "unref", "return"}
    [] op = "release" -> {"delete", "return"}
    [] OTHER -> {"idle"}

\* No call is about the command i any more.
Free(i) == \A t \in Threads : call[t].id # i
\* Every call about it has done all but return.
Past(i) == \A t \in Threads : call[t].id = i => Place(t) = "return"
\* Its event has been made.
Made(e) ==
  /\ e \in Enqueued /\ cmd[e].event
  /\ \A t \in Threads : call[t].id = e => Place(t) # "create"

Command == [op : Enqueues \cup {"none"}, q : Queues \cup {None}, list : Seq(Ids),
            kernel : Kernels \cup {None}, grid : Nat \X Nat \X Nat, event : BOOLEAN,
            local : BOOLEAN, copied : Nat, needs : SUBSET Ids]

\* A command comes after those it waits for.
CommandOK(i) ==
  /\ cmd[i].op \in Enqueues /\ cmd[i].q \in Queues
  /\ cmd[i].op # "sync" => cmd[i].event
  /\ cmd[i].op = "kernel" => cmd[i].grid \in Grids /\ cmd[i].kernel \in Kernels
  /\ cmd[i].op = "copy" => cmd[i].q \notin InOrderQueues
  /\ InSeq(cmd[i].list) \subseteq cmd[i].needs /\ cmd[i].needs \subseteq Enqueued
  /\ \A e \in InSeq(cmd[i].list) : cmd[e].event

\* A thread is at a place of its call, which names its queue, its command and the
\* event it retains or deletes.
CallOK(t) ==
  /\ Place(t) \in Places(call[t].op)
  /\ call[t].id = 0 <=> call[t].op \notin Enqueues
  /\ call[t].op \in Enqueues =>
       /\ call[t].id \in Enqueued
       /\ cmd[call[t].id].op = call[t].op /\ cmd[call[t].id].q = call[t].q
       /\ Place(t) = "create" => cmd[call[t].id].event
       /\ Place(t) = "bestWorker" => call[t].part \in 1 .. NumTasks(call[t].id)
  /\ call[t].op \in {"none", "wait", "release"} => call[t].q = None
  /\ call[t].op = "finish" => call[t].q \in Queues
  /\ call[t].op \notin {"wait", "finish"} => call[t].before = {}
  /\ call[t].before \subseteq Enqueued
  /\ call[t].op = "finish" => \A i \in call[t].before : cmd[i].q = call[t].q
  /\ call[t].op = "finish" /\ Place(t) = "unref" =>
       /\ call[t].part \in Enqueued \ released /\ cmd[call[t].part].q = call[t].q
  /\ call[t].op = "release" => call[t].part \in released

\* The event that t releases is released by t only, and u does not finish its queue.
KeepsApart(t, u) ==
  call[t].op = "release" =>
    /\ call[u].op = "finish" => call[u].q # cmd[call[t].part].q
    /\ call[u].op = "release" => call[u].part # call[t].part

\* Calls with the same queue handle do not overlap, nor do urQueueFinish and the
\* release of an event of the queue.
CallsApart ==
  \A t, u \in Threads : t # u =>
    /\ call[t].q = call[u].q => call[t].q = None
    /\ KeepsApart(t, u)

\* An actor waits exactly while it has something to wait for; a worker has a task
\* from the time it takes it to --m_numTasks, which counts it.
ActorOK(a) == pc[a] \in Waiting <=> todo[a] # <<>>
WorkerOK(w) ==
  /\ Place(w) \in {"idle", "body", "count", "exited"}
  /\ Place(w) \in {"body", "count"} <=> busy[w] # NoTask
  /\ numTasks[w] = Len(tasks[w]) + (IF busy[w] = NoTask THEN 0 ELSE 1)

\* A task that was scheduled is one of its command's.
TaskOK(s) == s[1] \in Enqueued /\ s[2] \in 1 .. NumTasks(s[1])
TasksOK ==
  /\ \A s \in finished : TaskOK(s)
  /\ \A w \in Workers : \A s \in InSeq(tasks[w]) : TaskOK(s)
  /\ \A w \in Workers : busy[w] # NoTask => TaskOK(busy[w])

Types ==
  /\ TypeOK
  /\ cmd \in [Ids -> Command]
  /\ call \in [Threads -> [op : AllOps \cup {"none"}, q : Queues \cup {None},
                           id : Nat, part : Nat, before : SUBSET Ids]]
  /\ scan \in [Threads -> [best : Workers, next : Nat \ {0}]]
  /\ released \subseteq Enqueued /\ hostRan \subseteq Enqueued
  /\ \A i \in Enqueued : CommandOK(i)
  /\ \A t \in Threads : CallOK(t)
  /\ CallsApart
  /\ \A a \in Actors : ActorOK(a)
  /\ \A w \in Workers : WorkerOK(w)
  /\ TasksOK

\* All tasks of i scheduled so far come before its task n.
Below(i, n) ==
  /\ \A s \in finished : s[1] = i => s[2] < n
  /\ \A w \in Workers : \A s \in InSeq(tasks[w]) : s[1] = i => s[2] < n
  /\ \A w \in Workers : busy[w][1] = i => busy[w][2] < n

Distinct(s) == \A m, n \in 1 .. Len(s) : s[m] = s[n] => m = n

\* A task is scheduled once, and until it has run it is in one place.
TasksOnce ==
  /\ \A w \in Workers :
       /\ Distinct(tasks[w])
       /\ InSeq(tasks[w]) \cap finished = {}
       /\ Place(w) = "body" => busy[w] \notin finished
       /\ \A v \in Workers :
            /\ busy[v] \notin InSeq(tasks[w])
            /\ v # w => InSeq(tasks[v]) \cap InSeq(tasks[w]) = {}
            /\ v # w /\ busy[w] # NoTask => busy[v] # busy[w]
  /\ \A t \in Threads : call[t].op \in {"kernel", "copy"} =>
       /\ Place(t) = "create" => Below(call[t].id, 1)
       /\ Place(t) = "bestWorker" => Below(call[t].id, call[t].part)

\* What an actor waits for: a task and a command in the host thread for the wait
\* list, a kernel on an in-order queue for itself.
Goal(a) ==
  IF a \in Workers THEN IF busy[a] = NoTask THEN {} ELSE InSeq(cmd[busy[a][1]].list)
  ELSE CASE call[a].op = "sync" -> InSeq(cmd[call[a].id].list)
         [] call[a].op = "kernel" /\ call[a].q \in InOrderQueues -> {call[a].id}
         [] call[a].op = "wait" -> call[a].before
         [] call[a].op \in {"finish", "release"} -> {call[a].part}
         [] OTHER -> {}

\* It waits, or has waited.
Waits(a) ==
  \/ Place(a) \in {"body", "count", "function", "unref", "delete"}
  \/ a \in Threads /\ Place(a) = "return" /\ call[a].op \in {"kernel", "wait"}

Retains(t, e) == call[t].op = "finish" /\ Place(t) = "unref" /\ call[t].part = e
Deletes(t, e) == call[t].op = "release" /\ Place(t) = "delete" /\ call[t].part = e

\* What an actor waits for is done or still to be waited for, and can be waited
\* for: no other call is about to make or to delete it.
GoalOK(a) ==
  /\ todo[a] # <<>> => Waits(a) /\ Place(a) # "count"
  /\ InSeq(todo[a]) \subseteq Goal(a)
  /\ Waits(a) => \A e \in Goal(a) :
       Made(e) /\ Past(e) /\ (event[e].done \/ e \in InSeq(todo[a]))
  /\ pc[a] = "callback" => event[Head(todo[a])].done
  /\ \A e \in InSeq(todo[a]) : e \in released => a \in Threads /\ Deletes(a, e)

\* The future of every task is in the event, unless the command ran in its call.
Ready(i) == IF cmd[i].op = "sync" THEN i \in hostRan
            ELSE event[i].tasksinfo = TasksOf(i)

\* An event leaves the queue's set when it is done, and is done only when its
\* command has run; it is deleted only after its release, once it is done.
EventOK(e) ==
  /\ Past(e) => Ready(e)
  /\ \A q \in Queues : e \in events[q] <=> Made(e) /\ cmd[e].q = q /\ ~event[e].done
  /\ Made(e) =>
       /\ event[e].done => Complete(e)
       /\ ~event[e].alive => event[e].done
       /\ e \notin released =>
            /\ event[e].alive
            /\ event[e].refs = IF \E t \in Threads : Retains(t, e) THEN 2 ELSE 1
  /\ e \in released =>
       /\ cmd[e].event /\ Free(e)
       /\ ~event[e].done => \E t \in Threads : Deletes(t, e)
  /\ \A t \in Threads : Deletes(t, e) => event[e].alive

\* What a command needs is complete or on its wait list, whose events the
\* application keeps until the command is complete.
NeedsOK(i) ==
  /\ \A e \in InSeq(cmd[i].list) : Free(e) /\ (e \in released => Complete(i) /\ Free(i))
  /\ \A j \in cmd[i].needs : Complete(j) \/ j \in InSeq(cmd[i].list)
  /\ cmd[i].q \in InOrderQueues /\ Free(i) => Complete(i)

IInv == /\ Types
        /\ TasksOnce
        /\ \A i \in Enqueued : EventOK(i) /\ NeedsOK(i)
        /\ \A q \in Queues : events[q] \subseteq Enqueued
        /\ \A a \in Actors : GoalOK(a)
        /\ NeedsMet
        /\ WaitsTruthful

=============================================================================
