--------------------- MODULE NativeCpuQueueWorkerProofs ---------------------
(***************************************************************************)
(* Proofs about NativeCpuQueue for any number of threads, workers, queues  *)
(* and commands, first part: the lemmas on its operators, what any step    *)
(* keeps, and that the steps of the workers and of the waits preserve the  *)
(* inductive invariant IInv.                                               *)
(***************************************************************************)
EXTENDS NativeCpuQueue, TLAPS

\* The provers of the leaves that name none
USE SMTT(15), Zenon, Z3T(15)

\* The elements of a sequence under the operations of the model.
LEMMA InSeqEmpty == InSeq(<<>>) = {}
BY DEF InSeq

LEMMA InSeqTail ==
  ASSUME NEW S, NEW s \in Seq(S), s # <<>>
  PROVE  /\ Head(s) \in InSeq(s) /\ Head(s) \in S
         /\ InSeq(Tail(s)) \subseteq InSeq(s)
         /\ InSeq(s) = InSeq(Tail(s)) \cup {Head(s)}
         /\ Tail(s) \in Seq(S) /\ Len(s) = Len(Tail(s)) + 1
<1>   /\ Len(s) \in Nat /\ Len(s) > 0 /\ Len(Tail(s)) = Len(s) - 1 /\ Head(s) = s[1]
      /\ \A n \in 1 .. Len(s) - 1 : Tail(s)[n] = s[n + 1]
      /\ Tail(s) \in Seq(S)
  OBVIOUS
<1>2. \A y \in InSeq(Tail(s)) : y \in InSeq(s)
  BY DEF InSeq
<1>3. \A y \in InSeq(s) : y \in InSeq(Tail(s)) \cup {Head(s)}
  <2> SUFFICES ASSUME NEW n \in 1 .. Len(s), n # 1 PROVE s[n] \in InSeq(Tail(s))
    BY DEF InSeq
  <2>1. n - 1 \in 1 .. Len(Tail(s)) /\ Tail(s)[n - 1] = s[n]
    OBVIOUS
  <2> QED BY Zenon, <2>1 DEF InSeq
<1>4. Head(s) \in InSeq(s)
  BY DEF InSeq
<1> QED BY <1>2, <1>3, <1>4

LEMMA TailEmpty ==
  ASSUME NEW S, NEW s \in Seq(S), s # <<>>
  PROVE  Tail(s) = <<>> <=> ~(Len(s) > 1)
<1>   /\ Tail(s) \in Seq(S) /\ Len(Tail(s)) = Len(s) - 1 /\ Len(s) \in Nat
      /\ Len(s) > 0
  OBVIOUS
<1>2. \A r \in Seq(S) : r = <<>> <=> Len(r) = 0
  OBVIOUS
<1>3. Tail(s) = <<>> <=> Len(Tail(s)) = 0
  BY Zenon, <1>2
<1>4. \A n \in Nat : n > 0 => (n - 1 = 0 <=> ~(n > 1))
  OBVIOUS
<1> QED BY Zenon, <1>3, <1>4

LEMMA InSeqElements ==
  ASSUME NEW S, NEW s \in Seq(S)
  PROVE  InSeq(s) \subseteq S /\ Len(s) \in Nat /\ (InSeq(s) = {} => s = <<>>)
<1>   Len(s) \in Nat /\ \A n \in 1 .. Len(s) : s[n] \in S
  OBVIOUS
<1>2. ASSUME InSeq(s) = {} PROVE s = <<>>
  <2>1. ~(1 \in 1 .. Len(s))
    BY <1>2 DEF InSeq
  <2> QED BY <2>1
<1> QED BY <1>2 DEF InSeq

LEMMA DistinctTail ==
  ASSUME NEW S, NEW s \in Seq(S), s # <<>>, Distinct(s)
  PROVE  Distinct(Tail(s)) /\ Head(s) \notin InSeq(Tail(s))
<1>1. /\ Len(s) \in Nat /\ Len(s) > 0 /\ Len(Tail(s)) = Len(s) - 1 /\ Head(s) = s[1]
      /\ \A n \in 1 .. Len(s) - 1 : Tail(s)[n] = s[n + 1]
  OBVIOUS
<1> QED BY <1>1 DEF Distinct, InSeq

-----------------------------------------------------------------------------
\* Places and waits

Control ==
  /\ pc \in [Actors -> Labels] /\ then \in [Actors -> Labels]
  /\ todo \in [Actors -> Seq(Ids)]
  /\ \A a \in Actors : ActorOK(a)

Still(b) == pc'[b] = pc[b] /\ todo'[b] = todo[b] /\ then'[b] = then[b]

\* The actor a goes to the place label, to wait for the events of s first.
GoesTo(a, label, s) ==
  /\ Control'
  /\ Place(a)' = label /\ todo'[a] = s /\ pc'[a] # "callback"
  /\ \A b \in Actors \ {a} : Still(b)

LEMMA StillPlace == ASSUME NEW b, Still(b) PROVE Place(b)' = Place(b)
BY DEF Still, Place

\* An actor that does not wait is at its place, with nothing to wait for.
LEMMA NotWaiting ==
  ASSUME Control, NEW a \in Actors, pc[a] \notin Waiting
  PROVE  todo[a] = <<>> /\ Place(a) = pc[a]
BY DEF Control, ActorOK, Place

LEMMA GotoMoves ==
  ASSUME Control, NEW a \in Actors, pc[a] \notin Waiting, NEW label \in Labels \ Waiting,
         Goto(a, label), UNCHANGED <<todo, then>>
  PROVE  GoesTo(a, label, <<>>)
<1>   todo[a] = <<>>
  BY NotWaiting
<1>   pc' \in [Actors -> Labels] /\ pc'[a] = label /\ \A b \in Actors \ {a} : pc'[b] = pc[b]
  BY DEF Control, Goto
<1>3. Control'
  BY Zenon DEF Control, ActorOK
<1> QED BY <1>3 DEF GoesTo, Still, Place, Waiting

LEMMA WaitForMoves ==
  ASSUME Control, NEW a \in Actors, pc[a] \notin Waiting, NEW label \in Labels \ Waiting,
         NEW list \in Seq(Ids), WaitFor(a, list, label)
  PROVE  GoesTo(a, label, list)
<1>1. CASE list = <<>>
  BY <1>1, GotoMoves DEF WaitFor
<1>2. CASE list # <<>>
  <2>   /\ pc' = [pc EXCEPT ![a] = "wait"]
        /\ todo' = [todo EXCEPT ![a] = list]
        /\ then' = [then EXCEPT ![a] = label]
    BY <1>2 DEF WaitFor
  <2>2. /\ pc' \in [Actors -> Labels] /\ todo' \in [Actors -> Seq(Ids)]
        /\ then' \in [Actors -> Labels]
    BY DEF Control, Labels
  <2>   /\ pc'[a] = "wait" /\ todo'[a] = list /\ then'[a] = label
        /\ \A b \in Actors \ {a} : Still(b)
    BY DEF Control, Still
  <2>4. Control'
    BY <1>2, <2>2 DEF Control, ActorOK, Still, Waiting
  <2> QED BY <2>4 DEF GoesTo, Place, Waiting
<1> QED BY <1>1, <1>2

-----------------------------------------------------------------------------
\* Types

CallType == [op : AllOps \cup {"none"}, q : Queues \cup {None}, id : Nat, part : Nat,
             before : SUBSET Ids]

EventType == [refs : Nat, alive : BOOLEAN, done : BOOLEAN, mutex : Actors \cup {None},
              tasksinfo : SUBSET Tasks, callback : BOOLEAN]

ScanType == [best : Workers, next : Nat \ {0}]

\* The variables of the pool, of the events and of the calls have their types.
PoolTypes ==
  /\ tasks \in [Workers -> Seq(Tasks)] /\ numTasks \in [Workers -> Nat]
  /\ isRunning \in [Workers -> BOOLEAN]
  /\ busy \in [Workers -> Tasks \cup {NoTask}] /\ finished \subseteq Tasks
  /\ stopping \in 0 .. NumThreads

EventTypes ==
  /\ events \in [Queues -> SUBSET Ids] /\ event \in [Ids -> EventType]
  /\ localArgs \in [Kernels -> Nat]

CallTypes ==
  /\ commands \in 0 .. MaxCommands /\ cmd \in [Ids -> Command]
  /\ released \subseteq Enqueued /\ hostRan \subseteq Enqueued
  /\ call \in [Threads -> CallType] /\ scan \in [Threads -> ScanType]

PoolOK == (\A w \in Workers : WorkerOK(w)) /\ TasksOK

CallsOK == /\ \A i \in Enqueued : CommandOK(i)
           /\ \A t \in Threads : CallOK(t)
           /\ CallsApart

LEMMA TypesParts ==
  Types <=> PoolTypes /\ EventTypes /\ CallTypes /\ Control /\ PoolOK /\ CallsOK
<1>1. CallTypes => released \subseteq Ids /\ hostRan \subseteq Ids
  BY BoundAssumption DEF CallTypes, Enqueued, Ids
<1> QED BY Zenon, <1>1 DEF Types, TypeOK, PoolTypes, EventTypes, CallTypes, Control, PoolOK,
            CallsOK, CallType, EventType, ScanType

\* What the assignments to an event change.
LEMMA EventIs == ASSUME Types PROVE event \in [Ids -> EventType]
BY Zenon, TypesParts DEF EventTypes

LEMMA RefsSet ==
  ASSUME event \in [Ids -> EventType], NEW e \in Ids,
         event' = [event EXCEPT ![e].refs = event[e].refs + 1]
  PROVE  /\ event' \in [Ids -> EventType]
         /\ event'[e].refs = event[e].refs + 1 /\ event[e].refs \in Nat
         /\ event'[e].alive = event[e].alive /\ event'[e].done = event[e].done
         /\ event'[e].tasksinfo = event[e].tasksinfo
         /\ \A j \in Ids \ {e} : event'[j] = event[j]
BY DEF EventType

SetsRefsAlive(e, n, b) == event' = [event EXCEPT ![e].refs = n, ![e].alive = b]

RefsAliveOnly(e, n, b) ==
  /\ event'[e].refs = n /\ event'[e].alive = b
  /\ event'[e].done = event[e].done /\ event'[e].tasksinfo = event[e].tasksinfo
  /\ \A j \in Ids \ {e} : event'[j] = event[j]

LEMMA RefsAliveSet ==
  ASSUME event \in [Ids -> EventType], NEW e \in Ids, NEW n, NEW b, SetsRefsAlive(e, n, b)
  PROVE  RefsAliveOnly(e, n, b)
BY DEF EventType, SetsRefsAlive, RefsAliveOnly

LEMMA RefsAliveType ==
  ASSUME event \in [Ids -> EventType], NEW e \in Ids, NEW n \in Nat, NEW b \in BOOLEAN,
         SetsRefsAlive(e, n, b)
  PROVE  event' \in [Ids -> EventType]
BY ZenonT(40) DEF EventType, SetsRefsAlive

SetsTasksinfo(e, x) == event' = [event EXCEPT ![e].tasksinfo = x, ![e].callback = TRUE]

TasksinfoOnly(e, x) ==
  /\ event'[e].refs = event[e].refs /\ event'[e].alive = event[e].alive
  /\ event'[e].done = event[e].done /\ event'[e].tasksinfo = x
  /\ \A j \in Ids \ {e} : event'[j] = event[j]

LEMMA TasksinfoSet ==
  ASSUME event \in [Ids -> EventType], NEW e \in Ids, NEW x, SetsTasksinfo(e, x)
  PROVE  TasksinfoOnly(e, x)
BY DEF EventType, SetsTasksinfo, TasksinfoOnly

LEMMA DoneSet ==
  ASSUME event \in [Ids -> EventType], NEW e \in Ids,
         event' = [event EXCEPT ![e].done = TRUE, ![e].mutex = None]
  PROVE  /\ event'[e].refs = event[e].refs /\ event'[e].alive = event[e].alive
         /\ event'[e].done /\ event'[e].tasksinfo = event[e].tasksinfo
         /\ \A j \in Ids \ {e} : event'[j] = event[j]
BY DEF EventType

\* The commands there are keep what they are, and what has run has run.
Same(i) == /\ cmd'[i].op = cmd[i].op /\ cmd'[i].q = cmd[i].q
           /\ cmd'[i].list = cmd[i].list /\ cmd'[i].kernel = cmd[i].kernel
           /\ cmd'[i].grid = cmd[i].grid /\ cmd'[i].event = cmd[i].event
           /\ cmd'[i].needs = cmd[i].needs

Grows == /\ Enqueued \subseteq Enqueued' /\ \A i \in Enqueued : Same(i)
         /\ finished \subseteq finished' /\ hostRan \subseteq hostRan'
         /\ released \subseteq released'

LEMMA GrowsTasks ==
  ASSUME Grows, NEW i \in Enqueued
  PROVE  /\ NumTasks(i)' = NumTasks(i) /\ TasksOf(i)' = TasksOf(i)
         /\ Complete(i) => Complete(i)'
<1>   NumTasks(i)' = NumTasks(i)
  BY DEF Grows, Same, NumTasks
<1>2. TasksOf(i)' = TasksOf(i)
  BY DEF TasksOf
<1> QED BY <1>2 DEF Grows, Same, Complete

LEMMA GrowsTask == ASSUME Grows, NEW s, TaskOK(s) PROVE TaskOK(s)'
BY Zenon, GrowsTasks DEF TaskOK, Grows

\* A call goes on where it is or at a later place, while the event that it retains
\* is not released.
LEMMA GrowsCall ==
  ASSUME Grows, released \subseteq Enqueued, NEW t \in Threads, CallOK(t),
         call'[t] = call[t],
         \/ Place(t)' = Place(t)
         \/ Place(t)' \in Places(call[t].op) \ {"create", "bestWorker", "unref"},
         call[t].op = "finish" /\ Place(t) = "unref" => call[t].part \notin released'
  PROVE  CallOK(t)'
<1>   /\ Enqueued \subseteq Enqueued' /\ \A i \in Enqueued : Same(i)
      /\ released \subseteq released'
  BY DEF Grows
<1>2. ASSUME call[t].op \in Enqueues
      PROVE  /\ call[t].id \in Enqueued'
             /\ cmd'[call[t].id].op = call[t].op /\ cmd'[call[t].id].q = call[t].q
             /\ Place(t) = "create" => cmd'[call[t].id].event
             /\ Place(t) = "bestWorker" => call[t].part \in 1 .. NumTasks(call[t].id)'
  <2>1. call[t].id \in Enqueued /\ NumTasks(call[t].id)' = NumTasks(call[t].id)
    BY <1>2, GrowsTasks DEF CallOK
  <2> QED BY Zenon, <1>2, <2>1 DEF CallOK, Same
<1>3. ASSUME call[t].op = "finish" PROVE \A i \in call[t].before : cmd'[i].q = call[t].q
  BY Zenon, <1>3 DEF CallOK, Same
<1>4. ASSUME call[t].op = "finish", Place(t) = "unref"
      PROVE  call[t].part \in Enqueued' \ released' /\ cmd'[call[t].part].q = call[t].q
  BY Zenon, <1>4 DEF CallOK, Same
<1>5. ASSUME call[t].op = "release"
      PROVE  call[t].part \in released'
  BY Zenon, <1>5 DEF CallOK
<1>6. /\ Place(t)' \in Places(call[t].op)
      /\ Place(t)' \in {"create", "bestWorker", "unref"} => Place(t)' = Place(t)
  BY Zenon DEF CallOK
<1> QED BY Zenon, <1>2, <1>3, <1>4, <1>5, <1>6 DEF CallOK

\* What the places of a thread tell of its call.
LEMMA PlaceOp ==
  ASSUME NEW t, CallOK(t), call[t].op \in AllOps \cup {"none"}
  PROVE  /\ Place(t) = "idle" <=> call[t].op = "none"
         /\ Place(t) = "create" => call[t].op \in Enqueues
         /\ Place(t) \in {"bestWorker", "setTasksinfo"} => call[t].op \in {"kernel", "copy"}
         /\ Place(t) = "function" => call[t].op = "sync"
         /\ Place(t) \in {"finish", "unref"} => call[t].op = "finish"
         /\ Place(t) = "delete" => call[t].op = "release"
         /\ Place(t) \in Labels \ (Waiting \cup {"body", "count", "exited"})
<1>   Place(t) \in Places(call[t].op)
  BY DEF CallOK
<1>2. CASE call[t].op \in {"kernel", "copy"}
  BY <1>2 DEF Places, Enqueues, Labels, Waiting
<1>3. CASE call[t].op = "sync"
  BY <1>3 DEF Places, Enqueues, Labels, Waiting
<1>4. CASE call[t].op = "wait"
  BY <1>4 DEF Places, Enqueues, Labels, Waiting
<1>5. CASE call[t].op = "finish"
  BY <1>5 DEF Places, Enqueues, Labels, Waiting
<1>6. CASE call[t].op = "release"
  BY <1>6 DEF Places, Enqueues, Labels, Waiting
<1>7. CASE call[t].op = "none"
  BY <1>7 DEF Places, Enqueues, Labels, Waiting
<1> QED BY <1>2, <1>3, <1>4, <1>5, <1>6, <1>7 DEF AllOps

\* Threads are not workers.
LEMMA ThreadActor ==
  ASSUME NEW t \in Threads
  PROVE  t \in Actors /\ t \notin Workers /\ Workers \subseteq Actors \ {t}
         /\ Threads \subseteq Actors /\ t # None
BY NamesAssumption DEF Actors, Workers

LEMMA WorkerActor ==
  ASSUME NEW w \in Workers
  PROVE  w \in Actors /\ w \notin Threads /\ Threads \subseteq Actors \ {w}
         /\ Workers \subseteq Actors
BY NamesAssumption DEF Actors, Workers

\* The pool keeps its tasks.
LEMMA PoolKeep ==
  ASSUME PoolOK, Grows, UNCHANGED <<tasks, numTasks, busy, finished>>,
         \A w \in Workers : Still(w)
  PROVE  PoolOK'
<1>1. ASSUME NEW w \in Workers PROVE WorkerOK(w)'
  <2>1. Place(w)' = Place(w)
    BY StillPlace
  <2> QED BY Zenon, <2>1 DEF PoolOK, WorkerOK
<1>2. TasksOK'
  BY Zenon, GrowsTask DEF PoolOK, TasksOK
<1> QED BY <1>1, <1>2 DEF PoolOK

\* A step in which only the threads of T go on with their calls.
LEMMA StepTypes ==
  ASSUME Types, Grows, PoolTypes', EventTypes', CallTypes', Control', PoolOK',
         CallsApart', \A i \in Enqueued' \ Enqueued : CommandOK(i)',
         NEW T, \A t \in Threads \cap T : CallOK(t)',
         \A u \in Threads \ T : Still(u) /\ call'[u] = call[u],
         \A u \in Threads \ T : call[u].op = "finish" /\ Place(u) = "unref"
                               => call[u].part \notin released'
  PROVE  Types'
<1>GrowsCommand. ASSUME NEW i \in Enqueued, CommandOK(i)
      PROVE  CommandOK(i)'
  <2> /\ i \in Enqueued
      /\ CommandOK(i)
    BY <1>GrowsCommand
  <2>1. Same(i) /\ Enqueued \subseteq Enqueued'
    BY DEF Grows
  <2>2. \A e \in InSeq(cmd[i].list) : cmd'[e].event
    BY Zenon DEF CommandOK, Grows, Same
  <2> QED BY Zenon, <2>1, <2>2 DEF CommandOK, Same
<1>1. \A i \in Enqueued' : CommandOK(i)'
  BY Zenon, <1>GrowsCommand DEF Types
<1>2. ASSUME NEW u \in Threads PROVE CallOK(u)'
  <2>1. ASSUME u \notin T PROVE CallOK(u)'
    <3>1. Place(u)' = Place(u) /\ call'[u] = call[u] /\ CallOK(u)
      BY <2>1, StillPlace DEF Types
    <3> QED BY Zenon, <2>1, <3>1, GrowsCall DEF Types
  <2> QED BY Zenon, <2>1
<1>3. CallsOK'
  BY <1>1, <1>2 DEF CallsOK
<1>4. (PoolTypes /\ EventTypes /\ CallTypes /\ Control /\ PoolOK /\ CallsOK)'
  BY <1>3
<1>5. (PoolTypes /\ EventTypes /\ CallTypes /\ Control /\ PoolOK /\ CallsOK)' => Types'
  BY TypesParts, PTL
<1> QED BY <1>4, <1>5

\* Nothing changes that the types of calls and tasks depend on.
LEMMA QuietGrows ==
  ASSUME UNCHANGED <<finished, cmdVars>>
  PROVE  Grows
BY DEF Grows, Same, cmdVars, Enqueued

\* A step of the worker w, given what it does to the worker itself.
LEMMA WorkerTypes ==
  ASSUME Types, NEW w \in Workers, NEW label, NEW s, GoesTo(w, label, s),
         UNCHANGED <<eventVars, cmdVars, call, scan>>, finished \subseteq finished',
         PoolTypes', PoolOK'
  PROVE  Types' /\ Grows
<1>1. EventTypes /\ CallTypes /\ CallsApart /\ \A t \in Threads : CallOK(t)
  BY TypesParts DEF Types
<1>2. Grows
  BY DEF Grows, Same, cmdVars, Enqueued
<1>3. EventTypes' /\ CallTypes' /\ CallsApart' /\ Enqueued' = Enqueued
  BY <1>1 DEF EventTypes, CallTypes, CallsApart, KeepsApart, eventVars, cmdVars, Enqueued
<1>   Control' /\ \A u \in Threads : Still(u) /\ call'[u] = call[u]
  BY WorkerActor DEF GoesTo
<1>5. \A u \in Threads : call[u].op = "finish" /\ Place(u) = "unref"
                           => call[u].part \notin released'
  BY <1>1 DEF CallOK, cmdVars
<1>6. Types'
  <2> DEFINE T == {}
  <2>1. /\ \A u \in Threads \ T : Still(u) /\ call'[u] = call[u]
        /\ \A u \in Threads \ T : call[u].op = "finish" /\ Place(u) = "unref"
                                    => call[u].part \notin released'
        /\ \A u \in Threads \cap T : CallOK(u)'
    BY Zenon, <1>5
  <2> HIDE DEF T
  <2> QED BY Zenon, <1>2, <1>3, <2>1, StepTypes
<1> QED BY <1>2, <1>6

\* The other workers keep their tasks.
LEMMA OtherWorkers ==
  ASSUME PoolOK, NEW w \in Workers, NEW label, NEW s, GoesTo(w, label, s),
         \A v \in Workers \ {w} : tasks'[v] = tasks[v] /\ numTasks'[v] = numTasks[v]
                                  /\ busy'[v] = busy[v]
  PROVE  \A v \in Workers \ {w} : WorkerOK(v)'
<1> SUFFICES ASSUME NEW v \in Workers \ {w} PROVE WorkerOK(v)'
  OBVIOUS
<1>1. Place(v)' = Place(v)
  BY WorkerActor, StillPlace DEF GoesTo
<1> QED BY Zenon, <1>1 DEF PoolOK, WorkerOK

\* Steps that change only what the scheduler and ~simple_thread_pool look at.
LEMMA QuietTypes ==
  ASSUME Types, UNCHANGED <<tasks, numTasks, busy, finished, cmdVars, control, call>>,
         PoolTypes', EventTypes', CallTypes'
  PROVE  Types' /\ Grows /\ \A b \in Actors : Still(b)
<1>   /\ Control /\ PoolOK /\ CallsApart /\ \A t \in Threads : CallOK(t)
  BY TypesParts DEF Types
<1>   Grows
  BY QuietGrows
<1>   Control' /\ \A b \in Actors : Still(b)
  BY Zenon DEF Control, ActorOK, Still, control
<1>   CallsApart' /\ Enqueued' = Enqueued /\ released' = released
  BY DEF CallsApart, KeepsApart, Enqueued, cmdVars
<1>5. PoolOK'
  BY Zenon, PoolKeep, WorkerActor
<1>6. Types'
  <2> DEFINE T == {}
  <2>1. /\ \A u \in Threads \ T : Still(u) /\ call'[u] = call[u]
        /\ \A u \in Threads \ T : call[u].op = "finish" /\ Place(u) = "unref"
                                    => call[u].part \notin released'
        /\ \A u \in Threads \cap T : CallOK(u)'
    BY Zenon, ThreadActor DEF CallOK
  <2> HIDE DEF T
  <2> QED BY Zenon, <1>5, <2>1, StepTypes
<1> QED BY <1>6

\* What is known of a thread that does not wait.
LEMMA ThreadAt ==
  ASSUME Types, NEW t \in Threads, pc[t] \notin Waiting
  PROVE  /\ t \in Actors /\ Control /\ todo[t] = <<>> /\ Place(t) = pc[t]
         /\ CallOK(t) /\ call[t] \in CallType
         /\ call[t].op \in AllOps \cup {"none"} /\ call[t].part \in Nat
<1>   Control /\ CallOK(t) /\ call[t] \in CallType /\ t \in Actors
  BY TypesParts, ThreadActor DEF Types, CallTypes
<1>2. call[t].op \in AllOps \cup {"none"} /\ call[t].part \in Nat
  BY DEF CallType
<1> QED BY <1>2, NotWaiting

LEMMA EnqueuedIds == ASSUME Types PROVE Enqueued \subseteq Ids /\ Known \subseteq Enqueued
BY BoundAssumption DEF Enqueued, Ids, Types, TypeOK, Known, Returned

LEMMA IdleThread ==
  ASSUME Types, NEW t \in Threads, pc[t] = "idle"
  PROVE  /\ t \in Actors /\ Control /\ pc[t] \notin Waiting
         /\ Place(t) = "idle" /\ todo[t] = <<>> /\ call[t].op = "none"
         /\ call[t].id = 0 /\ call[t].q = None
<1>   /\ t \in Actors /\ Control /\ Place(t) = "idle" /\ todo[t] = <<>> /\ CallOK(t)
      /\ call[t].op \in AllOps \cup {"none"}
  BY ThreadAt DEF Waiting
<1>2. call[t].op = "none"
  BY PlaceOp
<1> QED BY <1>2 DEF CallOK, Waiting, Enqueues

-----------------------------------------------------------------------------
\* A task is in one place until it has run

WorkersOnce ==
  \A w \in Workers :
    /\ Distinct(tasks[w])
    /\ InSeq(tasks[w]) \cap finished = {}
    /\ Place(w) = "body" => busy[w] \notin finished
    /\ \A v \in Workers :
         /\ busy[v] \notin InSeq(tasks[w])
         /\ v # w => InSeq(tasks[v]) \cap InSeq(tasks[w]) = {}
         /\ v # w /\ busy[w] # NoTask => busy[v] # busy[w]

ThreadOnce(t) ==
  call[t].op \in {"kernel", "copy"} =>
    /\ Place(t) = "create" => Below(call[t].id, 1)
    /\ Place(t) = "bestWorker" => Below(call[t].id, call[t].part)

LEMMA OnceParts == TasksOnce <=> WorkersOnce /\ \A t \in Threads : ThreadOnce(t)
BY DEF TasksOnce, WorkersOnce, ThreadOnce

LEMMA OncePartsNext == (WorkersOnce /\ \A t \in Threads : ThreadOnce(t))' => TasksOnce'
BY OnceParts, PTL

\* Steps that leave the tasks where they are.
LEMMA OnceKeep ==
  ASSUME TasksOnce, UNCHANGED <<tasks, busy, finished>>,
         \A w \in Workers : Place(w)' = "body" => Place(w) = "body",
         \A u \in Threads : \/ call'[u] = call[u] /\ Place(u)' = Place(u)
                            \/ ThreadOnce(u)'
  PROVE  TasksOnce'
<1>1. WorkersOnce'
  BY Zenon, OnceParts DEF WorkersOnce
<1>2. ASSUME NEW u \in Threads, call'[u] = call[u], Place(u)' = Place(u)
      PROVE  ThreadOnce(u)'
  BY Zenon, <1>2, OnceParts DEF ThreadOnce, Below
<1> QED BY Zenon, <1>1, <1>2, OncePartsNext

\* A step of a thread that schedules nothing.
LEMMA ThreadKeepsOnce ==
  ASSUME TasksOnce, NEW t \in Threads, NEW label, NEW s, GoesTo(t, label, s),
         UNCHANGED poolVars, \A u \in Threads \ {t} : call'[u] = call[u],
         label \notin {"create", "bestWorker"} \/ ThreadOnce(t)'
  PROVE  TasksOnce'
<1>1. \A w \in Workers : Place(w)' = Place(w)
  BY Zenon, ThreadActor, StillPlace DEF GoesTo
<1>2. \A u \in Threads \ {t} : call'[u] = call[u] /\ Place(u)' = Place(u)
  BY Zenon, ThreadActor, StillPlace DEF GoesTo
<1>3. ThreadOnce(t)'
  <2>1. Place(t)' = label
    BY DEF GoesTo
  <2> QED BY Zenon, <2>1 DEF ThreadOnce
<1> QED BY Zenon, <1>1, <1>2, <1>3, OnceKeep DEF poolVars

\* Steps of the workers bring no new task.
LEMMA WorkerKeepsOnce ==
  ASSUME Types, TasksOnce, NEW w \in Workers, NEW label, NEW s, GoesTo(w, label, s), call' = call,
         WorkersOnce', finished' \subseteq finished \cup {busy[w]},
         \A v \in Workers : InSeq(tasks'[v]) \subseteq InSeq(tasks[v]),
         \A v \in Workers : busy'[v] \in {busy[v], NoTask} \cup InSeq(tasks[v])
  PROVE  TasksOnce'
<1>1. ASSUME NEW i \in Enqueued, NEW n, Below(i, n) PROVE Below(i, n)'
  <2>1. NoTask[1] # i
    BY DEF NoTask, Enqueued
  <2>2. \A r \in finished' : r[1] = i => r[2] < n
    BY Zenon, <1>1 DEF Below
  <2>3. \A v \in Workers : \A r \in InSeq(tasks'[v]) : r[1] = i => r[2] < n
    BY Zenon, <1>1 DEF Below
  <2>4. ASSUME NEW v \in Workers, busy'[v][1] = i PROVE busy'[v][2] < n
    <3>1. busy'[v] \in {busy[v]} \cup InSeq(tasks[v])
      BY Zenon, <2>1, <2>4
    <3> QED BY Zenon, <1>1, <2>4, <3>1 DEF Below
  <2> QED BY Zenon, <2>2, <2>3, <2>4 DEF Below
<1>2. ASSUME NEW u \in Threads PROVE ThreadOnce(u)'
  <2>1. Place(u)' = Place(u) /\ ThreadOnce(u)
    BY Zenon, WorkerActor, StillPlace, OnceParts DEF GoesTo
  <2>2. ASSUME call[u].op \in {"kernel", "copy"} PROVE call[u].id \in Enqueued
    BY <2>2 DEF Types, CallOK, Enqueues
  <2> QED BY Zenon, <1>1, <2>1, <2>2 DEF ThreadOnce
<1> QED BY Zenon, <1>2, OncePartsNext

-----------------------------------------------------------------------------
\* What steps keep

\* Calls about the commands there are only go on.

Onward ==
  \A t \in Threads : call'[t].id \in Enqueued =>
    /\ call'[t].id = call[t].id
    /\ Place(t) = "return" => Place(t)' = "return"
    /\ Place(t)' = "create" => Place(t) = "create"

\* An event that is done stays so.
DoneKept == \A e \in Enqueued : Made(e) /\ event[e].done => event'[e].done

Keeps == Grows /\ Onward /\ DoneKept

LEMMA Monotone ==
  ASSUME Grows, Onward, NEW i \in Enqueued
  PROVE  /\ Free(i) => Free(i)'
         /\ Past(i) => Past(i)'
         /\ Made(i) => Made(i)'
         /\ Complete(i) => Complete(i)'
<1>1. Free(i) => Free(i)'
  BY Zenon DEF Onward, Free
<1>2. Past(i) => Past(i)'
  BY Zenon DEF Onward, Past
<1>3. Made(i) => Made(i)'
  BY Zenon DEF Onward, Made, Grows, Same
<1>4. Complete(i) => Complete(i)'
  BY Zenon, GrowsTasks
<1> QED BY <1>1, <1>2, <1>3, <1>4

LEMMA FreePast == ASSUME NEW i, Free(i) PROVE Past(i)
BY DEF Free, Past

LEMMA FreeMade == ASSUME NEW i \in Enqueued, Free(i), cmd[i].event PROVE Made(i)
BY Zenon DEF Free, Made

\* The event of a command the calls of which have ended, or that is complete.
LEMMA ReadyComplete ==
  ASSUME NEW i, Ready(i), cmd[i].op # "sync" => event[i].tasksinfo \subseteq finished
  PROVE  Complete(i)
BY Zenon DEF Ready, Complete

\* The step does nothing to the event e that EventOK tells.
Untouched(e) ==
  /\ event'[e].refs = event[e].refs /\ event'[e].alive = event[e].alive
  /\ event'[e].done = event[e].done /\ event'[e].tasksinfo = event[e].tasksinfo
  /\ \A q \in Queues : e \in events'[q] <=> e \in events[q]
  /\ Made(e)' => Made(e)
  /\ Past(e)' => Past(e) \/ Ready(e)'
  /\ e \in released' => e \in released
  /\ \A t \in Threads : (Retains(t, e)' <=> Retains(t, e)) /\ (Deletes(t, e)' <=> Deletes(t, e))

\* The actor does nothing in the step.
Rests(b) == /\ Still(b)
            /\ b \in Threads => call'[b] = call[b]
            /\ b \in Workers => busy'[b] = busy[b]

\* The calls of urQueueFinish apart, that waits are truthful follows from the rest.
FinishTruthful(t) ==
  pc[t] = "return" /\ call[t].op = "finish" => \A i \in call[t].before : Complete(i)

Rest == /\ \A i \in Enqueued : EventOK(i) /\ NeedsOK(i)
        /\ \A q \in Queues : events[q] \subseteq Enqueued
        /\ \A a \in Actors : GoalOK(a)
        /\ NeedsMet
        /\ \A t \in Threads : FinishTruthful(t)

\* A call that enqueues nothing has no command, and no command is 0.
LEMMA NoId ==
  ASSUME NEW t, CallOK(t), call[t].op \in {"none", "wait", "finish", "release"}
  PROVE  call[t].id = 0 /\ \A j \in Enqueued : j # 0
<1>1. call[t].op \notin Enqueues
  BY DEF Enqueues
<1>2. call[t].id = 0
  BY Zenon, <1>1 DEF CallOK
<1>3. \A j \in Enqueued : j # 0
  BY DEF Enqueued
<1> QED BY Zenon, <1>2, <1>3

LEMMA ReturnedFree == ASSUME Types, NEW i \in Returned PROVE i \in Enqueued /\ Free(i)
<1>   i \in Enqueued /\ ~InCall(i) /\ i # 0
  BY DEF Returned, Enqueued
<1>2. ASSUME NEW t \in Threads, call[t].id = i PROVE FALSE
  <2>1. pc[t] = "idle"
    BY <1>2 DEF InCall
  <2> QED BY <1>2, <2>1, IdleThread
<1> QED BY <1>2 DEF Free

LEMMA KnownFree ==
  ASSUME Types, NEW e \in Known
  PROVE  /\ e \in Enqueued /\ Free(e) /\ Past(e) /\ Made(e) /\ cmd[e].event
         /\ e \notin released
<1>1. e \in Enqueued /\ Free(e) /\ cmd[e].event /\ e \notin released
  BY ReturnedFree DEF Known
<1> QED BY <1>1, FreePast, FreeMade

LEMMA IInvParts == IInv <=> Types /\ TasksOnce /\ Rest
<1>RestTruthful. Types /\ Rest => WaitsTruthful
  <2> SUFFICES ASSUME Types, Rest PROVE WaitsTruthful
    OBVIOUS
  <2>1. \A e \in Known : event[e].done => Complete(e)
    BY Zenon, KnownFree DEF Rest, EventOK
  <2>2. ASSUME NEW t \in Threads, pc[t] = "return", NEW i \in call[t].before
        PROVE  Complete(i)
    <3>1. /\ Place(t) = "return" /\ todo[t] = <<>> /\ CallOK(t) /\ t \in Actors
      BY <2>2, ThreadAt DEF Waiting
    <3>2. CASE call[t].op = "finish"
      BY Zenon, <2>2, <3>2 DEF Rest, FinishTruthful
    <3>3. CASE call[t].op = "wait"
      <4>1. Goal(t) = call[t].before
        BY <3>3, ThreadActor DEF Goal
      <4>2. Waits(t)
        BY <3>1, <3>3 DEF Waits
      <4>3. Made(i) /\ event[i].done
        BY Zenon, <2>2, <3>1, <4>1, <4>2, InSeqEmpty DEF Rest, GoalOK
      <4> QED BY Zenon, <4>3 DEF Rest, EventOK, Made
    <3>4. CASE call[t].op \notin {"wait", "finish"}
      BY <2>2, <3>1, <3>4 DEF CallOK
    <3> QED BY <3>2, <3>3, <3>4
  <2> QED BY <2>1, <2>2 DEF WaitsTruthful
<1>1. WaitsTruthful => \A t \in Threads : FinishTruthful(t)
  BY DEF WaitsTruthful, FinishTruthful
<1> QED BY Zenon, <1>1, <1>RestTruthful DEF IInv, Rest

LEMMA InitIInv == Init => IInv
<1> SUFFICES ASSUME Init PROVE IInv
  OBVIOUS
<1>1. commands = 0 /\ Enqueued = {} /\ hostRan = {} /\ released = {} /\ finished = {}
  BY DEF Init, Enqueued
<1>2. /\ \A a \in Actors : /\ pc[a] = "idle" /\ todo[a] = <<>> /\ Place(a) = "idle"
      /\ \A t \in Threads : call[t] = NoCall /\ Place(t) = "idle"
      /\ \A w \in Workers : Place(w) = "idle" /\ busy[w] = NoTask
                         /\ tasks[w] = <<>> /\ numTasks[w] = 0
  BY ThreadActor, WorkerActor DEF Init, Place, Waiting
<1>3. TypeOK
  <2>1. /\ tasks \in [Workers -> Seq(Tasks)] /\ numTasks \in [Workers -> Nat]
        /\ isRunning \in [Workers -> BOOLEAN]
        /\ busy \in [Workers -> Tasks \cup {NoTask}] /\ finished \subseteq Tasks
        /\ stopping \in 0 .. NumThreads
    BY PoolAssumption DEF Init
  <2>2. /\ events \in [Queues -> SUBSET Ids]
        /\ localArgs \in [Kernels -> Nat]
        /\ commands \in 0 .. MaxCommands
        /\ hostRan \subseteq Ids /\ released \subseteq Ids
    BY BoundAssumption DEF Init
  <2>3. event \in [Ids -> [refs : Nat, alive : BOOLEAN, done : BOOLEAN,
                        mutex : Actors \cup {None}, tasksinfo : SUBSET Tasks,
                        callback : BOOLEAN]]
    BY DEF Init, NoEvent
  <2>4. /\ pc \in [Actors -> Labels] /\ then \in [Actors -> Labels]
        /\ todo \in [Actors -> Seq(Ids)]
    BY DEF Init, Labels
  <2> QED BY <2>1, <2>2, <2>3, <2>4 DEF TypeOK
<1>4. cmd \in [Ids -> Command]
  <2>1. NoCommand \in Command
    <3>1. <<1, 1, 1>> \in Nat \X Nat \X Nat /\ <<>> \in Seq(Ids)
      OBVIOUS
    <3>2. 0 \in Nat
      OBVIOUS
    <3> QED BY Zenon, <3>1, <3>2 DEF NoCommand, Command
  <2> QED BY <2>1 DEF Init
<1>5. /\ call \in [Threads -> [op : AllOps \cup {"none"}, q : Queues \cup {None},
                           id : Nat, part : Nat, before : SUBSET Ids]]
      /\ scan \in [Threads -> [best : Workers, next : Nat \ {0}]]
  BY PoolAssumption DEF Init, NoCall, NoScan, Workers
<1>6. \A t \in Threads : CallOK(t)
  BY <1>2 DEF CallOK, NoCall, Places, Enqueues
<1>7. CallsApart
  BY <1>2 DEF CallsApart, KeepsApart, NoCall
<1>8. \A a \in Actors : ActorOK(a)
  BY <1>2 DEF ActorOK, Waiting
<1>9. (\A w \in Workers : WorkerOK(w)) /\ TasksOK
  <2>1. \A w \in Workers : InSeq(tasks[w]) = {}
    BY Zenon, <1>2, InSeqEmpty
  <2>2. Len(<<>>) = 0
    OBVIOUS
  <2>3. ASSUME NEW w \in Workers PROVE WorkerOK(w)
    <3>1. numTasks[w] = Len(tasks[w]) + (IF busy[w] = NoTask THEN 0 ELSE 1)
      <4>   numTasks[w] = 0 /\ tasks[w] = <<>> /\ busy[w] = NoTask
        BY Zenon, <1>2, <2>3
      <4>2. Len(tasks[w]) = 0
        BY Zenon, <2>2
      <4>3. 0 = 0 + (IF busy[w] = NoTask THEN 0 ELSE 1)
        OBVIOUS
      <4> QED BY Zenon, <4>2, <4>3
    <3>2. Place(w) = "idle" /\ busy[w] = NoTask
      BY <1>2, <2>3
    <3> QED BY <3>1, <3>2 DEF WorkerOK
  <2>4. TasksOK
    BY Zenon, <1>1, <1>2, <2>1 DEF TasksOK
  <2> QED BY <2>3, <2>4
<1>10. Types
  BY Zenon, <1>1, <1>3, <1>4, <1>5, <1>6, <1>7, <1>8, <1>9 DEF Types
<1>11. TasksOnce
  <2>1. \A w \in Workers : InSeq(tasks[w]) = {} /\ Distinct(tasks[w])
    BY <1>2, InSeqEmpty DEF Distinct
  <2> QED BY Zenon, <1>1, <1>2, <2>1 DEF TasksOnce, NoCall
<1>12. \A a \in Actors : GoalOK(a)
  <2>1. SUFFICES ASSUME NEW a \in Actors PROVE GoalOK(a)
    OBVIOUS
  <2>2. ~Waits(a) /\ InSeq(todo[a]) = {} /\ todo[a] = <<>> /\ pc[a] # "callback"
    BY <1>2, InSeqEmpty DEF Waits
  <2> QED BY Zenon, <2>2 DEF GoalOK
<1>13. NeedsMet /\ (\A q \in Queues : events[q] \subseteq Enqueued)
       /\ (\A t \in Threads : FinishTruthful(t))
  BY <1>1, <1>2, ThreadActor DEF NeedsMet, Init, FinishTruthful
<1>14. Rest
  BY Zenon, <1>1, <1>12, <1>13 DEF Rest
<1> QED BY <1>10, <1>11, <1>14, IInvParts

\* An event is deleted only when its command has run and nobody waits for it.
LEMMA IInvOutlive == IInv => EventsOutliveUse
<1> SUFFICES ASSUME IInv PROVE EventsOutliveUse
  OBVIOUS
<1>1. Types /\ Rest
  BY IInvParts
<1>2. ASSUME NEW i \in Returned, cmd[i].op # "sync", ~event[i].alive PROVE Complete(i)
  <2>   i \in Enqueued /\ Free(i)
    BY <1>1, <1>2, ReturnedFree
  <2>   EventOK(i) /\ cmd[i].event
    BY Zenon, <1>1, <1>2 DEF Rest, Types, CommandOK
  <2>3. Made(i)
    BY FreeMade
  <2> QED BY Zenon, <1>2, <2>3 DEF EventOK
<1>3. ASSUME NEW a \in Actors, NEW e \in InSeq(todo[a]) PROVE event[e].alive
  <2>1. GoalOK(a) /\ todo[a] # <<>>
    BY Zenon, <1>1, <1>3, InSeqEmpty DEF Rest
  <2>   Made(e) /\ (e \in released => a \in Threads /\ Deletes(a, e))
    BY Zenon, <1>3, <2>1 DEF GoalOK
  <2>3. EventOK(e)
    BY Zenon, <1>1 DEF Rest, Made
  <2> QED BY Zenon, <2>3 DEF EventOK
<1>4. \A a \in Actors : \A n \in 1 .. Len(todo[a]) : event[todo[a][n]].alive
  BY Zenon, <1>3 DEF InSeq
<1> QED BY Zenon, <1>2, <1>4 DEF EventsOutliveUse

\* A step in which only the actors of A act, and what they do.
ActorsStep(A) ==
  /\ Keeps
  /\ \A b \in Actors \ A : Rests(b) /\ InSeq(todo[b]) \cap (released' \ released) = {}
  /\ \A b \in Actors \cap A : GoalOK(b)'
  /\ \A t \in Threads \cap A : FinishTruthful(t)'
  /\ \A e \in Enqueued : Untouched(e) \/ EventOK(e)'
  /\ \A i \in Enqueued : \A e \in InSeq(cmd[i].list) :
       e \in released' \ released => Complete(i) /\ Free(i)
  /\ \A i \in Enqueued : cmd[i].q \in InOrderQueues /\ Free(i)' /\ ~Free(i) => Complete(i)
  /\ \A i \in Enqueued' \ Enqueued : EventOK(i)' /\ NeedsOK(i)'
  /\ \A q \in Queues : events'[q] \subseteq Enqueued'
  /\ \A s \in finished' \ finished : s[1] \in Enqueued /\ \A j \in cmd[s[1]].needs : Complete(j)
  /\ \A i \in hostRan' \ hostRan : i \in Enqueued /\ \A j \in cmd[i].needs : Complete(j)

LEMMA StepIInv ==
  ASSUME IInv, Types', TasksOnce', NEW A, ActorsStep(A)
  PROVE  IInv'
<1> Types /\ TasksOnce /\ Rest
  BY IInvParts
<1>NeedsKeep. ASSUME Keeps, NEW i \in Enqueued, NeedsOK(i),
             \A e \in InSeq(cmd[i].list) : e \in released' \ released => Complete(i) /\ Free(i),
             cmd[i].q \in InOrderQueues /\ Free(i)' /\ ~Free(i) => Complete(i)
      PROVE  NeedsOK(i)'
  <2> /\ Keeps
      /\ i \in Enqueued
      /\ NeedsOK(i)
      /\ (\A e \in InSeq(cmd[i].list) : e \in released' \ released => Complete(i) /\ Free(i))
      /\ (cmd[i].q \in InOrderQueues /\ Free(i)' /\ ~Free(i) => Complete(i))
    BY <1>NeedsKeep
  <2>1. CommandOK(i) /\ Same(i) /\ Grows /\ Onward
    BY DEF Types, Keeps, Grows
  <2>2. InSeq(cmd[i].list) \subseteq Enqueued /\ cmd[i].needs \subseteq Enqueued
    BY Zenon, <2>1 DEF CommandOK
  <2>3. /\ cmd'[i].list = cmd[i].list /\ cmd'[i].needs = cmd[i].needs
        /\ cmd'[i].q = cmd[i].q
    BY <2>1 DEF Same
  <2>4. \A e \in InSeq(cmd[i].list) : Free(e)' /\ (e \in released' => Complete(i)' /\ Free(i)')
    BY Zenon, <2>1, <2>2, Monotone DEF NeedsOK
  <2>5. \A j \in cmd[i].needs : Complete(j)' \/ j \in InSeq(cmd[i].list)
    BY Zenon, <2>1, <2>2, Monotone DEF NeedsOK
  <2>6. cmd[i].q \in InOrderQueues /\ Free(i)' => Complete(i)'
    BY Zenon, <2>1, Monotone DEF NeedsOK
  <2> QED BY Zenon, <2>3, <2>4, <2>5, <2>6 DEF NeedsOK
\* What runs in the step has its needs met.
<1>NeedsMetKeep. ASSUME Keeps, NeedsMet,
             \A s \in finished' \ finished :
               s[1] \in Enqueued /\ \A j \in cmd[s[1]].needs : Complete(j),
             \A i \in hostRan' \ hostRan : i \in Enqueued /\ \A j \in cmd[i].needs : Complete(j)
      PROVE  NeedsMet'
  <2> /\ Keeps
      /\ NeedsMet
      /\ (\A s \in finished' \ finished :
            s[1] \in Enqueued /\ \A j \in cmd[s[1]].needs : Complete(j))
      /\ (\A i \in hostRan' \ hostRan : i \in Enqueued /\ \A j \in cmd[i].needs : Complete(j))
    BY Zenon, <1>NeedsMetKeep
  <2>1. /\ \A i \in Enqueued : CommandOK(i) /\ Same(i)
        /\ Grows /\ Onward /\ TasksOK /\ hostRan \subseteq Enqueued
    BY DEF Types, Keeps, Grows
  <2>2. ASSUME NEW i \in Enqueued, \A j \in cmd[i].needs : Complete(j)
        PROVE  \A j \in cmd'[i].needs : Complete(j)'
    <3>1. cmd'[i].needs = cmd[i].needs /\ cmd[i].needs \subseteq Enqueued
      BY Zenon, <2>1 DEF CommandOK, Same
    <3> QED BY Zenon, <2>1, <2>2, <3>1, Monotone
  <2>3. \A s \in finished' : s[1] \in Enqueued /\ \A j \in cmd[s[1]].needs : Complete(j)
    BY Zenon, <2>1 DEF NeedsMet, TasksOK, TaskOK
  <2>4. \A i \in hostRan' : i \in Enqueued /\ \A j \in cmd[i].needs : Complete(j)
    BY Zenon, <2>1 DEF NeedsMet
  <2> QED BY Zenon, <2>2, <2>3, <2>4 DEF NeedsMet
<1>EventKeep. ASSUME Keeps, NEW e \in Enqueued, EventOK(e), Untouched(e)
      PROVE  EventOK(e)'
  <2> /\ Keeps
      /\ e \in Enqueued
      /\ EventOK(e)
      /\ Untouched(e)
    BY <1>EventKeep
  <2>1. Same(e) /\ Grows /\ Onward
    BY Zenon DEF Keeps, Grows
  <2>2. /\ cmd'[e].op = cmd[e].op /\ cmd'[e].q = cmd[e].q /\ cmd'[e].event = cmd[e].event
        /\ TasksOf(e)' = TasksOf(e) /\ hostRan \subseteq hostRan'
    BY <2>1, GrowsTasks DEF Same, Grows
  <2>3. Made(e)' <=> Made(e)
    BY ZenonT(40), <2>1, Monotone DEF Untouched
  <2>4. e \in released' <=> e \in released
    BY Zenon, <2>1 DEF Untouched, Grows
  <2>5. Past(e)' => Ready(e)'
    <3>1. Ready(e) => Ready(e)'
      BY Zenon, <2>2 DEF Ready, Untouched
    <3> QED BY Zenon, <3>1 DEF Untouched, EventOK
  <2>6. \A q \in Queues : e \in events'[q] <=> Made(e)' /\ cmd'[e].q = q /\ ~event'[e].done
    BY Zenon, <2>2, <2>3 DEF Untouched, EventOK
  <2>7. (\E t \in Threads : Retains(t, e)') <=> (\E t \in Threads : Retains(t, e))
    BY Zenon DEF Untouched
  <2>8. Made(e)' => /\ event'[e].done => Complete(e)'
                    /\ ~event'[e].alive => event'[e].done
                    /\ e \notin released' =>
                         /\ event'[e].alive
                         /\ event'[e].refs = IF \E t \in Threads : Retains(t, e)' THEN 2 ELSE 1
    BY Zenon, <2>1, <2>3, <2>4, <2>7, Monotone DEF Untouched, EventOK
  <2>9. e \in released' => /\ cmd'[e].event /\ Free(e)'
                           /\ ~event'[e].done => \E t \in Threads : Deletes(t, e)'
    BY Zenon, <2>1, <2>2, <2>4, Monotone DEF Untouched, EventOK
  <2>10. \A t \in Threads : Deletes(t, e)' => event'[e].alive
    BY ZenonT(40) DEF Untouched, EventOK
  <2> QED BY Zenon, <2>5, <2>6, <2>8, <2>9, <2>10 DEF EventOK
<1>RestsGoal. ASSUME Grows, NEW b \in Actors, Rests(b)
      PROVE  /\ Goal(b)' = Goal(b) /\ (Waits(b)' <=> Waits(b)) /\ Place(b)' = Place(b)
             /\ todo'[b] = todo[b] /\ pc'[b] = pc[b]
             /\ b \in Threads => \A e : (Retains(b, e)' <=> Retains(b, e))
                                        /\ (Deletes(b, e)' <=> Deletes(b, e))
  <2> /\ Grows
      /\ b \in Actors
      /\ Rests(b)
    BY Zenon, <1>RestsGoal
  <2>1. Place(b)' = Place(b) /\ todo'[b] = todo[b] /\ pc'[b] = pc[b]
    BY StillPlace DEF Rests, Still
  <2>2. CASE b \in Workers
    <3>1. b \notin Threads /\ busy'[b] = busy[b]
      BY <2>2, WorkerActor DEF Rests
    <3>2. Goal(b)' = Goal(b)
      <4>1. busy[b] # NoTask => cmd'[busy[b][1]].list = cmd[busy[b][1]].list
        BY Zenon, <2>2 DEF Types, TasksOK, TaskOK, Grows, Same
      <4> QED BY Zenon, <2>2, <3>1, <4>1 DEF Goal
    <3>3. Waits(b)' <=> Waits(b)
      BY Zenon, <2>1, <3>1 DEF Waits
    <3> QED BY Zenon, <2>1, <3>1, <3>2, <3>3
  <2>3. CASE b \in Threads
    <3>1. b \notin Workers /\ call'[b] = call[b]
      BY <2>3, ThreadActor DEF Rests
    <3>2. Goal(b)' = Goal(b)
      <4>1. call[b].op = "sync" => cmd'[call[b].id].list = cmd[call[b].id].list
        BY Zenon, <2>3 DEF Types, CallOK, Enqueues, Grows, Same
      <4> QED BY Zenon, <3>1, <4>1 DEF Goal
    <3>3. Waits(b)' <=> Waits(b)
      BY Zenon, <2>1, <3>1 DEF Waits
    <3>4. \A e : (Retains(b, e)' <=> Retains(b, e)) /\ (Deletes(b, e)' <=> Deletes(b, e))
      BY Zenon, <2>1, <3>1 DEF Retains, Deletes
    <3> QED BY Zenon, <2>1, <3>2, <3>3, <3>4
  <2> QED BY Zenon, <2>2, <2>3 DEF Actors
<1>GoalKeep. ASSUME Keeps, NEW b \in Actors, GoalOK(b), Rests(b),
             InSeq(todo[b]) \cap (released' \ released) = {}
      PROVE  GoalOK(b)'
  <2> /\ Keeps
      /\ b \in Actors
      /\ GoalOK(b)
      /\ Rests(b)
      /\ InSeq(todo[b]) \cap (released' \ released) = {}
    BY <1>GoalKeep
  <2>1. /\ Goal(b)' = Goal(b) /\ (Waits(b)' <=> Waits(b)) /\ Place(b)' = Place(b)
        /\ todo'[b] = todo[b] /\ pc'[b] = pc[b]
        /\ b \in Threads => \A e : Deletes(b, e)' <=> Deletes(b, e)
    BY Zenon, <1>RestsGoal DEF Keeps
  <2>2. Waits(b) => \A e \in Goal(b) :
          Made(e)' /\ Past(e)' /\ (event'[e].done \/ e \in InSeq(todo[b]))
    <3>1. \A e : Made(e) => e \in Enqueued
      BY DEF Made
    <3> QED BY Zenon, <3>1, Monotone DEF GoalOK, Keeps, DoneKept
  <2>3. pc[b] = "callback" => event'[Head(todo[b])].done
    <3>1. SUFFICES ASSUME pc[b] = "callback" PROVE event'[Head(todo[b])].done
      OBVIOUS
    <3>2. todo[b] \in Seq(Ids) /\ todo[b] # <<>>
      BY <3>1 DEF Types, TypeOK, ActorOK, Waiting
    <3>3. Head(todo[b]) \in InSeq(todo[b])
      BY <3>2, InSeqTail
    <3>4. Made(Head(todo[b])) /\ event[Head(todo[b])].done
      BY Zenon, <3>1, <3>2, <3>3 DEF GoalOK
    <3> QED BY Zenon, <3>4 DEF Keeps, DoneKept, Made
  <2>4. \A e \in InSeq(todo[b]) : e \in released' => b \in Threads /\ Deletes(b, e)'
    BY Zenon, <2>1 DEF GoalOK
  <2> QED BY Zenon, <2>1, <2>2, <2>3, <2>4 DEF GoalOK
<1>IInvPartsNext. (Types /\ TasksOnce /\ Rest)' => IInv'
  BY IInvParts, PTL
<1> USE DEF ActorsStep
<1>2. \A i \in Enqueued' : EventOK(i)'
  BY Zenon, <1>EventKeep DEF Rest
<1>3. \A i \in Enqueued' : NeedsOK(i)'
  BY Zenon, <1>NeedsKeep DEF Rest
<1>4. \A a \in Actors : GoalOK(a)'
  BY Zenon, <1>GoalKeep DEF Rest
<1>5. NeedsMet'
  BY Zenon, <1>NeedsMetKeep DEF Rest
<1>6. ASSUME NEW t \in Threads \ A PROVE FinishTruthful(t)'
  <2>1. pc'[t] = pc[t] /\ call'[t] = call[t] /\ FinishTruthful(t) /\ CallOK(t)
    BY ZenonT(40), ThreadActor DEF Rests, Still, Rest, Types
  <2>2. \A i \in call[t].before : i \in Enqueued
    BY Zenon, <2>1 DEF CallOK
  <2> QED BY ZenonT(40), <2>1, <2>2, Monotone DEF FinishTruthful, Keeps
<1>7. \A t \in Threads : FinishTruthful(t)'
  BY Zenon, <1>6
<1>8. Rest'
  BY ZenonT(40), <1>2, <1>3, <1>4, <1>5, <1>7 DEF Rest
<1> QED BY Zenon, <1>8, <1>IInvPartsNext

-----------------------------------------------------------------------------
\* Steps in which no call goes on

LEMMA CallsKeep ==
  ASSUME Grows, Enqueued' = Enqueued, NEW e \in Enqueued,
         \A t \in Threads : call'[t] = call[t] /\ Place(t)' = Place(t)
  PROVE  /\ Made(e)' <=> Made(e)
         /\ Past(e)' <=> Past(e)
         /\ Free(e)' <=> Free(e)
         /\ \A t \in Threads : (Retains(t, e)' <=> Retains(t, e))
                               /\ (Deletes(t, e)' <=> Deletes(t, e))
<1>1. Made(e)' <=> Made(e)
  BY Zenon DEF Made, Grows, Same
<1>2. (Past(e)' <=> Past(e)) /\ (Free(e)' <=> Free(e))
  BY Zenon DEF Past, Free
<1>3. \A t \in Threads : (Retains(t, e)' <=> Retains(t, e)) /\ (Deletes(t, e)' <=> Deletes(t, e))
  BY Zenon DEF Retains, Deletes
<1> QED BY <1>1, <1>2, <1>3

\* A step in which no call goes on: the actors of A act, the events of E change.
Quiet(A, E) ==
  /\ Enqueued' = Enqueued /\ released' = released /\ hostRan' = hostRan
  /\ \A t \in Threads : call'[t] = call[t] /\ Place(t)' = Place(t)
  /\ \A b \in Actors \ A : Still(b) /\ (b \in Workers => busy'[b] = busy[b])
  /\ \A b \in Actors \cap A : GoalOK(b)'
  /\ \A t \in Threads \cap A : FinishTruthful(t)'
  /\ \A e \in E \cap Enqueued : EventOK(e)' /\ (event[e].done => event'[e].done)
  /\ \A e \in Enqueued \ E :
       /\ event'[e].refs = event[e].refs /\ event'[e].alive = event[e].alive
       /\ event'[e].done = event[e].done /\ event'[e].tasksinfo = event[e].tasksinfo
       /\ \A q \in Queues : e \in events'[q] <=> e \in events[q]
  /\ \A q \in Queues : events'[q] \subseteq events[q]
  /\ \A s \in finished' \ finished : s[1] \in Enqueued /\ \A j \in cmd[s[1]].needs : Complete(j)

\* A step of the actor a in which no call goes on and the events of E change.
LEMMA QuietIInv ==
  ASSUME IInv, Types', TasksOnce', Grows, NEW A, NEW E, Quiet(A, E)
  PROVE  IInv'
<1> USE DEF Quiet
<1>1. Rest
  BY IInvParts
<1>2. Onward
  BY Zenon DEF Onward
<1>3. DoneKept
  BY Zenon DEF DoneKept
<1>4. Keeps
  BY <1>2, <1>3 DEF Keeps
<1>5. \A b \in Actors \ A : Rests(b)
  BY Zenon DEF Rests
<1>6. \A e \in Enqueued : Untouched(e) \/ EventOK(e)'
  BY Zenon, CallsKeep DEF Untouched
<1>7. /\ \A b \in Actors \ A : InSeq(todo[b]) \cap (released' \ released) = {}
      /\ \A i \in Enqueued : \A e \in InSeq(cmd[i].list) :
            e \in released' \ released => Complete(i) /\ Free(i)
      /\ \A i \in hostRan' \ hostRan : i \in Enqueued /\ \A j \in cmd[i].needs : Complete(j)
      /\ \A i \in Enqueued' \ Enqueued : EventOK(i)' /\ NeedsOK(i)'
  OBVIOUS
<1>8. \A i \in Enqueued : cmd[i].q \in InOrderQueues /\ Free(i)' /\ ~Free(i) => Complete(i)
  BY Zenon, CallsKeep
<1>9. \A q \in Queues : events'[q] \subseteq Enqueued'
  BY Zenon, <1>1 DEF Rest
<1>10. ActorsStep(A)
  BY Zenon, <1>4, <1>5, <1>6, <1>7, <1>8, <1>9 DEF ActorsStep
<1> HIDE DEF Quiet
<1> QED BY Zenon, <1>10, StepIInv

\* A step of a worker.
LEMMA WorkerIInv ==
  ASSUME IInv, Types', TasksOnce', Grows, NEW w \in Workers, NEW label, NEW s, GoesTo(w, label, s),
         UNCHANGED <<eventVars, cmdVars, call>>,
         \A v \in Workers \ {w} : busy'[v] = busy[v],
         GoalOK(w)',
         \A r \in finished' \ finished : r[1] \in Enqueued /\ \A j \in cmd[r[1]].needs : Complete(j)
  PROVE  IInv'
<1>1. /\ \A b \in Actors \ {w} : Still(b)
      /\ \A t \in Threads : call'[t] = call[t] /\ Place(t)' = Place(t)
  BY ZenonT(40), WorkerActor, StillPlace DEF GoesTo
<1>2. Enqueued' = Enqueued /\ released' = released /\ hostRan' = hostRan /\ cmd' = cmd
      /\ event' = event /\ events' = events
  BY Zenon DEF cmdVars, eventVars, Enqueued
<1> DEFINE A == {w}
           E == {}
<1>3. /\ \A b \in Actors \ A : Still(b) /\ (b \in Workers => busy'[b] = busy[b])
      /\ \A b \in Actors \cap A : GoalOK(b)'
  BY Zenon, <1>1
<1>4. \A t \in Threads \cap A : FinishTruthful(t)'
  BY Zenon, WorkerActor
<1>5. /\ \A e \in E \cap Enqueued : EventOK(e)' /\ (event[e].done => event'[e].done)
      /\ \A e \in Enqueued \ E :
           /\ event'[e].refs = event[e].refs /\ event'[e].alive = event[e].alive
           /\ event'[e].done = event[e].done /\ event'[e].tasksinfo = event[e].tasksinfo
           /\ \A q \in Queues : e \in events'[q] <=> e \in events[q]
      /\ \A q \in Queues : events'[q] \subseteq events[q]
  BY Zenon, <1>2
<1> HIDE DEF A, E
<1>6. Quiet(A, E)
  BY Zenon, <1>1, <1>2, <1>3, <1>4, <1>5 DEF Quiet
<1> QED BY Zenon, <1>6, QuietIInv

\* What has been waited for is complete.
LEMMA GoalComplete ==
  ASSUME IInv, NEW a \in Actors, Waits(a), todo[a] = <<>>, NEW e \in Goal(a)
  PROVE  Made(e) /\ Past(e) /\ event[e].done /\ Complete(e)
<1>   GoalOK(a) /\ \A i \in Enqueued : EventOK(i)
  BY IInvParts DEF Rest
<1>2. Made(e) /\ Past(e) /\ event[e].done /\ e \in Enqueued
  BY Zenon, InSeqEmpty DEF GoalOK, Made
<1> QED BY Zenon, <1>2 DEF EventOK

\* A command whose wait list has been waited for has its needs met.
LEMMA ListComplete ==
  ASSUME IInv, NEW i \in Enqueued, \A e \in InSeq(cmd[i].list) : Complete(e)
  PROVE  \A j \in cmd[i].needs : Complete(j)
BY Zenon, IInvParts DEF Rest, NeedsOK

\* A command that is not complete, or whose call has not returned, can wait for its
\* wait list.
LEMMA ListWaits ==
  ASSUME IInv, NEW i \in Enqueued, ~(Complete(i) /\ Free(i)), NEW e \in InSeq(cmd[i].list)
  PROVE  e \in Enqueued /\ Made(e) /\ Past(e) /\ Free(e) /\ e \notin released
<1>1. NeedsOK(i) /\ CommandOK(i)
  BY Zenon, IInvParts DEF Rest, Types
<1>2. e \in Enqueued /\ cmd[e].event /\ Free(e) /\ e \notin released
  BY Zenon, <1>1 DEF NeedsOK, CommandOK
<1> QED BY ZenonT(40), <1>2, FreePast, FreeMade

LEMMA WorkerGoal ==
  ASSUME NEW w \in Workers
  PROVE  /\ busy[w] = NoTask => Goal(w) = {}
         /\ busy[w] # NoTask => Goal(w) = InSeq(cmd[busy[w][1]].list)
         /\ Waits(w) <=> Place(w) \in {"body", "count", "function", "unref", "delete"}
         /\ w \notin Threads
BY WorkerActor DEF Goal, Waits

LEMMA WorkerGoalNext ==
  ASSUME NEW w \in Workers
  PROVE  /\ busy'[w] = NoTask => Goal(w)' = {}
         /\ busy'[w] # NoTask => Goal(w)' = InSeq(cmd'[busy'[w][1]].list)
         /\ Waits(w)' <=> Place(w)' \in {"body", "count", "function", "unref", "delete"}
BY WorkerActor DEF Goal, Waits

\* An actor that has nothing to wait for.
LEMMA NoWaitGoal ==
  ASSUME NEW a, todo'[a] = <<>>, pc'[a] # "callback",
         Waits(a)' => \A e \in Goal(a)' : Made(e)' /\ Past(e)' /\ event'[e].done
  PROVE  GoalOK(a)'
BY Zenon, InSeqEmpty DEF GoalOK

LEMMA PopIInv == ASSUME IInv, NEW w \in Workers, Pop(w) PROVE IInv'
<1> Types /\ TasksOnce /\ Rest
  BY SMTT(30), Z3T(30), IInvParts
\* The steps of a worker.
<1>PopStep.
      /\ pc[w] = "idle" /\ busy[w] = NoTask /\ Place(w) = "idle"
      /\ tasks[w] \in Seq(Tasks) /\ tasks[w] # <<>> /\ Head(tasks[w]) \in InSeq(tasks[w])
      /\ Head(tasks[w])[1] \in Enqueued /\ Head(tasks[w]) \in Tasks
      /\ Head(tasks[w]) # NoTask
      /\ busy' = [busy EXCEPT ![w] = Head(tasks[w])]
      /\ tasks' = [tasks EXCEPT ![w] = Tail(tasks[w])]
      /\ GoesTo(w, "body", cmd[Head(tasks[w])[1]].list)
      /\ UNCHANGED <<numTasks, isRunning, finished, stopping, eventVars, cmdVars, call,
                     scan>>
  <2> DEFINE s == Head(tasks[w])
  <2>   /\ Control /\ w \in Actors /\ WorkerOK(w) /\ tasks[w] \in Seq(Tasks)
        /\ \A r \in InSeq(tasks[w]) : TaskOK(r)
    BY TypesParts, WorkerActor DEF PoolTypes, PoolOK, TasksOK
  <2>   pc[w] = "idle" /\ tasks[w] # <<>> /\ WaitFor(w, cmd[s[1]].list, "body")
    BY DEF Pop
  <2>3. busy[w] = NoTask /\ Place(w) = "idle"
    BY NotWaiting DEF WorkerOK, Waiting
  <2>   s \in InSeq(tasks[w]) /\ s \in Tasks
    BY InSeqTail
  <2>   s[1] \in Enqueued
    BY Zenon DEF TaskOK
  <2>6. cmd[s[1]].list \in Seq(Ids)
    BY Zenon DEF Types, Command, Tasks
  <2>7. s # NoTask
    BY SMTT(30), Z3T(30) DEF NoTask, Enqueued
  <2> HIDE DEF s
  <2>8. GoesTo(w, "body", cmd[s[1]].list)
    BY Zenon, <2>6, WaitForMoves DEF Labels, Waiting
  <2> QED BY Zenon, <2>3, <2>7, <2>8 DEF Pop, s
<1>PopTypes. Types' /\ Grows
  <2> DEFINE s == Head(tasks[w])
  <2>1. PoolTypes /\ PoolOK
    BY Zenon, TypesParts
  <2>   /\ busy[w] = NoTask
        /\ tasks[w] \in Seq(Tasks) /\ tasks[w] # <<>> /\ s \in InSeq(tasks[w])
        /\ s \in Tasks /\ s # NoTask
        /\ busy' = [busy EXCEPT ![w] = s]
        /\ tasks' = [tasks EXCEPT ![w] = Tail(tasks[w])]
        /\ GoesTo(w, "body", cmd[s[1]].list)
        /\ UNCHANGED <<numTasks, isRunning, finished, stopping, eventVars, cmdVars, call,
                       scan>>
    BY Zenon, <1>PopStep
  <2> HIDE DEF s
  <2>3. /\ Tail(tasks[w]) \in Seq(Tasks) /\ InSeq(Tail(tasks[w])) \subseteq InSeq(tasks[w])
        /\ Len(tasks[w]) = Len(Tail(tasks[w])) + 1 /\ Len(tasks[w]) \in Nat
        /\ Len(Tail(tasks[w])) \in Nat
    BY Zenon, InSeqTail, InSeqElements
  <2>4. /\ tasks'[w] = Tail(tasks[w]) /\ busy'[w] = s /\ numTasks'[w] = numTasks[w]
        /\ \A v \in Workers \ {w} : tasks'[v] = tasks[v] /\ busy'[v] = busy[v]
                                    /\ numTasks'[v] = numTasks[v]
    BY Zenon, <2>1 DEF PoolTypes
  <2>5. PoolTypes'
    BY <2>1, <2>3 DEF PoolTypes
  <2>6. WorkerOK(w)'
    <3>0. numTasks[w] = Len(tasks[w]) + (IF busy[w] = NoTask THEN 0 ELSE 1)
      BY Zenon, <2>1 DEF PoolOK, WorkerOK
    <3>1. numTasks[w] = Len(tasks[w])
      BY <2>3, <3>0
    <3>2. numTasks'[w] = Len(tasks'[w]) + (IF busy'[w] = NoTask THEN 0 ELSE 1)
      BY Zenon, <2>3, <2>4, <3>1
    <3>3. Place(w)' = "body"
      BY DEF GoesTo
    <3> QED BY Zenon, <2>4, <3>2, <3>3 DEF WorkerOK
  <2>7. Grows
    BY QuietGrows
  <2>8. TasksOK'
    <3>   TasksOK
      BY <2>1 DEF PoolOK
    <3>2. \A v \in Workers : \A r \in InSeq(tasks'[v]) : TaskOK(r)
      BY Zenon, <2>3, <2>4 DEF TasksOK
    <3>3. \A v \in Workers : busy'[v] # NoTask => TaskOK(busy'[v])
      BY Zenon, <2>4 DEF TasksOK
    <3> QED BY Zenon, <2>7, <3>2, <3>3, GrowsTask DEF TasksOK
  <2>9. PoolOK'
    BY Zenon, <2>1, <2>4, <2>6, <2>8, OtherWorkers DEF PoolOK
  <2> QED BY Zenon, <2>5, <2>9, WorkerTypes
<1>PopOnce. TasksOnce'
  <2>1. PICK s : s = Head(tasks[w])
    OBVIOUS
  <2>2. /\ busy[w] = NoTask
        /\ tasks[w] \in Seq(Tasks) /\ tasks[w] # <<>> /\ s \in InSeq(tasks[w])
        /\ busy' = [busy EXCEPT ![w] = s]
        /\ tasks' = [tasks EXCEPT ![w] = Tail(tasks[w])]
        /\ GoesTo(w, "body", cmd[s[1]].list)
        /\ finished' = finished /\ call' = call
    BY Zenon, <2>1, <1>PopStep
  <2>3. WorkersOnce
    BY OnceParts
  <2>4. /\ InSeq(Tail(tasks[w])) \subseteq InSeq(tasks[w])
        /\ Distinct(Tail(tasks[w])) /\ s \notin InSeq(Tail(tasks[w]))
    <3>1. Distinct(tasks[w])
      BY <2>3 DEF WorkersOnce
    <3> QED BY Zenon, <2>1, <2>2, <3>1, InSeqTail, DistinctTail
  <2>5. /\ tasks'[w] = Tail(tasks[w]) /\ busy'[w] = s
        /\ \A v \in Workers \ {w} : tasks'[v] = tasks[v] /\ busy'[v] = busy[v]
    BY <2>2, TypesParts DEF PoolTypes
  <2>6. \A v \in Workers \ {w} : Place(v)' = Place(v)
    BY Zenon, <2>2, WorkerActor, StillPlace DEF GoesTo
  <2>7. \A v \in Workers : InSeq(tasks'[v]) \subseteq InSeq(tasks[v])
    BY Zenon, <2>4, <2>5
  <2>8. WorkersOnce'
    <3>1. ASSUME NEW v \in Workers
          PROVE  /\ Distinct(tasks'[v]) /\ InSeq(tasks'[v]) \cap finished' = {}
                 /\ Place(v)' = "body" => busy'[v] \notin finished'
      <4>1. /\ Distinct(tasks[v]) /\ InSeq(tasks[v]) \cap finished = {}
            /\ InSeq(tasks[w]) \cap finished = {}
            /\ Place(v) = "body" => busy[v] \notin finished
        BY Zenon, <2>3 DEF WorkersOnce
      <4>2. CASE v = w
        <5>1. InSeq(tasks'[v]) \subseteq InSeq(tasks[w]) /\ finished' = finished
          BY SMTT(30), Z3T(30), <2>2, <2>4, <2>5, <4>2
        <5>2. Distinct(tasks'[v]) /\ busy'[v] \in InSeq(tasks[w])
          BY Zenon, <2>2, <2>4, <2>5, <4>2
        <5> QED BY Zenon, <4>1, <5>1, <5>2
      <4>3. CASE v # w
        <5>1. /\ tasks'[v] = tasks[v] /\ busy'[v] = busy[v] /\ finished' = finished
              /\ Place(v)' = Place(v)
          BY <2>2, <2>5, <2>6, <4>3
        <5> QED BY <4>1, <5>1
      <4> QED BY <4>2, <4>3
    <3>2. ASSUME NEW v \in Workers, NEW x \in Workers
          PROVE  /\ busy'[v] \notin InSeq(tasks'[x])
                 /\ v # x => InSeq(tasks'[v]) \cap InSeq(tasks'[x]) = {}
      <4>   /\ busy[v] \notin InSeq(tasks[x])
            /\ v # x => InSeq(tasks[v]) \cap InSeq(tasks[x]) = {}
        BY Zenon, <2>3 DEF WorkersOnce
      <4>2. busy'[v] \notin InSeq(tasks'[x])
        <5>1. CASE v = w /\ x = w
          BY Zenon, <2>4, <2>5, <5>1
        <5>2. CASE v = w /\ x # w
          BY Zenon, <2>2, <2>5, <5>2
        <5>3. CASE v # w
          BY Zenon, <2>5, <2>7, <5>3
        <5> QED BY <5>1, <5>2, <5>3
      <4> QED BY Zenon, <2>7, <4>2
    <3>3. ASSUME NEW v \in Workers, NEW x \in Workers, v # x, busy'[x] # NoTask
          PROVE  busy'[v] # busy'[x]
      <4>   /\ busy[v] \notin InSeq(tasks[w]) /\ busy[x] \notin InSeq(tasks[w])
            /\ busy[x] # NoTask => busy[v] # busy[x]
        BY Zenon, <2>3, <3>3 DEF WorkersOnce
      <4>2. CASE v = w
        BY Zenon, <2>2, <2>5, <3>3, <4>2
      <4>3. CASE x = w
        BY Zenon, <2>2, <2>5, <3>3, <4>3
      <4>4. CASE v # w /\ x # w
        BY Zenon, <2>5, <3>3, <4>4
      <4> QED BY <4>2, <4>3, <4>4
    <3> QED BY Zenon, <3>1, <3>2, <3>3 DEF WorkersOnce
  <2>9. /\ finished' \subseteq finished \cup {busy[w]}
        /\ \A v \in Workers : busy'[v] \in {busy[v], NoTask} \cup InSeq(tasks[v])
    BY Zenon, <2>2, <2>5
  <2> QED BY Zenon, <2>2, <2>7, <2>8, <2>9, WorkerKeepsOnce
<1>0. PICK s : s = Head(tasks[w])
  OBVIOUS
<1>2. Types' /\ Grows /\ TasksOnce'
  BY <1>PopTypes, <1>PopOnce
<1>   /\ s \in InSeq(tasks[w]) /\ s[1] \in Enqueued /\ s # NoTask
      /\ busy' = [busy EXCEPT ![w] = s]
      /\ GoesTo(w, "body", cmd[s[1]].list)
      /\ UNCHANGED <<finished, eventVars, cmdVars, call>>
  BY Zenon, <1>0, <1>PopStep
<1>4. busy'[w] = s /\ \A v \in Workers \ {w} : busy'[v] = busy[v]
  BY TypesParts DEF PoolTypes
<1>5. ~Complete(s[1])
  <2>1. s \notin finished
    BY Zenon DEF TasksOnce
  <2>2. TaskOK(s) /\ s \in Tasks
    <3>1. TasksOK /\ tasks[w] \in Seq(Tasks)
      BY TypesParts DEF PoolOK, PoolTypes
    <3> QED BY Zenon, <3>1, InSeqElements DEF TasksOK
  <2>   NumTasks(s[1]) # 0 /\ s \in TasksOf(s[1])
    BY <2>2 DEF TaskOK, TasksOf, Tasks
  <2>4. cmd[s[1]].op # "sync"
    BY DEF NumTasks
  <2> QED BY Zenon, <2>1, <2>4 DEF Complete
<1>6. GoalOK(w)'
  <2>1. /\ Goal(w)' = InSeq(cmd[s[1]].list) /\ Waits(w)' /\ todo'[w] = cmd[s[1]].list
        /\ pc'[w] # "callback" /\ Place(w)' = "body" /\ "body" # "count"
    <3>1. cmd' = cmd
      BY DEF cmdVars
    <3> QED BY Zenon, <1>4, <3>1, WorkerGoalNext DEF GoesTo
  <2>2. \A e \in InSeq(cmd[s[1]].list) : Made(e)' /\ Past(e)' /\ e \notin released'
    <3>1. \A e \in InSeq(cmd[s[1]].list) : e \in Enqueued /\ Made(e) /\ Past(e) /\ e \notin released
      BY Zenon, <1>5, ListWaits
    <3>2. Onward /\ released' = released
      BY Zenon, WorkerActor, StillPlace DEF Onward, GoesTo, cmdVars
    <3> QED BY Zenon, <1>2, <3>1, <3>2, Monotone
  <2> QED BY Zenon, <2>1, <2>2 DEF GoalOK
<1> QED BY Zenon, <1>2, <1>4, <1>6, WorkerIInv

LEMMA BodyIInv == ASSUME IInv, NEW w \in Workers, Body(w) PROVE IInv'
<1> Types /\ TasksOnce /\ Rest
  BY IInvParts
<1>BodyStep.
      /\ pc[w] = "body" /\ Place(w) = "body" /\ todo[w] = <<>> /\ busy[w] # NoTask
      /\ busy[w] \in Tasks /\ TaskOK(busy[w])
      /\ finished' = finished \cup {busy[w]}
      /\ GoesTo(w, "count", <<>>)
      /\ UNCHANGED <<tasks, numTasks, isRunning, busy, stopping, eventVars, cmdVars,
                     call, scan>>
  <2>   /\ Control /\ w \in Actors /\ WorkerOK(w)
        /\ busy[w] \in Tasks \cup {NoTask} /\ TasksOK
    BY TypesParts, WorkerActor DEF PoolTypes, PoolOK
  <2>   pc[w] = "body" /\ pc[w] \notin Waiting
    BY Zenon DEF Body, Waiting
  <2>3. Place(w) = "body" /\ todo[w] = <<>>
    BY NotWaiting
  <2>   busy[w] # NoTask
    BY <2>3 DEF WorkerOK
  <2>5. TaskOK(busy[w])
    BY DEF TasksOK
  <2>6. GoesTo(w, "count", <<>>)
    <3>1. Goto(w, "count") /\ UNCHANGED <<todo, then>>
      BY DEF Body
    <3> QED BY <3>1, GotoMoves DEF Labels, Waiting
  <2> QED BY <2>3, <2>5, <2>6 DEF Body
<1>BodyTypes. Types' /\ Grows
  <2>1. PoolTypes /\ PoolOK
    BY TypesParts
  <2>   /\ Place(w) = "body" /\ busy[w] # NoTask /\ busy[w] \in Tasks /\ TaskOK(busy[w])
        /\ finished' = finished \cup {busy[w]} /\ GoesTo(w, "count", <<>>)
        /\ UNCHANGED <<tasks, numTasks, isRunning, busy, stopping, eventVars, cmdVars,
                       call, scan>>
    BY Zenon, <1>BodyStep
  <2>3. PoolTypes'
    BY <2>1 DEF PoolTypes
  <2>4. WorkerOK(w)'
    <3>1. Place(w)' = "count"
      BY Zenon DEF GoesTo
    <3>2. WorkerOK(w)
      BY <2>1 DEF PoolOK
    <3> QED BY ZenonT(40), <3>1, <3>2 DEF WorkerOK
  <2>5. Grows
    BY DEF Grows, Same, cmdVars, Enqueued
  <2>6. TasksOK'
    <3>   TasksOK
      BY <2>1 DEF PoolOK
    <3>2. \A s \in finished' : TaskOK(s)
      BY Zenon DEF TasksOK
    <3> QED BY Zenon, <2>5, <3>2, GrowsTask DEF TasksOK
  <2>7. PoolOK'
    BY Zenon, <2>1, <2>4, <2>6, OtherWorkers DEF PoolOK
  <2> QED BY ZenonT(40), <2>3, <2>5, <2>7, WorkerTypes DEF Grows
<1>BodyOnce. TasksOnce'
  <2>   /\ Place(w) = "body" /\ busy[w] # NoTask
        /\ finished' = finished \cup {busy[w]} /\ GoesTo(w, "count", <<>>)
        /\ UNCHANGED <<tasks, busy, call>>
    BY Zenon, <1>BodyStep
  <2>2. WorkersOnce
    BY OnceParts
  <2>3. Place(w)' = "count" /\ \A v \in Workers \ {w} : Place(v)' = Place(v)
    BY Zenon, WorkerActor, StillPlace DEF GoesTo
  <2>4. \A v \in Workers : /\ InSeq(tasks[v]) \cap finished' = {}
                           /\ Place(v)' = "body" => busy[v] \notin finished'
    <3>1. \A v \in Workers : InSeq(tasks[v]) \cap finished = {} /\ busy[w] \notin InSeq(tasks[v])
      BY Zenon, <2>2 DEF WorkersOnce
    <3>2. \A v \in Workers \ {w} : /\ Place(v) = "body" => busy[v] \notin finished
                                   /\ busy[v] # busy[w]
      BY Zenon, <2>2 DEF WorkersOnce
    <3>3. "count" # "body"
      OBVIOUS
    <3> QED BY Zenon, <2>3, <3>1, <3>2, <3>3
  <2>5. WorkersOnce'
    BY Zenon, <2>2, <2>4 DEF WorkersOnce
  <2>6. /\ finished' \subseteq finished \cup {busy[w]}
        /\ \A v \in Workers : InSeq(tasks'[v]) \subseteq InSeq(tasks[v])
        /\ \A v \in Workers : busy'[v] \in {busy[v], NoTask} \cup InSeq(tasks[v])
    BY Zenon
  <2> QED BY Zenon, <2>5, <2>6, WorkerKeepsOnce
<1>2. Types' /\ Grows /\ TasksOnce'
  BY <1>BodyTypes, <1>BodyOnce
<1>   /\ Place(w) = "body" /\ todo[w] = <<>> /\ busy[w] # NoTask /\ TaskOK(busy[w])
      /\ finished' = finished \cup {busy[w]} /\ GoesTo(w, "count", <<>>)
      /\ UNCHANGED <<busy, eventVars, cmdVars, call>>
  BY Zenon, <1>BodyStep
<1>4. PICK i \in Enqueued : i = busy[w][1]
  BY DEF TaskOK
<1>5. Goal(w) = InSeq(cmd[i].list) /\ Waits(w) /\ w \in Actors
  BY Zenon, <1>4, WorkerGoal, WorkerActor
<1>6. \A e \in InSeq(cmd[i].list) : Made(e) /\ Past(e) /\ event[e].done /\ Complete(e)
  BY Zenon, <1>5, GoalComplete
<1>7. \A j \in cmd[i].needs : Complete(j)
  BY Zenon, <1>6, ListComplete
<1>8. GoalOK(w)'
  <2>1. cmd' = cmd /\ event' = event
    BY DEF cmdVars, eventVars
  <2>2. Goal(w)' = InSeq(cmd[i].list) /\ todo'[w] = <<>> /\ pc'[w] # "callback"
    BY Zenon, <1>4, <2>1, WorkerGoalNext DEF GoesTo
  <2>3. Onward
    BY Zenon, WorkerActor, StillPlace DEF Onward, GoesTo
  <2>4. \A e \in InSeq(cmd[i].list) : Made(e)' /\ Past(e)' /\ event'[e].done
    <3>1. \A e : Made(e) => e \in Enqueued
      BY DEF Made
    <3> QED BY Zenon, <1>2, <1>6, <2>1, <2>3, <3>1, Monotone
  <2> QED BY Zenon, <2>2, <2>4, NoWaitGoal
<1>9. /\ \A r \in finished' \ finished : r[1] \in Enqueued /\ \A j \in cmd[r[1]].needs : Complete(j)
      /\ \A v \in Workers \ {w} : busy'[v] = busy[v]
  BY Zenon, <1>4, <1>7
<1> QED BY Zenon, <1>2, <1>8, <1>9, WorkerIInv

LEMMA CountIInv == ASSUME IInv, NEW w \in Workers, Count(w) PROVE IInv'
<1> Types /\ TasksOnce /\ Rest
  BY IInvParts
<1>CountStep.
      /\ pc[w] = "count" /\ Place(w) = "count" /\ todo[w] = <<>> /\ busy[w] # NoTask
      /\ numTasks' = [numTasks EXCEPT ![w] = numTasks[w] - 1]
      /\ busy' = [busy EXCEPT ![w] = NoTask]
      /\ GoesTo(w, "idle", <<>>)
      /\ UNCHANGED <<tasks, isRunning, finished, stopping, eventVars, cmdVars, call,
                     scan>>
  <2>   Control /\ w \in Actors /\ WorkerOK(w)
    BY TypesParts, WorkerActor DEF PoolOK
  <2>   pc[w] = "count" /\ pc[w] \notin Waiting
    BY DEF Count, Waiting
  <2>   Place(w) = "count" /\ todo[w] = <<>>
    BY NotWaiting
  <2>4. busy[w] # NoTask
    BY DEF WorkerOK
  <2>5. GoesTo(w, "idle", <<>>)
    <3>1. Goto(w, "idle") /\ UNCHANGED <<todo, then>>
      BY DEF Count
    <3> QED BY Zenon, <3>1, GotoMoves DEF Labels, Waiting
  <2> QED BY <2>4, <2>5 DEF Count
<1>CountTypes. Types' /\ Grows
  <2>1. PoolTypes /\ PoolOK
    BY TypesParts
  <2>   /\ busy[w] # NoTask /\ numTasks' = [numTasks EXCEPT ![w] = numTasks[w] - 1]
        /\ busy' = [busy EXCEPT ![w] = NoTask] /\ GoesTo(w, "idle", <<>>)
        /\ UNCHANGED <<tasks, isRunning, finished, stopping, eventVars, cmdVars, call,
                       scan>>
    BY <1>CountStep
  <2>3. numTasks[w] = Len(tasks[w]) + 1 /\ Len(tasks[w]) \in Nat
    <3>1. numTasks[w] = Len(tasks[w]) + (IF busy[w] = NoTask THEN 0 ELSE 1)
      BY Zenon, <2>1 DEF PoolOK, WorkerOK
    <3>2. Len(tasks[w]) \in Nat
      BY <2>1, InSeqElements DEF PoolTypes
    <3> QED BY Zenon, <3>1, <3>2
  <2>4. /\ busy'[w] = NoTask /\ numTasks'[w] = numTasks[w] - 1
        /\ \A v \in Workers \ {w} : tasks'[v] = tasks[v] /\ busy'[v] = busy[v]
                                    /\ numTasks'[v] = numTasks[v]
    BY <2>1 DEF PoolTypes
  <2>5. PoolTypes'
    <3>1. numTasks[w] - 1 \in Nat
      BY <2>3
    <3>2. numTasks' \in [Workers -> Nat]
      BY <2>1, <3>1 DEF PoolTypes
    <3>3. busy' \in [Workers -> Tasks \cup {NoTask}]
      BY <2>1 DEF PoolTypes
    <3> QED BY <2>1, <3>2, <3>3 DEF PoolTypes
  <2>6. WorkerOK(w)'
    <3>1. Place(w)' = "idle"
      BY DEF GoesTo
    <3>2. numTasks'[w] = Len(tasks'[w]) + (IF busy'[w] = NoTask THEN 0 ELSE 1)
      BY <2>3, <2>4
    <3> QED BY Zenon, <2>4, <3>1, <3>2 DEF WorkerOK
  <2>   Grows
    BY QuietGrows
  <2>8. TasksOK'
    <3>1. TasksOK
      BY <2>1 DEF PoolOK
    <3> QED BY Zenon, <2>4, <3>1, GrowsTask DEF TasksOK
  <2>9. PoolOK'
    BY Zenon, <2>1, <2>4, <2>6, <2>8, OtherWorkers DEF PoolOK
  <2> QED BY Zenon, <2>5, <2>9, WorkerTypes DEF Grows
<1>CountOnce. TasksOnce'
  <2>1. /\ busy[w] # NoTask
        /\ busy' = [busy EXCEPT ![w] = NoTask] /\ GoesTo(w, "idle", <<>>)
        /\ UNCHANGED <<tasks, finished, call>>
    BY Zenon, <1>CountStep
  <2>2. WorkersOnce /\ PoolTypes
    BY OnceParts, TypesParts
  <2>3. /\ Place(w)' # "body" /\ \A v \in Workers \ {w} : Place(v)' = Place(v)
    <3>1. "idle" # "body"
      OBVIOUS
    <3> QED BY Zenon, <2>1, <3>1, WorkerActor, StillPlace DEF GoesTo
  <2>4. busy'[w] = NoTask /\ \A v \in Workers \ {w} : busy'[v] = busy[v]
    BY <2>1, <2>2 DEF PoolTypes
  <2>5. \A v \in Workers : NoTask \notin InSeq(tasks[v])
    <3>1. NoTask \notin Tasks
      BY DEF NoTask, Tasks, Ids
    <3> QED BY <2>2, <3>1, InSeqElements DEF PoolTypes, InSeq
  <2>6. WorkersOnce'
    <3>1. ASSUME NEW v \in Workers
          PROVE  /\ Distinct(tasks'[v]) /\ InSeq(tasks'[v]) \cap finished' = {}
                 /\ Place(v)' = "body" => busy'[v] \notin finished'
      <4>1. /\ Distinct(tasks[v]) /\ InSeq(tasks[v]) \cap finished = {}
            /\ Place(v) = "body" => busy[v] \notin finished
        BY Zenon, <2>2 DEF WorkersOnce
      <4>2. Place(v)' = "body" => Place(v) = "body" /\ busy'[v] = busy[v]
        BY Zenon, <2>3, <2>4
      <4> QED BY <2>1, <4>1, <4>2
    <3>2. ASSUME NEW v \in Workers, NEW x \in Workers
          PROVE  /\ busy'[v] \notin InSeq(tasks'[x])
                 /\ v # x => InSeq(tasks'[v]) \cap InSeq(tasks'[x]) = {}
                 /\ v # x /\ busy'[x] # NoTask => busy'[v] # busy'[x]
      <4>1. /\ busy[v] \notin InSeq(tasks[x])
            /\ v # x => InSeq(tasks[v]) \cap InSeq(tasks[x]) = {}
            /\ v # x /\ busy[x] # NoTask => busy[v] # busy[x]
        BY Zenon, <2>2 DEF WorkersOnce
      <4>2. busy'[v] \in {busy[v], NoTask} /\ busy'[x] \in {busy[x], NoTask}
        BY Zenon, <2>4
      <4> QED BY Zenon, <2>1, <2>5, <4>1, <4>2
    <3> QED BY Zenon, <3>1, <3>2 DEF WorkersOnce
  <2>7. /\ finished' \subseteq finished \cup {busy[w]}
        /\ \A v \in Workers : InSeq(tasks'[v]) \subseteq InSeq(tasks[v])
        /\ \A v \in Workers : busy'[v] \in {busy[v], NoTask} \cup InSeq(tasks[v])
    BY Zenon, <2>1, <2>4
  <2> QED BY Zenon, <2>1, <2>6, <2>7, WorkerKeepsOnce
<1>2. Types' /\ Grows /\ TasksOnce'
  BY <1>CountTypes, <1>CountOnce
<1>   /\ busy' = [busy EXCEPT ![w] = NoTask] /\ GoesTo(w, "idle", <<>>)
      /\ UNCHANGED <<finished, eventVars, cmdVars, call>>
  BY Zenon, <1>CountStep
<1>   busy'[w] = NoTask /\ \A v \in Workers \ {w} : busy'[v] = busy[v]
  BY TypesParts DEF PoolTypes
<1>5. GoalOK(w)'
  <2>1. Goal(w)' = {} /\ todo'[w] = <<>> /\ pc'[w] # "callback"
    BY Zenon, WorkerGoalNext DEF GoesTo
  <2> QED BY Zenon, <2>1, NoWaitGoal
<1> QED BY ZenonT(40), <1>2, <1>5, WorkerIInv

LEMMA ExitIInv == ASSUME IInv, NEW w \in Workers, Exit(w) PROVE IInv'
<1> Types /\ TasksOnce /\ Rest
  BY IInvParts
<1>ExitStep.
      /\ Place(w) = "idle" /\ todo[w] = <<>> /\ busy[w] = NoTask
      /\ GoesTo(w, "exited", <<>>)
      /\ UNCHANGED <<poolVars, eventVars, cmdVars, call, scan>>
  <2>   Control /\ w \in Actors /\ WorkerOK(w)
    BY TypesParts, WorkerActor DEF PoolOK
  <2>   pc[w] = "idle" /\ pc[w] \notin Waiting
    BY DEF Exit, Waiting
  <2>   Place(w) = "idle" /\ todo[w] = <<>>
    BY NotWaiting
  <2>4. busy[w] = NoTask
    BY DEF WorkerOK
  <2>5. GoesTo(w, "exited", <<>>)
    <3>1. Goto(w, "exited") /\ UNCHANGED <<todo, then>>
      BY DEF Exit
    <3> QED BY <3>1, GotoMoves DEF Labels, Waiting
  <2> QED BY <2>4, <2>5 DEF Exit
<1>ExitTypes. Types' /\ Grows
  <2>1. PoolTypes /\ PoolOK
    BY TypesParts
  <2>   /\ busy[w] = NoTask /\ GoesTo(w, "exited", <<>>)
        /\ UNCHANGED <<poolVars, eventVars, cmdVars, call, scan>>
    BY <1>ExitStep
  <2>3. PoolTypes'
    BY <2>1 DEF PoolTypes, poolVars
  <2>4. WorkerOK(w)'
    <3>1. Place(w)' = "exited"
      BY DEF GoesTo
    <3>2. WorkerOK(w)
      BY <2>1 DEF PoolOK
    <3> QED BY Zenon, <3>1, <3>2 DEF WorkerOK, poolVars
  <2>   Grows
    BY QuietGrows DEF poolVars
  <2>6. TasksOK'
    BY Zenon, <2>1, GrowsTask DEF PoolOK, TasksOK, poolVars
  <2>7. PoolOK'
    BY Zenon, <2>1, <2>4, <2>6, OtherWorkers DEF PoolOK, poolVars
  <2> QED BY Zenon, <2>3, <2>7, WorkerTypes DEF Grows
<1>   /\ busy[w] = NoTask /\ GoesTo(w, "exited", <<>>)
      /\ UNCHANGED <<poolVars, eventVars, cmdVars, call, scan>>
  BY Zenon, <1>ExitStep
<1>3. Types' /\ Grows
  BY <1>ExitTypes
<1>4. TasksOnce'
  <2>   /\ \A u \in Threads : call'[u] = call[u] /\ Place(u)' = Place(u)
        /\ \A v \in Workers \ {w} : Place(v)' = Place(v)
    BY Zenon, WorkerActor, StillPlace DEF GoesTo
  <2>2. \A v \in Workers : Place(v)' = "body" => Place(v) = "body"
    <3>1. Place(w)' = "exited" /\ "exited" # "body"
      BY DEF GoesTo
    <3> QED BY Zenon, <3>1
  <2> QED BY Zenon, <2>2, OnceKeep DEF poolVars
<1>5. GoalOK(w)'
  <2>1. Goal(w)' = {} /\ todo'[w] = <<>> /\ pc'[w] # "callback"
    BY Zenon, WorkerGoalNext DEF GoesTo, poolVars
  <2> QED BY Zenon, <2>1, NoWaitGoal
<1> QED BY Zenon, <1>3, <1>4, <1>5, WorkerIInv DEF poolVars

-----------------------------------------------------------------------------
\* The steps of ur_event_handle_t_::wait

\* What a step of wait may do to the event h that actor a waits for.

WaitEffect(a, h) ==
  /\ pc'[a] = "callback" => event'[Head(todo'[a])].done
  /\ InSeq(todo'[a]) \subseteq InSeq(todo[a])
  /\ \A e \in InSeq(todo[a]) : e \in InSeq(todo'[a]) \/ event'[e].done
  /\ \A e \in Enqueued \ {h} :
       /\ event'[e].refs = event[e].refs /\ event'[e].alive = event[e].alive
       /\ event'[e].done = event[e].done /\ event'[e].tasksinfo = event[e].tasksinfo
       /\ \A q \in Queues : e \in events'[q] <=> e \in events[q]
  /\ \A q \in Queues : events'[q] \subseteq events[q]
  /\ event[h].done => event'[h].done
  /\ EventOK(h)'

LEMMA WaitIInv == ASSUME IInv, NEW a \in Actors, Wait(a) PROVE IInv'
<1> Types /\ TasksOnce /\ Rest
  BY IInvParts
<1>WaitedMoves. ASSUME Control, pc[a] \in Waiting, Place(a) \notin Waiting, Waited(a)
      PROVE  /\ GoesTo(a, Place(a), Tail(todo[a]))
             /\ todo[a] # <<>>
  <2> /\ Control
      /\ pc[a] \in Waiting
      /\ Place(a) \notin Waiting
      /\ Waited(a)
    BY <1>WaitedMoves
  <2>   /\ todo[a] \in Seq(Ids) /\ todo[a] # <<>> /\ Place(a) = then[a]
        /\ then[a] \in Labels
    BY DEF Control, ActorOK, Place
  <2>2. /\ Tail(todo[a]) \in Seq(Ids) /\ Len(todo[a]) \in Nat
        /\ Tail(todo[a]) = <<>> <=> ~(Len(todo[a]) > 1)
    BY TailEmpty, InSeqTail, InSeqElements
  <2>3. todo' = [todo EXCEPT ![a] = Tail(todo[a])]
    BY DEF Waited
  <2>4. /\ todo' \in [Actors -> Seq(Ids)] /\ todo'[a] = Tail(todo[a])
        /\ \A b \in Actors \ {a} : todo'[b] = todo[b]
    BY Zenon, <2>2, <2>3 DEF Control
  <2>5. CASE Len(todo[a]) > 1
    <3>   then' = then /\ pc' = [pc EXCEPT ![a] = "wait"]
      BY <2>5 DEF Waited, Goto
    <3>   pc' \in [Actors -> Labels] /\ pc'[a] = "wait" /\ \A b \in Actors \ {a} : pc'[b] = pc[b]
      BY DEF Control, Labels
    <3>3. Control'
      BY Zenon, <2>2, <2>4, <2>5 DEF Control, ActorOK, Waiting
    <3> QED BY <2>4, <3>3 DEF GoesTo, Still, Place, Waiting
  <2>6. CASE ~(Len(todo[a]) > 1)
    <3>1. then' = [then EXCEPT ![a] = "idle"] /\ pc' = [pc EXCEPT ![a] = then[a]]
      BY <2>6 DEF Waited, Goto
    <3>   /\ pc' \in [Actors -> Labels] /\ pc'[a] = then[a]
          /\ then' \in [Actors -> Labels]
          /\ \A b \in Actors \ {a} : pc'[b] = pc[b] /\ then'[b] = then[b]
      BY <3>1 DEF Control, Labels
    <3>3. Control'
      BY Zenon, <2>2, <2>4, <2>6 DEF Control, ActorOK
    <3> QED BY <2>4, <3>3 DEF GoesTo, Still, Place, Waiting
  <2> QED BY <2>5, <2>6
<1>PlaceNotWaiting. Place(a) \notin Waiting
  <2>1. CASE a \in Threads
    <3>1. CallOK(a) /\ call[a].op \in AllOps \cup {"none"}
      BY <2>1 DEF Types
    <3> QED BY <3>1, PlaceOp
  <2>2. CASE a \in Workers
    BY Zenon, <2>2 DEF Types, WorkerOK, Waiting
  <2> QED BY <2>1, <2>2 DEF Actors
\* A step of event_wait changes no place, only what the actor waits for.
<1>WaitControl.
      /\ Control' /\ (\A b \in Actors \ {a} : Still(b))
      /\ \A b \in Actors : Place(b)' = Place(b)
      /\ UNCHANGED <<poolVars, cmdVars, call, scan>>
      /\ todo[a] \in Seq(Ids) /\ todo[a] # <<>> /\ Head(todo[a]) \in Ids
  <2>1. Control /\ Place(a) \notin Waiting
    BY TypesParts, <1>PlaceNotWaiting
  <2>2. UNCHANGED <<poolVars, cmdVars, call, scan>> /\ pc[a] \in Waiting
    BY Zenon DEF Wait, AlreadyDone, LockEvent, WaitAll, Callback, Waiting
  <2>3. todo[a] \in Seq(Ids) /\ todo[a] # <<>> /\ Head(todo[a]) \in Ids
    <3>1. todo[a] \in Seq(Ids) /\ todo[a] # <<>>
      BY Zenon, <2>1, <2>2 DEF Control, ActorOK
    <3> QED BY <3>1, InSeqTail
  <2>4. CASE Waited(a)
    <3>   GoesTo(a, Place(a), Tail(todo[a]))
      BY <2>1, <2>2, <2>4, <1>WaitedMoves
    <3>2. \A b \in Actors \ {a} : Place(b)' = Place(b)
      BY StillPlace DEF GoesTo
    <3> QED BY Zenon, <2>2, <2>3, <3>2 DEF GoesTo
  <2>5. ASSUME NEW label \in Waiting, Goto(a, label), UNCHANGED <<todo, then>>
        PROVE  Control' /\ (\A b \in Actors \ {a} : Still(b)) /\ Place(a)' = Place(a)
    <3>   /\ pc' \in [Actors -> Labels] /\ pc'[a] = label
          /\ \A b \in Actors \ {a} : pc'[b] = pc[b]
      BY <2>1, <2>5 DEF Control, Goto, Waiting, Labels
    <3>2. Control'
      BY Zenon, <2>1, <2>2, <2>5 DEF Control, ActorOK
    <3> QED BY <2>2, <2>5, <3>2 DEF Still, Place
  <2>6. CASE LockEvent(a) \/ WaitAll(a)
    <3>1. \E label \in Waiting : Goto(a, label) /\ UNCHANGED <<todo, then>>
      BY Zenon, <2>6 DEF LockEvent, WaitAll, Waiting
    <3>   Control' /\ (\A b \in Actors \ {a} : Still(b)) /\ Place(a)' = Place(a)
      BY <2>5, <3>1
    <3>3. \A b \in Actors \ {a} : Place(b)' = Place(b)
      BY StillPlace
    <3> QED BY ZenonT(40), <2>2, <2>3, <3>3
  <2> QED BY <2>4, <2>6 DEF Wait, AlreadyDone, Callback
<1>WaitEventTypes. EventTypes'
  <2> DEFINE e == Head(todo[a])
  <2>   EventTypes /\ e \in Ids
    BY TypesParts, <1>WaitControl
  <2> HIDE DEF e
  <2>2. CASE AlreadyDone(a)
    BY <2>2 DEF AlreadyDone, EventTypes, eventVars
  <2>3. CASE LockEvent(a)
    <3>   event' = [event EXCEPT ![e].mutex = a] /\ UNCHANGED <<events, localArgs>>
      BY <2>3 DEF LockEvent, e
    <3>2. event' \in [Ids -> EventType]
      BY DEF EventTypes, EventType
    <3> QED BY <3>2 DEF EventTypes
  <2>4. CASE WaitAll(a)
    <3>   /\ event' = [event EXCEPT ![e].done = TRUE, ![e].mutex = None]
          /\ events' = [events EXCEPT ![cmd[e].q] = @ \ {e}] /\ localArgs' = localArgs
      BY <2>4 DEF WaitAll, e
    <3>2. event' \in [Ids -> EventType]
      BY ZenonT(40) DEF EventTypes, EventType
    <3>3. events' \in [Queues -> SUBSET Ids]
      BY Zenon DEF EventTypes
    <3> QED BY <3>2, <3>3 DEF EventTypes
  <2>5. CASE Callback(a)
    BY Zenon, <2>5 DEF Callback, EventTypes
  <2> QED BY <2>2, <2>3, <2>4, <2>5 DEF Wait
<1>WaitTypes. Types' /\ Grows
  <2>   /\ PoolTypes /\ CallTypes /\ PoolOK /\ CallsApart
        /\ \A t \in Threads : CallOK(t)
    BY TypesParts DEF Types
  <2>   /\ UNCHANGED <<poolVars, cmdVars, call, scan>> /\ Control'
        /\ \A b \in Actors : Place(b)' = Place(b)
    BY <1>WaitControl
  <2>3. Grows
    BY QuietGrows DEF poolVars
  <2>4. PoolTypes' /\ CallTypes' /\ CallsApart'
    BY DEF PoolTypes, CallTypes, CallsApart, KeepsApart, poolVars, cmdVars, Enqueued
  <2>5. PoolOK'
    <3>1. \A w \in Workers : w \in Actors /\ WorkerOK(w)
      BY WorkerActor DEF PoolOK
    <3>2. \A w \in Workers : WorkerOK(w)'
      BY Zenon, <3>1 DEF WorkerOK, poolVars
    <3>3. TasksOK'
      BY Zenon, <2>3, GrowsTask DEF PoolOK, TasksOK, poolVars
    <3> QED BY <3>2, <3>3 DEF PoolOK
  <2>6. ASSUME NEW t \in Threads PROVE CallOK(t)'
    <3>   /\ released \subseteq Enqueued /\ released' = released /\ call'[t] = call[t]
          /\ Place(t)' = Place(t)
      BY Zenon, ThreadActor DEF CallTypes, cmdVars
    <3>2. call[t].op = "finish" /\ Place(t) = "unref" => call[t].part \notin released'
      BY Zenon DEF CallOK
    <3> QED BY Zenon, <2>3, <3>2, GrowsCall
  <2>7. Enqueued' = Enqueued
    BY DEF cmdVars, Enqueued
  <2> QED BY Zenon, <2>3, <2>4, <2>5, <2>6, <2>7, <1>WaitEventTypes, StepTypes
<1>WaitOnce. TasksOnce'
  <2>   Types /\ TasksOnce
    BY IInvParts
  <2>   /\ UNCHANGED <<poolVars, cmdVars, call, scan>>
        /\ \A b \in Actors : Place(b)' = Place(b)
    BY Zenon, <1>WaitControl
  <2>3. /\ \A u \in Threads : call'[u] = call[u] /\ Place(u)' = Place(u)
        /\ \A w \in Workers : Place(w)' = "body" => Place(w) = "body"
    BY Zenon, ThreadActor, WorkerActor
  <2> QED BY Zenon, <2>3, OnceKeep DEF poolVars
\* What the actor waits for stays what it is.
<1>WaitGoal. ASSUME UNCHANGED <<poolVars, cmdVars, call>>, Place(a)' = Place(a)
      PROVE  /\ Goal(a)' = Goal(a)
             /\ Waits(a)' <=> Waits(a)
             /\ \A e : Deletes(a, e)' <=> Deletes(a, e)
  <2> /\ UNCHANGED <<poolVars, cmdVars, call>>
      /\ Place(a)' = Place(a)
    BY <1>WaitGoal
  <2>1. busy' = busy /\ cmd' = cmd /\ call' = call
    BY DEF poolVars, cmdVars
  <2> QED BY Zenon, <2>1 DEF Goal, Waits, Deletes
\* A step of wait, given what it does to the events and to the actor.
<1>WaitStep. ASSUME NEW h, WaitEffect(a, h)
      PROVE  IInv'
  <2> WaitEffect(a, h)
    BY <1>WaitStep
  <2>1. Types /\ Rest
    BY IInvParts
  <2>2. /\ \A b \in Actors \ {a} : Still(b)
        /\ \A b \in Actors : Place(b)' = Place(b)
        /\ UNCHANGED <<poolVars, cmdVars, call, scan>>
        /\ todo[a] # <<>>
    BY Zenon, <2>1, <1>WaitControl
  <2>3. Types' /\ Grows /\ TasksOnce'
    BY Zenon, <2>1, <1>WaitTypes, <1>WaitOnce
  <2>4. /\ Enqueued' = Enqueued /\ released' = released /\ hostRan' = hostRan
        /\ busy' = busy /\ finished' = finished /\ cmd' = cmd
    BY <2>2 DEF cmdVars, poolVars, Enqueued
  <2>5. \A t \in Threads : call'[t] = call[t] /\ Place(t)' = Place(t)
    BY Zenon, <2>2, ThreadActor
  <2>6. GoalOK(a) /\ Waits(a) /\ Place(a) # "count"
    BY Zenon, <2>1, <2>2 DEF Rest, GoalOK
  <2>7. /\ Goal(a)' = Goal(a) /\ (Waits(a)' <=> Waits(a)) /\ Place(a)' = Place(a)
        /\ \A e : Deletes(a, e)' <=> Deletes(a, e)
    BY Zenon, <2>2, <1>WaitGoal
  <2>8. GoalOK(a)'
    <3>1. \A e \in Goal(a) : e \in Enqueued /\ Made(e) /\ Past(e)
      BY Zenon, <2>6 DEF GoalOK, Made
    <3>2. \A e \in Goal(a) : Made(e)' /\ Past(e)'
      BY Zenon, <2>3, <2>4, <2>5, <3>1, CallsKeep
    <3>3. \A e \in Goal(a) : event'[e].done \/ e \in InSeq(todo'[a])
      <4>1. \A e \in Goal(a) : event[e].done \/ e \in InSeq(todo[a])
        BY Zenon, <2>6 DEF GoalOK
      <4>2. /\ \A e \in Enqueued : event[e].done => event'[e].done
            /\ \A e \in InSeq(todo[a]) : e \in InSeq(todo'[a]) \/ event'[e].done
        BY Zenon DEF WaitEffect
      <4> QED BY Zenon, <3>1, <4>1, <4>2
    <3>4. \A e \in InSeq(todo'[a]) : e \in released => a \in Threads /\ Deletes(a, e)
      BY Zenon, <2>6 DEF GoalOK, WaitEffect
    <3>5. InSeq(todo'[a]) \subseteq Goal(a)
      BY Zenon, <2>6 DEF GoalOK, WaitEffect
    <3> QED BY Zenon, <2>4, <2>6, <2>7, <3>2, <3>3, <3>4, <3>5 DEF GoalOK, WaitEffect
  <2>9. ASSUME a \in Threads PROVE FinishTruthful(a)'
    <3>1. ~(Place(a) = "return" /\ call[a].op = "finish")
      BY <2>6 DEF Waits
    <3>2. pc'[a] = "return" => Place(a)' = "return"
      BY DEF Place, Waiting
    <3> QED BY Zenon, <2>2, <2>7, <3>1, <3>2 DEF FinishTruthful
  <2> DEFINE A == {a}
             E == {h}
  <2>10. /\ \A b \in Actors \ A : Still(b) /\ (b \in Workers => busy'[b] = busy[b])
         /\ \A b \in Actors \cap A : GoalOK(b)'
         /\ \A t \in Threads \cap A : FinishTruthful(t)'
    BY Zenon, <2>2, <2>4, <2>8, <2>9
  <2>11. /\ \A e \in E \cap Enqueued : EventOK(e)' /\ (event[e].done => event'[e].done)
         /\ \A e \in Enqueued \ E :
             /\ event'[e].refs = event[e].refs /\ event'[e].alive = event[e].alive
             /\ event'[e].done = event[e].done /\ event'[e].tasksinfo = event[e].tasksinfo
             /\ \A q \in Queues : e \in events'[q] <=> e \in events[q]
         /\ \A s \in finished' \ finished :
              s[1] \in Enqueued /\ \A j \in cmd[s[1]].needs : Complete(j)
    BY Zenon, <2>4 DEF WaitEffect
  <2> HIDE DEF A, E
  <2>12. /\ \A q \in Queues : events'[q] \subseteq events[q]
         /\ Enqueued' = Enqueued /\ released' = released /\ hostRan' = hostRan
    BY Zenon, <2>4 DEF WaitEffect
  <2>13. Quiet(A, E)
    BY Zenon, <2>5, <2>10, <2>11, <2>12 DEF Quiet
  <2> QED BY Zenon, <2>3, <2>13, QuietIInv
\* The event that an actor waits for can be waited for.
<1>WaitedEvent. ASSUME todo[a] # <<>>, NEW e, e = Head(todo[a])
      PROVE  /\ e \in InSeq(todo[a]) /\ e \in Enqueued /\ e \in Ids /\ Made(e) /\ Past(e)
             /\ EventOK(e) /\ CommandOK(e)
             /\ todo[a] \in Seq(Ids) /\ InSeq(todo[a]) = {e} \cup InSeq(Tail(todo[a]))
  <2> /\ todo[a] # <<>>
      /\ e = Head(todo[a])
    BY <1>WaitedEvent
  <2>   GoalOK(a) /\ Types /\ Rest
    BY IInvParts DEF Rest
  <2>   todo[a] \in Seq(Ids)
    BY Zenon DEF Types, TypeOK
  <2>   e \in InSeq(todo[a]) /\ e \in Ids /\ InSeq(todo[a]) = {e} \cup InSeq(Tail(todo[a]))
    <3>1. /\ e \in InSeq(todo[a]) /\ e \in Ids
          /\ InSeq(todo[a]) = InSeq(Tail(todo[a])) \cup {e}
      BY Zenon, InSeqTail
    <3> QED BY Zenon, <3>1
  <2>4. Made(e) /\ Past(e)
    BY Zenon DEF GoalOK
  <2> QED BY Zenon, <2>4 DEF Rest, Made, Types
\* EventOK of an event that a step of wait does not change.
<1>SameEventOK. ASSUME NEW e \in Enqueued, event'[e].refs = event[e].refs,
             event'[e].alive = event[e].alive, event'[e].done = event[e].done,
             event'[e].tasksinfo = event[e].tasksinfo, events' = events
      PROVE  EventOK(e)'
  <2> /\ e \in Enqueued
      /\ event'[e].refs = event[e].refs
      /\ event'[e].alive = event[e].alive
      /\ event'[e].done = event[e].done
      /\ event'[e].tasksinfo = event[e].tasksinfo
      /\ events' = events
    BY <1>SameEventOK
  <2>1. Types /\ EventOK(e)
    BY Zenon, IInvParts DEF Rest
  <2>2. /\ \A b \in Actors : Place(b)' = Place(b)
        /\ UNCHANGED <<poolVars, cmdVars, call, scan>>
    BY Zenon, <2>1, <1>WaitControl
  <2>3. Grows
    BY <2>1, <1>WaitTypes
  <2>   Enqueued' = Enqueued /\ released' = released /\ hostRan' = hostRan /\ cmd' = cmd
        /\ finished' = finished
    BY <2>2 DEF cmdVars, poolVars, Enqueued
  <2>5. \A t \in Threads : call'[t] = call[t] /\ Place(t)' = Place(t)
    BY Zenon, <2>2, ThreadActor
  <2>   TasksOf(e)' = TasksOf(e) /\ (Complete(e) => Complete(e)')
    BY Zenon, <2>3, GrowsTasks
  <2>   /\ Made(e)' <=> Made(e)
        /\ Past(e)' <=> Past(e)
        /\ Free(e)' <=> Free(e)
        /\ \A t \in Threads : (Retains(t, e)' <=> Retains(t, e))
                              /\ (Deletes(t, e)' <=> Deletes(t, e))
    BY Zenon, <2>3, <2>5, CallsKeep
  <2>8. Ready(e)' <=> Ready(e)
    BY Zenon DEF Ready
  <2>9. (\E t \in Threads : Retains(t, e)') <=> (\E t \in Threads : Retains(t, e))
    BY Zenon
  <2> QED BY ZenonT(40), <2>1, <2>8, <2>9 DEF EventOK
\* The head of the list is waited for, and nothing happens to the events.
<1>WaitedIInv. ASSUME Waited(a), UNCHANGED <<events, event>>, NEW h, h = Head(todo[a]),
             event[h].done
      PROVE  IInv'
  <2> /\ Waited(a)
      /\ UNCHANGED <<events, event>>
      /\ h = Head(todo[a])
      /\ event[h].done
    BY Zenon, <1>WaitedIInv
  <2>1. Types /\ todo[a] # <<>>
    BY IInvParts, <1>WaitControl
  <2>2. /\ h \in Enqueued /\ todo[a] \in Seq(Ids)
        /\ InSeq(todo[a]) = {h} \cup InSeq(Tail(todo[a]))
    BY Zenon, <2>1, <1>WaitedEvent
  <2>3. pc[a] \in Waiting /\ Place(a) \notin Waiting
    BY Zenon, <2>1, TypesParts, <1>PlaceNotWaiting DEF Types, ActorOK
  <2>4. pc'[a] \in {"wait", then[a]} /\ todo'[a] = Tail(todo[a])
    <3>1. a \in DOMAIN pc /\ a \in DOMAIN todo
      BY Zenon, <2>1 DEF Types, TypeOK
    <3> QED BY Zenon, <3>1 DEF Waited, Goto
  <2>5. pc'[a] # "callback"
    BY Zenon, <2>3, <2>4 DEF Waiting, Place
  <2>6. EventOK(h)'
    BY Zenon, <2>2, <1>SameEventOK
  <2>7. /\ InSeq(todo'[a]) \subseteq InSeq(todo[a])
        /\ \A e \in InSeq(todo[a]) : e \in InSeq(todo'[a]) \/ event'[e].done
    BY ZenonT(40), <2>2, <2>4
  <2>8. /\ \A e \in Enqueued \ {h} :
             /\ event'[e].refs = event[e].refs /\ event'[e].alive = event[e].alive
             /\ event'[e].done = event[e].done /\ event'[e].tasksinfo = event[e].tasksinfo
             /\ \A q \in Queues : e \in events'[q] <=> e \in events[q]
        /\ \A q \in Queues : events'[q] \subseteq events[q]
        /\ event[h].done => event'[h].done
    BY Zenon
  <2>9. WaitEffect(a, h)
    BY Zenon, <2>5, <2>6, <2>7, <2>8 DEF WaitEffect
  <2> QED BY Zenon, <2>9, <1>WaitStep
<1>LockEventIInv. ASSUME LockEvent(a)
      PROVE  IInv'
  <2> LockEvent(a)
    BY <1>LockEventIInv
  <2>1. Types /\ todo[a] # <<>>
    BY IInvParts, <1>WaitControl
  <2>2. PICK h : h = Head(todo[a])
    OBVIOUS
  <2>3. h \in Enqueued /\ h \in Ids
    BY Zenon, <2>1, <2>2, <1>WaitedEvent
  <2>   event' = [event EXCEPT ![h].mutex = a] /\ events' = events /\ todo' = todo
    BY Zenon, <2>2 DEF LockEvent
  <2>5. pc'[a] # "callback"
    <3>1. a \in DOMAIN pc
      BY <2>1 DEF Types, TypeOK
    <3> QED BY <3>1 DEF LockEvent, Goto
  <2>   \A e \in Enqueued :
          /\ event'[e].refs = event[e].refs /\ event'[e].alive = event[e].alive
          /\ event'[e].done = event[e].done /\ event'[e].tasksinfo = event[e].tasksinfo
    BY <2>1, <2>3, EnqueuedIds DEF Types, TypeOK
  <2>7. EventOK(h)'
    BY Zenon, <2>3, <1>SameEventOK
  <2>8. WaitEffect(a, h)
    BY Zenon, <2>3, <2>5, <2>7 DEF WaitEffect
  <2> QED BY Zenon, <2>8, <1>WaitStep
<1>WaitAllIInv. ASSUME WaitAll(a)
      PROVE  IInv'
  <2> WaitAll(a)
    BY <1>WaitAllIInv
  <2>1. Types /\ todo[a] # <<>>
    BY IInvParts, <1>WaitControl
  <2>2. PICK h : h = Head(todo[a])
    OBVIOUS
  <2>3. h \in Enqueued /\ h \in Ids /\ Made(h) /\ Past(h) /\ EventOK(h) /\ CommandOK(h)
    BY Zenon, <2>1, <2>2, <1>WaitedEvent
  <2>4. /\ event' = [event EXCEPT ![h].done = TRUE, ![h].mutex = None]
        /\ events' = [events EXCEPT ![cmd[h].q] = @ \ {h}]
        /\ todo' = todo /\ event[h].tasksinfo \subseteq finished
    BY Zenon, <2>2 DEF WaitAll
  <2>5. /\ \A e \in Enqueued \ {h} :
             /\ event'[e].refs = event[e].refs /\ event'[e].alive = event[e].alive
             /\ event'[e].done = event[e].done /\ event'[e].tasksinfo = event[e].tasksinfo
        /\ event'[h].refs = event[h].refs /\ event'[h].alive = event[h].alive
        /\ event'[h].done /\ event'[h].tasksinfo = event[h].tasksinfo
    <3>1. event \in [Ids -> EventType] /\ Enqueued \subseteq Ids
      BY Zenon, <2>1, EventIs, EnqueuedIds
    <3> QED BY ZenonT(40), <2>3, <2>4, <3>1, DoneSet
  <2>6. /\ \A q \in Queues : events'[q] \subseteq events[q]
        /\ \A e \in Enqueued \ {h} : \A q \in Queues : e \in events'[q] <=> e \in events[q]
        /\ \A q \in Queues : h \notin events'[q]
    <3>1. \A q \in Queues : events'[q] = IF q = cmd[h].q THEN events[q] \ {h} ELSE events[q]
      BY Zenon, <2>1, <2>4 DEF Types, TypeOK
    <3>2. \A q \in Queues : q # cmd[h].q => h \notin events[q]
      BY Zenon, <2>3 DEF EventOK
    <3> QED BY Zenon, <3>1, <3>2
  <2>7. EventOK(h)'
    <3>1. Complete(h)
      BY Zenon, <2>3, <2>4, ReadyComplete DEF EventOK
    <3>2. /\ \A b \in Actors : Place(b)' = Place(b)
          /\ UNCHANGED <<poolVars, cmdVars, call, scan>>
      BY Zenon, <2>1, <1>WaitControl
    <3>3. Grows
      BY <2>1, <1>WaitTypes
    <3>   Enqueued' = Enqueued /\ released' = released /\ hostRan' = hostRan /\ cmd' = cmd
          /\ finished' = finished
      BY <3>2 DEF cmdVars, poolVars, Enqueued
    <3>5. \A t \in Threads : call'[t] = call[t] /\ Place(t)' = Place(t)
      BY Zenon, <3>2, ThreadActor
    <3>   TasksOf(h)' = TasksOf(h) /\ Complete(h)'
      BY Zenon, <2>3, <3>1, <3>3, GrowsTasks
    <3>   /\ Made(h)' <=> Made(h)
          /\ Past(h)' <=> Past(h)
          /\ Free(h)' <=> Free(h)
          /\ \A t \in Threads : (Retains(t, h)' <=> Retains(t, h))
                                /\ (Deletes(t, h)' <=> Deletes(t, h))
      BY Zenon, <2>3, <3>3, <3>5, CallsKeep
    <3>8. Ready(h)'
      BY Zenon, <2>3, <2>5 DEF Ready, EventOK
    <3>9. (\E t \in Threads : Retains(t, h)') <=> (\E t \in Threads : Retains(t, h))
      BY Zenon
    <3> QED BY Zenon, <2>3, <2>5, <2>6, <3>8, <3>9 DEF EventOK
  <2>8. WaitEffect(a, h)
    BY ZenonT(40), <2>2, <2>3, <2>4, <2>5, <2>6, <2>7 DEF WaitEffect
  <2> QED BY Zenon, <2>8, <1>WaitStep
<1>1. GoalOK(a)
  BY IInvParts DEF Rest
<1>2. CASE AlreadyDone(a)
  BY Zenon, <1>2, <1>WaitedIInv DEF AlreadyDone, eventVars
<1>3. CASE LockEvent(a)
  BY <1>3, <1>LockEventIInv
<1>4. CASE WaitAll(a)
  BY <1>4, <1>WaitAllIInv
<1>5. CASE Callback(a)
  BY Zenon, <1>1, <1>5, <1>WaitedIInv DEF Callback, GoalOK
<1> QED BY Zenon, <1>2, <1>3, <1>4, <1>5 DEF Wait

-----------------------------------------------------------------------------
\* Steps that leave all actors where they are

LEMMA AsideIInv ==
  ASSUME IInv, Types', Grows, \A b \in Actors : Still(b),
         UNCHANGED <<tasks, busy, finished, events, event, cmdVars, call>>
  PROVE  IInv'
<1>1. TasksOnce /\ Rest
  BY IInvParts
<1>2. \A b \in Actors : Place(b)' = Place(b)
  BY Zenon, StillPlace
<1>3. /\ \A u \in Threads : call'[u] = call[u] /\ Place(u)' = Place(u)
      /\ \A w \in Workers : Place(w)' = "body" => Place(w) = "body"
  BY Zenon, <1>2, ThreadActor, WorkerActor
<1>4. TasksOnce'
  BY Zenon, <1>1, <1>3, OnceKeep
<1>5. Enqueued' = Enqueued /\ released' = released /\ hostRan' = hostRan
  BY DEF cmdVars, Enqueued
<1> DEFINE A == {}
           E == {}
<1>6. /\ \A b \in Actors \cap A : GoalOK(b)'
      /\ \A t \in Threads \cap A : FinishTruthful(t)'
      /\ \A e \in E \cap Enqueued : EventOK(e)' /\ (event[e].done => event'[e].done)
  OBVIOUS
<1> HIDE DEF A, E
<1>7. Quiet(A, E)
  BY Zenon, <1>3, <1>5, <1>6 DEF Quiet
<1> QED BY Zenon, <1>4, <1>7, QuietIInv

LEMMA StopIInv == ASSUME IInv, Stop PROVE IInv'
<1> Types /\ TasksOnce /\ Rest
  BY IInvParts
<1>StopTypes. Types' /\ Grows /\ \A b \in Actors : Still(b)
  <2>   PoolTypes /\ EventTypes /\ CallTypes
    BY TypesParts
  <2>   UNCHANGED <<tasks, numTasks, busy, finished, eventVars, cmdVars, control, call, scan>>
    BY DEF Stop
  <2>3. PoolTypes'
    <3>1. stopping' \in 0 .. NumThreads
      BY PoolAssumption DEF PoolTypes, Stop
    <3>2. isRunning' \in [Workers -> BOOLEAN]
      BY Zenon DEF PoolTypes, Stop
    <3> QED BY <3>1, <3>2 DEF PoolTypes
  <2>4. EventTypes' /\ CallTypes'
    BY DEF EventTypes, CallTypes, eventVars, cmdVars, Enqueued
  <2> QED BY Zenon, <2>3, <2>4, QuietTypes
<1>1. Types' /\ Grows /\ \A b \in Actors : Still(b)
  BY IInvParts, <1>StopTypes
<1>2. UNCHANGED <<tasks, busy, finished, events, event, cmdVars, call>>
  BY Zenon DEF Stop, eventVars
<1> QED BY Zenon, <1>1, <1>2, AsideIInv

LEMMA BestWorkerIInv == ASSUME IInv, NEW t \in Threads, BestWorker(t) PROVE IInv'
<1> Types /\ TasksOnce /\ Rest
  BY IInvParts
<1>BestWorkerTypes. Types' /\ Grows /\ \A b \in Actors : Still(b)
  <2>   PoolTypes /\ EventTypes /\ CallTypes
    BY TypesParts
  <2>2. UNCHANGED <<poolVars, eventVars, cmdVars, control, call>>
    BY DEF BestWorker
  <2>3. PoolTypes' /\ EventTypes'
    BY ZenonT(40), <2>2 DEF PoolTypes, EventTypes, poolVars, eventVars
  <2>4. scan' \in [Threads -> ScanType]
    <3>   scan[t].next \in Nat \ {0} /\ scan[t].best \in Workers
      BY DEF CallTypes, ScanType
    <3>   scan[t].next \in Workers /\ scan[t].next + 1 \in Nat \ {0}
      BY PoolAssumption DEF BestWorker, Workers
    <3>3. (IF numTasks[scan[t].next] < numTasks[scan[t].best] THEN scan[t].next
           ELSE scan[t].best) \in Workers
      OBVIOUS
    <3> QED BY Zenon, <3>3 DEF BestWorker, CallTypes, ScanType
  <2>5. CallTypes'
    BY <2>2, <2>4 DEF CallTypes, cmdVars, Enqueued
  <2> QED BY Zenon, <2>2, <2>3, <2>5, QuietTypes DEF poolVars
<1>1. Types' /\ Grows /\ \A b \in Actors : Still(b)
  BY IInvParts, <1>BestWorkerTypes
<1>2. UNCHANGED <<tasks, busy, finished, events, event, cmdVars, call>>
  BY Zenon DEF BestWorker, eventVars, poolVars
<1> QED BY Zenon, <1>1, <1>2, AsideIInv

LEMMA CallRejectedIInv == ASSUME IInv, NEW t \in Threads, CallRejected(t) PROVE IInv'
<1> Types /\ TasksOnce /\ Rest
  BY IInvParts
<1>CallRejectedTypes. Types' /\ Grows /\ \A b \in Actors : Still(b)
  <2>1. PoolTypes /\ EventTypes /\ CallTypes
    BY TypesParts
  <2>   /\ UNCHANGED <<poolVars, events, event, cmdVars, control, call, scan>>
        /\ \E k \in Kernels : localArgs' = [localArgs EXCEPT ![k] = @ + 1]
    BY Zenon DEF CallRejected
  <2>3. PoolTypes' /\ EventTypes' /\ CallTypes'
    BY <2>1 DEF PoolTypes, EventTypes, CallTypes, poolVars, cmdVars, Enqueued
  <2> QED BY Zenon, <2>3, QuietTypes DEF poolVars
<1>1. Types' /\ Grows /\ \A b \in Actors : Still(b)
  BY IInvParts, <1>CallRejectedTypes
<1>2. UNCHANGED <<tasks, busy, finished, events, event, cmdVars, call>>
  BY Zenon DEF CallRejected, poolVars
<1> QED BY Zenon, <1>1, <1>2, AsideIInv

=============================================================================
