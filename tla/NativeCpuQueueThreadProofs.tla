--------------------- MODULE NativeCpuQueueThreadProofs ---------------------
(***************************************************************************)
(* Proofs about NativeCpuQueue, second part: the steps of a call that      *)
(* schedule tasks and that create, register, finish and release events     *)
(* preserve IInv.                                                          *)
(***************************************************************************)
EXTENDS NativeCpuQueueWorkerProofs

\* The provers of the leaves that name none
USE ZenonT(20), SMTT(15), Z3T(15)

LEMMA InSeqAppend ==
  ASSUME NEW S, NEW s \in Seq(S), NEW x \in S
  PROVE  InSeq(Append(s, x)) = InSeq(s) \cup {x}
<1>   /\ Len(Append(s, x)) = Len(s) + 1 /\ Append(s, x)[Len(s) + 1] = x
      /\ \A n \in 1 .. Len(s) : Append(s, x)[n] = s[n]
      /\ Len(s) \in Nat
  OBVIOUS
<1>2. \A y \in InSeq(Append(s, x)) : y \in InSeq(s) \cup {x}
  BY SMTT(20) DEF InSeq
<1>3. \A y \in InSeq(s) : y \in InSeq(Append(s, x))
  BY SMTT(20) DEF InSeq
<1>4. x \in InSeq(Append(s, x))
  BY DEF InSeq
<1> QED BY <1>2, <1>3, <1>4

LEMMA DistinctAppend ==
  ASSUME NEW S, NEW s \in Seq(S), NEW x \in S, Distinct(s), x \notin InSeq(s)
  PROVE  Distinct(Append(s, x))
<1>1. /\ Len(Append(s, x)) = Len(s) + 1 /\ Append(s, x)[Len(s) + 1] = x
      /\ \A n \in 1 .. Len(s) : Append(s, x)[n] = s[n]
      /\ Len(s) \in Nat
  OBVIOUS
<1> QED BY SMTT(20), <1>1 DEF Distinct, InSeq

\* So a command has as many tasks, and a command that runs in its call none.
LEMMA NumTasksType ==
  ASSUME NEW i, CommandOK(i)
  PROVE  NumTasks(i) \in Nat /\ NumTasks(i) <= NumThreads
\* A launch has at most one task for each worker.
<1>NumRangesType. ASSUME NEW grid \in Grids
      PROVE  NumRanges[grid] \in 0 .. NumThreads
  <2> grid \in Grids
    BY <1>NumRangesType
  <2> DEFINE perThread == NumWG(grid) \div NumThreads
             remainder == NumWG(grid) - perThread * NumThreads
             Used(n) == /\ \A t \in 0 .. n - 1 : RangeSize(grid, t) > 0
                        /\ n = NumThreads \/ RangeSize(grid, n) = 0
             used == CHOOSE n \in 0 .. NumThreads : Used(n)
  <2>   /\ NumThreads \in Nat /\ NumThreads > 0
        /\ grid[1] \in Nat /\ grid[2] \in Nat /\ grid[3] \in Nat
    BY PoolAssumption, GridAssumption
  <2>2. NumWG(grid) \in Nat
    <3>1. grid[1] * grid[2] \in Nat
      OBVIOUS
    <3> QED BY <3>1 DEF NumWG
  <2>3. perThread \in Nat /\ perThread * NumThreads \in Nat
    BY <2>2
  <2>5. \E n \in 0 .. NumThreads : Used(n)
    <3>1. CASE perThread = 0
      <4>1. \A n \in Nat : n \div NumThreads = 0 => n < NumThreads
        OBVIOUS
      <4>2. remainder = NumWG(grid)
        BY <2>2, <3>1
      <4>   remainder \in 0 .. NumThreads
        <5>1. NumWG(grid) < NumThreads
          BY <2>2, <3>1, <4>1
        <5>2. NumWG(grid) \in 0 .. NumThreads
          BY <2>2, <5>1
        <5> QED BY <4>2, <5>2
      <4>4. Used(remainder)
        <5>1. \A t \in 0 .. remainder - 1 : RangeSize(grid, t) > 0
          BY <3>1 DEF RangeSize
        <5>2. RangeSize(grid, remainder) = 0
          BY <3>1 DEF RangeSize
        <5> QED BY <5>1, <5>2
      <4> QED BY <4>4
    <3>2. CASE perThread # 0
      <4>1. Used(NumThreads)
        BY <2>3, <3>2 DEF RangeSize
      <4> QED BY <4>1
    <3> QED BY <3>1, <3>2
  <2>   used \in 0 .. NumThreads /\ Used(used)
    BY <2>5
  <2>8. NumRanges[grid] = used
    <3>1. Len(Ranges(grid)) = used
      BY DEF Ranges
    <3> QED BY <3>1 DEF NumRanges
  <2> HIDE DEF used
  <2> QED BY <2>8
<1>   NumThreads \in Nat /\ NumThreads >= 1
  BY PoolAssumption
<1>2. CASE cmd[i].op = "kernel"
  BY <1>2, <1>NumRangesType DEF CommandOK, NumTasks
<1>3. CASE cmd[i].op = "copy"
  BY <1>3 DEF NumTasks
<1>4. CASE cmd[i].op = "sync"
  BY <1>4 DEF NumTasks
<1> QED BY <1>2, <1>3, <1>4 DEF CommandOK, Enqueues

\* A step of the thread t, given what it does to the call itself.
LEMMA ThreadTypes ==
  ASSUME Types, NEW t \in Threads, NEW label, NEW s, GoesTo(t, label, s), Grows,
         UNCHANGED poolVars, EventTypes', CallTypes', CallOK(t)',
         \A i \in Enqueued' \ Enqueued : CommandOK(i)',
         \A u \in Threads \ {t} : call'[u] = call[u],
         \A u \in Threads \ {t} : call[u].op = "finish" /\ Place(u) = "unref"
                                    => call[u].part \notin released',
         call'[t].q \in {call[t].q, None} \/ \A u \in Threads \ {t} : call[u].q # call'[t].q,
         \/ call'[t].op \notin {"finish", "release"}
         \/ /\ call'[t].op = call[t].op /\ call'[t].q = call[t].q
            /\ call[t].op = "release" => call'[t].part = call[t].part
         \/ \A u \in Threads \ {t} : KeepsApart(t, u)' /\ KeepsApart(u, t)'
  PROVE  Types'
<1>   PoolTypes /\ PoolOK /\ CallsApart
  BY TypesParts DEF Types
<1>2. Control' /\ (\A u \in Threads \ {t} : Still(u)) /\ \A w \in Workers : Still(w)
  BY ThreadActor DEF GoesTo
<1>3. CallsApart'
  <2>1. \A u \in Threads : call[u].op = "release" =>
          cmd'[call[u].part].q = cmd[call[u].part].q
    BY DEF Types, CallOK, Grows, Same
  <2>2. ASSUME NEW u \in Threads, NEW v \in Threads, u # v PROVE KeepsApart(u, v)'
    <3>1. CASE u # t /\ v # t
      BY SMTT(20), <2>1, <2>2, <3>1 DEF CallsApart, KeepsApart
    <3>2. CASE (u = t \/ v = t) /\ call'[t].op \notin {"finish", "release"}
      BY <3>2 DEF KeepsApart
    <3>3. CASE /\ call'[t].op = call[t].op /\ call'[t].q = call[t].q
               /\ call[t].op = "release" => call'[t].part = call[t].part
      BY SMTT(20), <2>1, <2>2, <3>3 DEF CallsApart, KeepsApart
    <3>4. CASE \A w \in Threads \ {t} : KeepsApart(t, w)' /\ KeepsApart(w, t)'
      BY <2>2, <3>1, <3>4
    <3> QED BY <3>1, <3>2, <3>3, <3>4
  <2>3. ASSUME NEW u \in Threads, NEW v \in Threads, u # v, call'[u].q = call'[v].q
        PROVE  call'[u].q = None
    BY ZenonT(40), <2>3 DEF CallsApart
  <2> QED BY <2>2, <2>3 DEF CallsApart
<1>4. PoolTypes' /\ PoolOK'
  <2>1. PoolTypes'
    BY DEF PoolTypes, poolVars
  <2> QED BY <1>2, <2>1, PoolKeep DEF poolVars
<1>5. \A u \in Threads \cap {t} : CallOK(u)'
  OBVIOUS
<1> QED BY <1>2, <1>3, <1>4, <1>5, StepTypes

\* The event that a call of urQueueFinish retains is not released by a step that
\* releases none.
LEMMA RetainedKept ==
  ASSUME Types, released' = released, NEW u \in Threads,
         call[u].op = "finish" /\ Place(u) = "unref"
  PROVE  call[u].part \notin released'
BY DEF Types, CallOK

LEMMA EnqueuedNotZero == \A j \in Enqueued : j # 0
BY DEF Enqueued

LEMMA PartSet ==
  ASSUME call \in [Threads -> CallType], NEW t \in Threads, NEW n \in Nat,
         call' = [call EXCEPT ![t].part = n]
  PROVE  /\ call' \in [Threads -> CallType]
         /\ \A u \in Threads \ {t} : call'[u] = call[u]
         /\ call'[t].part = n /\ call'[t].op = call[t].op /\ call'[t].q = call[t].q
         /\ call'[t].id = call[t].id /\ call'[t].before = call[t].before
BY DEF CallType

\* What CallOK says of a call that enqueues a command.
EnqueueCall(t) ==
  /\ call[t].op \in Enqueues /\ Place(t) \in Places(call[t].op)
  /\ call[t].id \in Enqueued
  /\ cmd[call[t].id].op = call[t].op /\ cmd[call[t].id].q = call[t].q
  /\ Place(t) = "create" => cmd[call[t].id].event
  /\ Place(t) = "bestWorker" => call[t].part \in 1 .. NumTasks(call[t].id)
  /\ call[t].before = {}

LEMMA EnqueueCallOK == ASSUME NEW t PROVE EnqueueCall(t) => CallOK(t)
<1> SUFFICES ASSUME EnqueueCall(t) PROVE CallOK(t)
  OBVIOUS
<1>1. call[t].op \notin {"none", "wait", "finish", "release"}
  BY DEF EnqueueCall, Enqueues
<1>2. call[t].id # 0
  BY DEF EnqueueCall, Enqueued
<1> QED BY <1>1, <1>2 DEF EnqueueCall, CallOK

\* A step of t to a later place of the same call.
LEMMA CallGoesOn ==
  ASSUME Types, NEW t \in Threads, NEW label, NEW s, GoesTo(t, label, s),
         label \in Places(call[t].op) \ {"create", "bestWorker", "unref"},
         UNCHANGED <<poolVars, commands, cmd, released, call, scan>>,
         hostRan \subseteq hostRan', hostRan' \subseteq Enqueued, EventTypes'
  PROVE  Types' /\ Grows
<1>1. CallTypes /\ CallOK(t) /\ released \subseteq Enqueued
  BY TypesParts DEF Types
<1>2. Enqueued' = Enqueued
  BY DEF Enqueued
<1>3. Grows
  BY <1>2 DEF Grows, Same, poolVars
<1>4. CallTypes'
  BY <1>1, <1>2 DEF CallTypes
<1>5. CallOK(t)'
  <2>1. Place(t)' = label
    BY DEF GoesTo
  <2>2. call[t].op = "finish" /\ Place(t) = "unref" => call[t].part \notin released'
    BY RetainedKept
  <2> QED BY <1>1, <1>3, <2>1, <2>2, GrowsCall
<1>6. \A u \in Threads \ {t} : call[u].op = "finish" /\ Place(u) = "unref"
                                 => call[u].part \notin released'
  BY RetainedKept
<1> QED BY <1>2, <1>3, <1>4, <1>5, <1>6, ThreadTypes

LEMMA TasksOfType ==
  ASSUME Types, NEW i \in Enqueued
  PROVE  i \in Ids /\ TasksOf(i) \subseteq Tasks
<1>1. i \in Ids
  BY SMTT(20), BoundAssumption DEF Enqueued, Ids, Types, TypeOK
<1>2. NumTasks(i) \in Nat /\ NumTasks(i) <= NumThreads
  BY NumTasksType DEF Types
<1> QED BY <1>1, <1>2, PoolAssumption DEF TasksOf, Tasks, Workers

-----------------------------------------------------------------------------
\* Steps of the threads

\* Only the thread t acts, and the pool finishes no task.

Alone(t, label, s) ==
  /\ GoesTo(t, label, s)
  /\ \A u \in Threads \ {t} : call'[u] = call[u]
  /\ UNCHANGED <<busy, finished>>

LEMMA AloneOthers ==
  ASSUME NEW t \in Threads, NEW label, NEW s, Alone(t, label, s), NEW u \in Threads \ {t}
  PROVE  /\ call'[u] = call[u] /\ Place(u)' = Place(u)
         /\ \A e : (Retains(u, e)' <=> Retains(u, e)) /\ (Deletes(u, e)' <=> Deletes(u, e))
<1>   Still(u) /\ call'[u] = call[u]
  BY ThreadActor DEF Alone, GoesTo
<1>2. Place(u)' = Place(u)
  BY StillPlace
<1> QED BY <1>2 DEF Retains, Deletes

LEMMA AloneCommands ==
  ASSUME Grows, NEW t \in Threads, NEW label, NEW s, Alone(t, label, s),
         NEW e \in Enqueued, e # call[t].id, e # call'[t].id
  PROVE  /\ Made(e)' <=> Made(e)
         /\ Past(e)' <=> Past(e)
         /\ Free(e)' <=> Free(e)
<1>1. \A u \in Threads :
        /\ call'[u].id = e <=> call[u].id = e
        /\ call[u].id = e => Place(u)' = Place(u)
  BY AloneOthers
<1>2. e \in Enqueued' /\ cmd'[e].event = cmd[e].event
  BY DEF Grows, Same
<1> QED BY <1>1, <1>2 DEF Made, Past, Free

\* What the step of the thread t does, to the events of E in particular.
ThreadEffect(t, E) ==
  /\ call'[t].id \in Enqueued =>
       /\ call'[t].id = call[t].id
       /\ Place(t) = "return" => Place(t)' = "return"
       /\ Place(t)' = "create" => Place(t) = "create"
  /\ GoalOK(t)' /\ FinishTruthful(t)'
  /\ \A e \in E \cap Enqueued : EventOK(e)' /\ (Made(e) /\ event[e].done => event'[e].done)
  /\ \A e \in Enqueued \ E :
       /\ event'[e].refs = event[e].refs /\ event'[e].alive = event[e].alive
       /\ event'[e].done = event[e].done /\ event'[e].tasksinfo = event[e].tasksinfo
       /\ \A q \in Queues : e \in events'[q] <=> e \in events[q]
       /\ e # call[t].id /\ e # call'[t].id
       /\ ~Retains(t, e) /\ ~Retains(t, e)' /\ ~Deletes(t, e) /\ ~Deletes(t, e)'
  /\ \A e \in released' \ released :
       /\ e \in E /\ \A b \in Actors \ {t} : e \notin InSeq(todo[b])
       /\ \A i \in Enqueued : e \in InSeq(cmd[i].list) => Complete(i) /\ Free(i)
  /\ \A i \in Enqueued : cmd[i].q \in InOrderQueues /\ Free(i)' /\ ~Free(i) => Complete(i)
  /\ \A i \in Enqueued' \ Enqueued : EventOK(i)' /\ NeedsOK(i)'
  /\ \A q \in Queues : events'[q] \subseteq Enqueued'
  /\ \A i \in hostRan' \ hostRan : i \in Enqueued /\ \A j \in cmd[i].needs : Complete(j)

LEMMA ThreadIInv ==
  ASSUME IInv, Types', TasksOnce', Grows, NEW t \in Threads, NEW label, NEW s,
         Alone(t, label, s), NEW E, ThreadEffect(t, E)
  PROVE  IInv'
<1>1. Types /\ Rest
  BY IInvParts
<1>2. \A u \in Threads \ {t} :
        /\ call'[u] = call[u] /\ Place(u)' = Place(u)
        /\ \A e : (Retains(u, e)' <=> Retains(u, e)) /\ (Deletes(u, e)' <=> Deletes(u, e))
  BY AloneOthers
<1>3. Onward
  BY <1>2 DEF Onward, ThreadEffect
<1>4. DoneKept
  BY DEF DoneKept, ThreadEffect
<1>5. Keeps
  BY <1>3, <1>4 DEF Keeps
<1>6. \A b \in Actors \ {t} : Rests(b)
  BY <1>2 DEF Rests, Alone, GoesTo
<1>7. ASSUME NEW e \in Enqueued \ E PROVE Untouched(e)
  <2>   /\ event'[e].refs = event[e].refs /\ event'[e].alive = event[e].alive
        /\ event'[e].done = event[e].done /\ event'[e].tasksinfo = event[e].tasksinfo
        /\ \A q \in Queues : e \in events'[q] <=> e \in events[q]
        /\ e # call[t].id /\ e # call'[t].id
        /\ ~Retains(t, e) /\ ~Retains(t, e)' /\ ~Deletes(t, e) /\ ~Deletes(t, e)'
        /\ e \in released' => e \in released
    BY <1>7 DEF ThreadEffect
  <2>2. (Made(e)' <=> Made(e)) /\ (Past(e)' <=> Past(e))
    BY AloneCommands
  <2>3. \A u \in Threads : (Retains(u, e)' <=> Retains(u, e)) /\ (Deletes(u, e)' <=> Deletes(u, e))
    BY <1>2
  <2> QED BY <2>2, <2>3 DEF Untouched
<1>8. \A e \in Enqueued : Untouched(e) \/ EventOK(e)'
  BY <1>7 DEF ThreadEffect
<1>9. \A b \in Actors \ {t} : InSeq(todo[b]) \cap (released' \ released) = {}
  BY DEF ThreadEffect
<1>10. \A i \in Enqueued : \A e \in InSeq(cmd[i].list) :
         e \in released' \ released => Complete(i) /\ Free(i)
  BY DEF ThreadEffect
<1>11. \A r \in finished' \ finished : r[1] \in Enqueued /\ \A j \in cmd[r[1]].needs : Complete(j)
  BY DEF Alone
<1>12. /\ \A b \in Actors \cap {t} : GoalOK(b)'
       /\ \A u \in Threads \cap {t} : FinishTruthful(u)'
  BY DEF ThreadEffect
<1>13. /\ \A i \in Enqueued : cmd[i].q \in InOrderQueues /\ Free(i)' /\ ~Free(i) => Complete(i)
       /\ \A i \in Enqueued' \ Enqueued : EventOK(i)' /\ NeedsOK(i)'
       /\ \A q \in Queues : events'[q] \subseteq Enqueued'
       /\ \A i \in hostRan' \ hostRan : i \in Enqueued /\ \A j \in cmd[i].needs : Complete(j)
  BY DEF ThreadEffect
<1>14. ActorsStep({t})
  BY <1>5, <1>6, <1>8, <1>9, <1>10, <1>11, <1>12, <1>13 DEF ActorsStep
<1> QED BY <1>14, StepIInv

\* A step of a thread that makes no command, returns from no call that made one
\* and releases no event.
LEMMA CalmEffect ==
  ASSUME NEW t \in Threads, NEW label, NEW s, Alone(t, label, s), Grows,
         Enqueued' = Enqueued, released' = released, call'[t].id = call[t].id,
         Place(t) = "return" => label = "return", label # "create",
         GoalOK(t)', FinishTruthful(t)', NEW E,
         \A e \in E \cap Enqueued : EventOK(e)' /\ (Made(e) /\ event[e].done => event'[e].done),
         \A e \in Enqueued \ E :
           /\ event'[e].refs = event[e].refs /\ event'[e].alive = event[e].alive
           /\ event'[e].done = event[e].done /\ event'[e].tasksinfo = event[e].tasksinfo
           /\ \A q \in Queues : e \in events'[q] <=> e \in events[q]
           /\ e # call[t].id
           /\ ~Retains(t, e) /\ ~Retains(t, e)' /\ ~Deletes(t, e) /\ ~Deletes(t, e)',
         \A q \in Queues : events'[q] \subseteq Enqueued,
         \A i \in hostRan' \ hostRan : i \in Enqueued /\ \A j \in cmd[i].needs : Complete(j)
  PROVE  ThreadEffect(t, E)
<1>1. Place(t)' = label
  BY DEF Alone, GoesTo
<1>2. \A i \in Enqueued : Free(i)' <=> Free(i)
  <2>1. \A u \in Threads \ {t} : call'[u].id = call[u].id
    BY DEF Alone
  <2>2. \A u \in Threads : call'[u].id = call[u].id
    BY <2>1
  <2> QED BY <2>2 DEF Free
<1>3. /\ \A e \in released' \ released :
           /\ e \in E /\ \A b \in Actors \ {t} : e \notin InSeq(todo[b])
           /\ \A i \in Enqueued : e \in InSeq(cmd[i].list) => Complete(i) /\ Free(i)
      /\ \A i \in Enqueued' \ Enqueued : EventOK(i)' /\ NeedsOK(i)'
  OBVIOUS
<1> QED BY <1>1, <1>2, <1>3 DEF ThreadEffect

\* The calls of other threads are about other queues.
LEMMA OwnQueue ==
  ASSUME Types, NEW t \in Threads, call[t].q \in Queues, NEW u \in Threads \ {t}
  PROVE  call[u].q # call[t].q
<1>1. None \notin Queues
  BY NamesAssumption
<1> QED BY <1>1 DEF Types, CallsApart

\* No call of another thread makes, retains or deletes the event e.
Sole(t, e) ==
  \A u \in Threads \ {t} : call[u].id # e /\ ~Retains(u, e) /\ ~Deletes(u, e)

\* No call of another thread makes a command of the queue that t uses, or retains one.
LEMMA OthersIds ==
  ASSUME Types, NEW e \in Enqueued, NEW u \in Threads, call[u].q # cmd[e].q
  PROVE  call[u].id # e /\ ~Retains(u, e)
<1>   CallOK(u) /\ e # 0
  BY SMTT(20) DEF Types, Enqueued
<1>2. call[u].id # e
  BY DEF CallOK
<1> QED BY <1>2 DEF CallOK, Retains

\* The call that makes the command e is alone with it,
LEMMA SoleEnqueue ==
  ASSUME IInv, NEW t \in Threads, call[t].op \in Enqueues, NEW e, e = call[t].id
  PROVE  Sole(t, e)
<1>1. Types /\ Rest /\ CallOK(t)
  BY IInvParts DEF Types
<1>2. e \in Enqueued /\ cmd[e].q = call[t].q /\ cmd[e].q \in Queues /\ EventOK(e)
  BY ZenonT(40), <1>1 DEF CallOK, Rest, Types, CommandOK
<1>3. e \notin released
  BY <1>2 DEF EventOK, Free
<1>4. ASSUME NEW u \in Threads \ {t}
      PROVE  call[u].id # e /\ ~Retains(u, e) /\ ~Deletes(u, e)
  <2>1. call[u].q # cmd[e].q /\ CallOK(u)
    BY <1>1, <1>2, <1>4, OwnQueue DEF Types
  <2>2. ~Deletes(u, e)
    BY <1>3, <2>1 DEF CallOK, Deletes
  <2> QED BY <1>1, <1>2, <2>1, <2>2, OthersIds
<1> QED BY <1>4 DEF Sole

\* so is urQueueFinish with an event of its queue,
LEMMA SoleFinish ==
  ASSUME Types, NEW t \in Threads, call[t].op = "finish", NEW e \in Enqueued,
         cmd[e].q = call[t].q
  PROVE  Sole(t, e)
<1>1. CallOK(t) /\ CallsApart /\ call[t].q \in Queues
  BY DEF Types, CallOK
<1>2. ASSUME NEW u \in Threads \ {t}
      PROVE  call[u].id # e /\ ~Retains(u, e) /\ ~Deletes(u, e)
  <2>1. call[u].q # cmd[e].q
    BY <1>1, <1>2, OwnQueue
  <2>2. ~Deletes(u, e)
    BY <1>1, <1>2 DEF CallsApart, KeepsApart, Deletes
  <2> QED BY <2>1, <2>2, OthersIds
<1> QED BY <1>2 DEF Sole

\* and the release with its event.
LEMMA SoleRelease ==
  ASSUME Types, NEW t \in Threads, call[t].op = "release", NEW e, e = call[t].part, Free(e)
  PROVE  Sole(t, e)
<1>1. ASSUME NEW u \in Threads \ {t}
      PROVE  call[u].id # e /\ ~Retains(u, e) /\ ~Deletes(u, e)
  <2>1. CallOK(u) /\ KeepsApart(t, u)
    BY <1>1 DEF Types, CallsApart
  <2> QED BY <2>1 DEF KeepsApart, CallOK, Retains, Deletes, Free
<1> QED BY <1>1 DEF Sole

\* A step of the thread t, which is alone with the command e.
LEMMA OwnCommand ==
  ASSUME Types, Grows, NEW t \in Threads, NEW label, NEW s, Alone(t, label, s),
         NEW e \in Enqueued, Sole(t, e)
  PROVE  /\ Past(e) <=> (call[t].id = e => Place(t) = "return")
         /\ Past(e)' <=> (call'[t].id = e => label = "return")
         /\ Made(e) <=> cmd[e].event /\ (call[t].id = e => Place(t) # "create")
         /\ Made(e)' <=> cmd[e].event /\ (call'[t].id = e => label # "create")
         /\ Free(e) <=> call[t].id # e
         /\ Free(e)' <=> call'[t].id # e
         /\ (\E u \in Threads : Retains(u, e)) <=> Retains(t, e)
         /\ (\E u \in Threads : Retains(u, e)') <=> Retains(t, e)'
         /\ (\E u \in Threads : Deletes(u, e)) <=> Deletes(t, e)
         /\ (\E u \in Threads : Deletes(u, e)') <=> Deletes(t, e)'
<1>1. ASSUME NEW u \in Threads \ {t}
      PROVE  call[u].id # e /\ ~Retains(u, e) /\ ~Deletes(u, e)
  BY <1>1 DEF Sole
<1>2. ASSUME NEW u \in Threads \ {t}
      PROVE  call'[u].id # e /\ ~Retains(u, e)' /\ ~Deletes(u, e)'
  BY <1>1, <1>2, AloneOthers
<1>3. Place(t)' = label
  BY DEF Alone, GoesTo
<1>4. e \in Enqueued' /\ cmd'[e].event = cmd[e].event
  BY DEF Grows, Same
<1>5. /\ Past(e) <=> (call[t].id = e => Place(t) = "return")
      /\ Past(e)' <=> (call'[t].id = e => label = "return")
  BY <1>1, <1>2, <1>3 DEF Past
<1>6. /\ Made(e) <=> cmd[e].event /\ (call[t].id = e => Place(t) # "create")
      /\ Made(e)' <=> cmd[e].event /\ (call'[t].id = e => label # "create")
  BY <1>1, <1>2, <1>3, <1>4 DEF Made
<1>7. (Free(e) <=> call[t].id # e) /\ (Free(e)' <=> call'[t].id # e)
  BY <1>1, <1>2 DEF Free
<1>8. /\ (\E u \in Threads : Retains(u, e)) <=> Retains(t, e)
      /\ (\E u \in Threads : Retains(u, e)') <=> Retains(t, e)'
      /\ (\E u \in Threads : Deletes(u, e)) <=> Deletes(t, e)
      /\ (\E u \in Threads : Deletes(u, e)') <=> Deletes(t, e)'
  BY <1>1, <1>2
<1> QED BY <1>5, <1>6, <1>7, <1>8

\* A step of the call that makes the command e, once its event is made.
LEMMA EnqueueEvent ==
  ASSUME IInv, Grows, NEW t \in Threads, NEW label, NEW s, Alone(t, label, s),
         NEW e, e = call[t].id, call[t].op \in Enqueues,
         call'[t].op = call[t].op, call'[t].id = e, released' = released,
         label = "return" => Ready(e)', label # "create",
         cmd[e].event => /\ event'[e].refs = 1 /\ event'[e].alive
                         /\ event'[e].done => Complete(e)',
         \A q \in Queues : e \in events'[q] <=> cmd[e].event /\ cmd[e].q = q /\ ~event'[e].done
  PROVE  EventOK(e)'
<1>1. Types /\ Rest /\ CallOK(t)
  BY IInvParts DEF Types
<1>   e \in Enqueued /\ cmd[e].q = call[t].q /\ EventOK(e) /\ CommandOK(e)
  BY ZenonT(40), <1>1 DEF CallOK, Rest, Types
<1>3. Sole(t, e)
  BY SoleEnqueue
<1>   /\ Past(e)' <=> label = "return"
      /\ Made(e)' <=> cmd[e].event
      /\ ~Free(e)
      /\ (\E u \in Threads : Retains(u, e)') <=> Retains(t, e)'
      /\ (\E u \in Threads : Deletes(u, e)') <=> Deletes(t, e)'
  <2>1. /\ Past(e)' <=> (call'[t].id = e => label = "return")
        /\ Made(e)' <=> cmd[e].event /\ (call'[t].id = e => label # "create")
        /\ Free(e) <=> call[t].id # e
        /\ (\E u \in Threads : Retains(u, e)') <=> Retains(t, e)'
        /\ (\E u \in Threads : Deletes(u, e)') <=> Deletes(t, e)'
    BY SMT, Z3, <1>1, <1>3, OwnCommand
  <2> QED BY <2>1
<1>5. ~Retains(t, e)' /\ ~Deletes(t, e)'
  BY DEF Retains, Deletes, Enqueues
<1>6. e \notin released'
  BY DEF EventOK
<1>7. cmd'[e].q = cmd[e].q /\ cmd'[e].event = cmd[e].event
  BY DEF Grows, Same
<1>8. \A u \in Threads : ~Deletes(u, e)' /\ ~Retains(u, e)'
  BY <1>5
<1> QED BY <1>6, <1>7, <1>8 DEF EventOK

\* What holds of the command e that the call of t makes, from its creation on.
InTheMaking(t, e) ==
  /\ e \in Enqueued /\ e \notin released /\ cmd[e].q = call[t].q /\ cmd[e].q \in Queues
  /\ CommandOK(e) /\ EventOK(e) /\ ~Free(e) /\ (Made(e) <=> cmd[e].event)
  /\ Place(t) = "return" => Past(e) /\ Ready(e)
  /\ cmd[e].event => event[e].refs = 1 /\ event[e].alive
  /\ \A q \in Queues : e \in events[q] <=> cmd[e].event /\ cmd[e].q = q /\ ~event[e].done

\* Before the step.
LEMMA EnqueueEventBefore ==
  ASSUME IInv, NEW t \in Threads, NEW e, e = call[t].id, call[t].op \in Enqueues,
         Place(t) # "create"
  PROVE  InTheMaking(t, e)
<1>1. Types /\ Rest /\ CallOK(t)
  BY IInvParts DEF Types
<1>   e \in Enqueued /\ cmd[e].q = call[t].q /\ EventOK(e) /\ CommandOK(e) /\ cmd[e].q \in Queues
  BY <1>1 DEF CallOK, Rest, Types, CommandOK
<1>4. \A u \in Threads \ {t} : call[u].id # e /\ ~Retains(u, e)
  BY SoleEnqueue DEF Sole
<1>   ~Free(e) /\ (Made(e) <=> cmd[e].event) /\ (Place(t) = "return" => Past(e))
  BY <1>4 DEF Free, Made, Past
<1>6. ~Retains(t, e)
  BY DEF Retains, Enqueues
<1>7. ~\E u \in Threads : Retains(u, e)
  BY <1>4, <1>6
<1>8. e \notin released
  BY DEF EventOK
<1> QED BY <1>7, <1>8 DEF EventOK, InTheMaking

\* A call that makes the command e goes on to label.
GoesOn(t, e, label) ==
  /\ e = call[t].id /\ call[t].op \in Enqueues /\ call'[t].op = call[t].op /\ call'[t].id = e
  /\ Enqueued' = Enqueued /\ released' = released
  /\ Place(t) # "return" /\ label # "create"
  /\ label = "return" => Ready(e)'
  /\ cmd[e].event => /\ event'[e].refs = 1 /\ event'[e].alive
                     /\ event'[e].done => Complete(e)'
  /\ Made(e) /\ event[e].done => event'[e].done
  /\ \A q \in Queues : e \in events'[q] <=> cmd[e].event /\ cmd[e].q = q /\ ~event'[e].done
  /\ \A j \in Enqueued \ {e} :
       /\ event'[j].refs = event[j].refs /\ event'[j].alive = event[j].alive
       /\ event'[j].done = event[j].done /\ event'[j].tasksinfo = event[j].tasksinfo
       /\ \A q \in Queues : j \in events'[q] <=> j \in events[q]
  /\ \A q \in Queues : events'[q] \subseteq Enqueued
  /\ \A i \in hostRan' \ hostRan : i \in Enqueued /\ \A j \in cmd[i].needs : Complete(j)

LEMMA GoesOnIInv ==
  ASSUME IInv, Types', TasksOnce', Grows, NEW t \in Threads, NEW label, NEW s,
         Alone(t, label, s), GoalOK(t)', NEW e, GoesOn(t, e, label)
  PROVE  IInv'
<1>1. EventOK(e)'
  <2>1. /\ e = call[t].id /\ call[t].op \in Enqueues
        /\ call'[t].op = call[t].op /\ call'[t].id = e /\ released' = released
        /\ label = "return" => Ready(e)'
        /\ label # "create"
        /\ cmd[e].event => /\ event'[e].refs = 1 /\ event'[e].alive
                           /\ event'[e].done => Complete(e)'
        /\ \A q \in Queues : e \in events'[q] <=> cmd[e].event /\ cmd[e].q = q /\ ~event'[e].done
    BY DEF GoesOn
  <2> QED BY <2>1, EnqueueEvent
<1>2. FinishTruthful(t)'
  BY DEF GoesOn, FinishTruthful, Enqueues
<1>3. \A j : ~Retains(t, j) /\ ~Retains(t, j)' /\ ~Deletes(t, j) /\ ~Deletes(t, j)'
  BY DEF GoesOn, Enqueues, Retains, Deletes
<1> DEFINE E == {e}
<1>4. /\ \A j \in E \cap Enqueued : EventOK(j)' /\ (Made(j) /\ event[j].done => event'[j].done)
      /\ \A j \in Enqueued \ E :
           /\ event'[j].refs = event[j].refs /\ event'[j].alive = event[j].alive
           /\ event'[j].done = event[j].done /\ event'[j].tasksinfo = event[j].tasksinfo
           /\ \A q \in Queues : j \in events'[q] <=> j \in events[q]
           /\ j # call[t].id
           /\ ~Retains(t, j) /\ ~Retains(t, j)' /\ ~Deletes(t, j) /\ ~Deletes(t, j)'
  BY <1>1, <1>3 DEF GoesOn
<1>5. /\ Enqueued' = Enqueued /\ released' = released /\ call'[t].id = call[t].id
      /\ Place(t) = "return" => label = "return"
      /\ label # "create"
      /\ \A q \in Queues : events'[q] \subseteq Enqueued
      /\ \A i \in hostRan' \ hostRan : i \in Enqueued /\ \A j \in cmd[i].needs : Complete(j)
  BY DEF GoesOn
<1> HIDE DEF E
<1>6. ThreadEffect(t, E)
  BY <1>2, <1>4, <1>5, CalmEffect
<1> QED BY <1>6, ThreadIInv

LEMMA NoWaits ==
  ASSUME NEW a, Place(a)' \notin {"body", "count", "function", "unref", "delete", "return"},
         todo'[a] = <<>>, pc'[a] # "callback"
  PROVE  GoalOK(a)'
<1>1. ~Waits(a)'
  BY DEF Waits
<1> QED BY <1>1, NoWaitGoal

\* What Schedule does: the task n of the command i goes to the worker w.
Schedules(t, i, w, n) ==
  /\ Place(t) = "bestWorker" /\ todo[t] = <<>> /\ call[t].op \in {"kernel", "copy"}
  /\ i \in Enqueued /\ cmd[i].op = call[t].op /\ cmd[i].q = call[t].q
  /\ w \in Workers /\ n \in 1 .. NumTasks(i) /\ NumTasks(i) \in Nat
  /\ <<i, n>> \in Tasks
  /\ tasks' = [tasks EXCEPT ![w] = Append(tasks[w], <<i, n>>)]
  /\ numTasks' = [numTasks EXCEPT ![w] = numTasks[w] + 1]
  /\ call' = [call EXCEPT ![t].part = n + 1]
  /\ GoesTo(t, IF n = NumTasks(i) THEN "setTasksinfo" ELSE "bestWorker", <<>>)
  /\ scan' = [scan EXCEPT ![t] = NoScan]
  /\ UNCHANGED <<isRunning, busy, finished, stopping, eventVars, cmdVars>>

LEMMA ScheduleIInv == ASSUME IInv, NEW t \in Threads, Schedule(t) PROVE IInv'
<1> Types /\ TasksOnce /\ Rest
  BY IInvParts
<1>ScheduleStep. ASSUME NEW i, i = call[t].id, NEW w, w = scan[t].best, NEW n,
             n = call[t].part
      PROVE  Schedules(t, i, w, n)
  <2> /\ i = call[t].id
      /\ w = scan[t].best
      /\ n = call[t].part
    BY <1>ScheduleStep
  <2>1. /\ pc[t] = "bestWorker" /\ pc[t] \notin Waiting
        /\ tasks' = [tasks EXCEPT ![w] = Append(tasks[w], <<i, n>>)]
        /\ numTasks' = [numTasks EXCEPT ![w] = numTasks[w] + 1]
        /\ call' = [call EXCEPT ![t].part = n + 1]
        /\ Goto(t, IF n = NumTasks(i) THEN "setTasksinfo" ELSE "bestWorker")
        /\ scan' = [scan EXCEPT ![t] = NoScan]
        /\ UNCHANGED <<todo, then>>
        /\ UNCHANGED <<isRunning, busy, finished, stopping, eventVars, cmdVars>>
    BY DEF Schedule, Waiting
  <2>2. /\ t \in Actors /\ Control /\ todo[t] = <<>> /\ Place(t) = "bestWorker"
        /\ CallOK(t) /\ call[t].op \in AllOps \cup {"none"}
    BY <2>1, ThreadAt
  <2>3. call[t].op \in {"kernel", "copy"}
    BY <2>2, PlaceOp
  <2>4. /\ i \in Enqueued /\ cmd[i].op = call[t].op /\ cmd[i].q = call[t].q
        /\ n \in 1 .. NumTasks(i)
    BY <2>2, <2>3 DEF CallOK, Enqueues
  <2>5. w \in Workers
    BY TypesParts DEF CallTypes, ScanType
  <2>6. NumTasks(i) \in Nat /\ TasksOf(i) \subseteq Tasks
    BY <2>4, NumTasksType, TasksOfType DEF Types
  <2>7. <<i, n>> \in Tasks
    BY <2>4, <2>6 DEF TasksOf
  <2>8. GoesTo(t, IF n = NumTasks(i) THEN "setTasksinfo" ELSE "bestWorker", <<>>)
    <3>1. (IF n = NumTasks(i) THEN "setTasksinfo" ELSE "bestWorker") \in Labels \ Waiting
      BY DEF Labels, Waiting
    <3> QED BY <2>1, <2>2, <3>1, GotoMoves
  <2> QED BY <2>1, <2>2, <2>3, <2>4, <2>5, <2>6, <2>7, <2>8 DEF Schedules
<1>ScheduleTypes. Types' /\ Grows
  <2>0. PICK i, w, n : i = call[t].id /\ w = scan[t].best /\ n = call[t].part
    OBVIOUS
  <2> DEFINE label == IF n = NumTasks(i) THEN "setTasksinfo" ELSE "bestWorker"
             s == <<i, n>>
  <2>1. /\ call[t].op \in {"kernel", "copy"} /\ i \in Enqueued
        /\ cmd[i].op = call[t].op /\ cmd[i].q = call[t].q
        /\ w \in Workers /\ n \in 1 .. NumTasks(i) /\ NumTasks(i) \in Nat /\ s \in Tasks
        /\ tasks' = [tasks EXCEPT ![w] = Append(tasks[w], s)]
        /\ numTasks' = [numTasks EXCEPT ![w] = numTasks[w] + 1]
        /\ call' = [call EXCEPT ![t].part = n + 1]
        /\ GoesTo(t, label, <<>>)
        /\ scan' = [scan EXCEPT ![t] = NoScan]
        /\ UNCHANGED <<isRunning, busy, finished, stopping, eventVars, cmdVars>>
    <3>1. Schedules(t, i, w, n)
      BY <2>0, <1>ScheduleStep
    <3> QED BY <3>1 DEF Schedules
  <2>2. /\ PoolTypes /\ EventTypes /\ CallTypes /\ PoolOK /\ CallOK(t) /\ CallsApart
    BY TypesParts DEF Types
  <2>3. n \in Nat /\ n + 1 \in Nat /\ (n # NumTasks(i) => n + 1 \in 1 .. NumTasks(i))
    BY <2>1
  <2>4. TaskOK(s)
    BY <2>1 DEF TaskOK
  <2> HIDE DEF s
  <2>5. Grows
    BY <2>1, QuietGrows
  <2>6. /\ call' \in [Threads -> CallType]
        /\ \A u \in Threads \ {t} : call'[u] = call[u]
        /\ call'[t].part = n + 1 /\ call'[t].op = call[t].op /\ call'[t].q = call[t].q
        /\ call'[t].id = call[t].id /\ call'[t].before = call[t].before
    BY <2>1, <2>2, <2>3, PartSet DEF CallTypes
  <2>7. EventTypes' /\ CallTypes' /\ Enqueued' = Enqueued /\ released' = released
    <3>1. NoScan \in ScanType
      BY SMTT(20), PoolAssumption DEF NoScan, ScanType, Workers
    <3>2. scan' \in [Threads -> ScanType]
      BY <2>1, <2>2, <3>1 DEF CallTypes
    <3> QED BY <2>1, <2>2, <2>6, <3>2 DEF EventTypes, CallTypes, eventVars, cmdVars, Enqueued
  <2>8. /\ Append(tasks[w], s) \in Seq(Tasks) /\ tasks[w] \in Seq(Tasks)
        /\ InSeq(Append(tasks[w], s)) = InSeq(tasks[w]) \cup {s}
        /\ Len(Append(tasks[w], s)) = Len(tasks[w]) + 1 /\ Len(tasks[w]) \in Nat
    <3>1. tasks[w] \in Seq(Tasks)
      BY <2>1, <2>2 DEF PoolTypes
    <3> QED BY SMTT(20), <2>1, <3>1, InSeqAppend
  <2>9. /\ tasks'[w] = Append(tasks[w], s) /\ numTasks'[w] = numTasks[w] + 1
        /\ \A v \in Workers \ {w} : tasks'[v] = tasks[v] /\ numTasks'[v] = numTasks[v]
    BY <2>1, <2>2 DEF PoolTypes
  <2>10. PoolTypes'
    <3>1. tasks' \in [Workers -> Seq(Tasks)]
      BY <2>1, <2>2, <2>8 DEF PoolTypes
    <3>2. numTasks' \in [Workers -> Nat]
      BY SMTT(20), <2>1, <2>2 DEF PoolTypes
    <3> QED BY <2>1, <2>2, <3>1, <3>2 DEF PoolTypes
  <2>11. ASSUME NEW v \in Workers PROVE WorkerOK(v)'
    <3>1. Place(v)' = Place(v) /\ busy'[v] = busy[v] /\ WorkerOK(v)
      BY <2>1, <2>2, ThreadActor, StillPlace DEF GoesTo, PoolOK
    <3>2. CASE v # w
      BY <2>9, <3>1, <3>2 DEF WorkerOK
    <3>3. CASE v = w
      <4>1. PICK k \in {0, 1} : k = (IF busy[w] = NoTask THEN 0 ELSE 1)
        OBVIOUS
      <4>2. numTasks[w] = Len(tasks[w]) + k
        BY <3>1, <3>3, <4>1 DEF WorkerOK
      <4>3. numTasks'[w] = Len(tasks'[w]) + k
        BY SMTT(20), <2>8, <2>9, <4>2
      <4> QED BY <3>1, <3>3, <4>1, <4>3 DEF WorkerOK
    <3> QED BY <3>2, <3>3
  <2>12. TasksOK'
    <3>1. TasksOK
      BY <2>2 DEF PoolOK
    <3>2. \A v \in Workers : \A r \in InSeq(tasks'[v]) : TaskOK(r)
      BY <2>4, <2>8, <2>9, <3>1 DEF TasksOK
    <3> QED BY <2>1, <2>5, <3>1, <3>2, GrowsTask DEF TasksOK
  <2>13. CallOK(t)'
    <3>1. Place(t)' = label
      BY <2>1 DEF GoesTo
    <3>2. Place(t)' \in Places(call[t].op) /\ Place(t)' # "create"
      BY <2>1, <3>1 DEF Places
    <3>3. Place(t)' = "bestWorker" => n + 1 \in 1 .. NumTasks(i)'
      BY <2>1, <2>3, <2>5, <3>1, GrowsTasks
    <3>4. cmd' = cmd /\ call[t].op \in Enqueues
      BY <2>1 DEF cmdVars, Enqueues
    <3>5. call[t].before = {}
      BY <2>1, <2>2 DEF CallOK
    <3> HIDE DEF label
    <3>6. EnqueueCall(t)'
      <4>1. i \in Enqueued /\ cmd[i].op = call[t].op /\ cmd[i].q = call[t].q
        BY <2>1
      <4> QED BY <2>0, <2>6, <2>7, <3>2, <3>3, <3>4, <3>5, <4>1 DEF EnqueueCall
    <3> QED BY <3>6, EnqueueCallOK, PTL
  <2>14. PoolOK'
    BY <2>11, <2>12 DEF PoolOK
  <2>15. CallsApart'
    <3>1. \A u \in Threads :
            /\ call'[u].op = call[u].op /\ call'[u].q = call[u].q
            /\ call[u].op = "release" => call'[u].part = call[u].part
      BY <2>1, <2>6
    <3>2. cmd' = cmd
      BY <2>1 DEF cmdVars
    <3>3. ASSUME NEW u \in Threads, NEW v \in Threads, u # v
          PROVE  (call'[u].q = call'[v].q => call'[u].q = None) /\ KeepsApart(u, v)'
      <4>1. (call[u].q = call[v].q => call[u].q = None) /\ KeepsApart(u, v)
        BY <2>2, <3>3 DEF CallsApart
      <4>2. /\ call'[u].op = call[u].op /\ call'[u].q = call[u].q
            /\ call[u].op = "release" => call'[u].part = call[u].part
            /\ call'[v].op = call[v].op /\ call'[v].q = call[v].q
            /\ call[v].op = "release" => call'[v].part = call[v].part
        BY <3>1
      <4> QED BY ZenonT(40), <3>2, <4>1, <4>2 DEF KeepsApart
    <3> QED BY <3>3 DEF CallsApart
  <2> HIDE DEF label
  <2>16. Control' /\ \A u \in Threads \ {t} : Still(u)
    BY <2>1, ThreadActor DEF GoesTo
  <2>17. \A u \in Threads \ {t} : call[u].op = "finish" /\ Place(u) = "unref"
                                   => call[u].part \notin released'
    BY <2>7, RetainedKept
  <2>18. \A u \in Threads \cap {t} : CallOK(u)'
    BY <2>13
  <2> QED BY <2>5, <2>6, <2>7, <2>10, <2>14, <2>15, <2>16, <2>17, <2>18, StepTypes
\* Two calls are never about the same command.
<1>IdsApart. ASSUME NEW u \in Threads \ {t}, call[t].op \in Enqueues
      PROVE  call[u].id # call[t].id
  <2> /\ u \in Threads \ {t}
      /\ call[t].op \in Enqueues
    BY <1>IdsApart
  <2>1. /\ CallsApart /\ CallOK(t) /\ CallOK(u) /\ \A i \in Enqueued : CommandOK(i)
    BY SMTT(30), Z3T(30) DEF Types
  <2>2. /\ call[t].id \in Enqueued /\ cmd[call[t].id].q = call[t].q
        /\ cmd[call[t].id].q \in Queues
    BY <2>1 DEF CallOK, CommandOK
  <2>3. call[t].q # None /\ call[t].id # 0
    BY SMTT(20), <2>2, NamesAssumption DEF Enqueued
  <2>4. SUFFICES ASSUME call[u].id = call[t].id PROVE FALSE
    OBVIOUS
  <2>5. call[u].op \in Enqueues /\ cmd[call[u].id].q = call[u].q
    BY <2>1, <2>3, <2>4 DEF CallOK
  <2> QED BY <2>1, <2>2, <2>3, <2>4, <2>5 DEF CallsApart
<1>ScheduleOnce. TasksOnce'
  <2>0. PICK i, w, n : i = call[t].id /\ w = scan[t].best /\ n = call[t].part
    OBVIOUS
  <2>1. PICK r : r = <<i, n>>
    OBVIOUS
  <2>2. Schedules(t, i, w, n)
    BY <2>0, <1>ScheduleStep
  <2>3. /\ w \in Workers /\ Place(t) = "bestWorker" /\ call[t].op \in {"kernel", "copy"}
        /\ tasks' = [tasks EXCEPT ![w] = Append(tasks[w], r)]
        /\ call' = [call EXCEPT ![t].part = n + 1]
        /\ UNCHANGED <<busy, finished>> /\ r \in Tasks
        /\ n \in Nat /\ i \in Enqueued /\ i = call[t].id
    BY <2>0, <2>1, <2>2 DEF Schedules
  <2>4. (\A b \in Actors \ {t} : Still(b)) /\ Place(t)' \in {"setTasksinfo", "bestWorker"}
    BY <2>2 DEF Schedules, GoesTo
  <2>5. r[1] = i /\ r[2] = n /\ r # NoTask /\ ~(n < n)
    BY <2>1, <2>3 DEF NoTask, Enqueued
  <2>6. WorkersOnce /\ Below(i, n) /\ PoolTypes /\ CallTypes
    BY <2>0, <2>3, OnceParts, TypesParts DEF ThreadOnce
  <2>7. /\ r \notin finished
        /\ \A v \in Workers : r \notin InSeq(tasks[v]) /\ r # busy[v]
    BY <2>5, <2>6 DEF Below
  <2>8. /\ InSeq(tasks'[w]) = InSeq(tasks[w]) \cup {r}
        /\ Distinct(tasks'[w])
        /\ \A v \in Workers \ {w} : tasks'[v] = tasks[v]
    <3>1. tasks[w] \in Seq(Tasks) /\ Distinct(tasks[w])
      BY <2>3, <2>6 DEF PoolTypes, WorkersOnce
    <3>2. tasks'[w] = Append(tasks[w], r) /\ \A v \in Workers \ {w} : tasks'[v] = tasks[v]
      BY <2>3, <2>6 DEF PoolTypes
    <3>3. r \in Tasks /\ r \notin InSeq(tasks[w])
      BY <2>3, <2>7
    <3>4. /\ InSeq(Append(tasks[w], r)) = InSeq(tasks[w]) \cup {r}
          /\ Distinct(Append(tasks[w], r))
      BY SMTT(20), <3>1, <3>3, InSeqAppend, DistinctAppend
    <3> QED BY <3>2, <3>4
  <2>9. \A v \in Workers : Place(v)' = Place(v)
    BY <2>4, ThreadActor, StillPlace
  <2>10. WorkersOnce'
    <3>1. ASSUME NEW v \in Workers
          PROVE  /\ Distinct(tasks'[v]) /\ InSeq(tasks'[v]) \cap finished' = {}
                 /\ Place(v)' = "body" => busy'[v] \notin finished'
      <4>1. /\ Distinct(tasks[v]) /\ InSeq(tasks[v]) \cap finished = {}
            /\ Place(v) = "body" => busy[v] \notin finished
        BY <2>6 DEF WorkersOnce
      <4> QED BY <2>3, <2>7, <2>8, <2>9, <4>1
    <3>2. ASSUME NEW v \in Workers, NEW x \in Workers
          PROVE  /\ busy'[v] \notin InSeq(tasks'[x])
                 /\ v # x => InSeq(tasks'[v]) \cap InSeq(tasks'[x]) = {}
                 /\ v # x /\ busy'[x] # NoTask => busy'[v] # busy'[x]
      <4>1. /\ busy[v] \notin InSeq(tasks[x])
            /\ v # x => InSeq(tasks[v]) \cap InSeq(tasks[x]) = {}
            /\ v # x /\ busy[x] # NoTask => busy[v] # busy[x]
        BY <2>6 DEF WorkersOnce
      <4>2. busy'[v] \notin InSeq(tasks'[x])
        BY <2>3, <2>7, <2>8, <4>1
      <4>3. ASSUME v # x PROVE InSeq(tasks'[v]) \cap InSeq(tasks'[x]) = {}
        <5>1. InSeq(tasks[v]) \cap InSeq(tasks[x]) = {}
              /\ r \notin InSeq(tasks[v]) /\ r \notin InSeq(tasks[x])
          BY <2>7, <4>1, <4>3
        <5>2. CASE v = w
          BY <2>8, <4>3, <5>1, <5>2
        <5>3. CASE x = w
          BY <2>8, <4>3, <5>1, <5>3
        <5>4. CASE v # w /\ x # w
          BY SMTT(20), <2>8, <5>1, <5>4
        <5> QED BY <5>2, <5>3, <5>4
      <4> QED BY <2>3, <4>1, <4>2, <4>3
    <3> QED BY <3>1, <3>2 DEF WorkersOnce
  <2>11. /\ \A u \in Threads \ {t} : call'[u] = call[u]
         /\ call'[t].part = n + 1 /\ call'[t].id = i
    <3>1. n + 1 \in Nat /\ call \in [Threads -> CallType]
      BY <2>3, <2>6 DEF CallTypes
    <3> QED BY <2>0, <2>3, <3>1, PartSet
  <2>12. ThreadOnce(t)'
    <3>1. Below(i, n + 1)'
      <4>1. n < n + 1 /\ \A k \in Nat : k < n => k < n + 1
        BY <2>3
      <4>2. \A p \in Tasks \cup {NoTask} : p[2] \in Nat
        BY DEF Tasks, NoTask, Workers
      <4>3. /\ finished \subseteq Tasks
            /\ \A v \in Workers : busy[v] \in Tasks \cup {NoTask}
                                 /\ InSeq(tasks[v]) \subseteq Tasks
        BY <2>6, InSeqElements DEF PoolTypes
      <4>4. /\ \A p \in finished : p[1] = i => p[2] < n + 1
            /\ \A v \in Workers : busy[v][1] = i => busy[v][2] < n + 1
        BY <2>6, <4>1, <4>2, <4>3 DEF Below
      <4>5. \A v \in Workers : \A p \in InSeq(tasks[v]) : p[1] = i => p[2] < n + 1
        BY <2>6, <4>1, <4>2, <4>3 DEF Below
      <4>6. \A v \in Workers : \A p \in InSeq(tasks'[v]) : p[1] = i => p[2] < n + 1
        BY <2>5, <2>8, <4>1, <4>5
      <4> QED BY <2>3, <4>4, <4>6 DEF Below
    <3>2. Place(t)' # "create"
      BY <2>4
    <3> QED BY <2>11, <3>1, <3>2 DEF ThreadOnce
  <2>13. ASSUME NEW u \in Threads \ {t} PROVE ThreadOnce(u)'
    <3>1. Place(u)' = Place(u) /\ call'[u] = call[u] /\ ThreadOnce(u)
      BY <2>4, <2>11, ThreadActor, StillPlace, OnceParts
    <3>2. call[u].id # i
      BY <2>3, <1>IdsApart DEF Enqueues
    <3>3. ASSUME NEW k, Below(call[u].id, k) PROVE Below(call[u].id, k)'
      BY ZenonT(40), <2>3, <2>5, <2>8, <3>1, <3>2, <3>3 DEF Below
    <3> QED BY <3>1, <3>3 DEF ThreadOnce
  <2> QED BY <2>10, <2>12, <2>13, OncePartsNext
<1>0. PICK i, w, n : i = call[t].id /\ w = scan[t].best /\ n = call[t].part
  OBVIOUS
<1>2. Types' /\ Grows /\ TasksOnce'
  BY <1>ScheduleTypes, <1>ScheduleOnce
<1>3. Schedules(t, i, w, n)
  BY <1>0, <1>ScheduleStep
<1>4. PICK label : label = IF n = NumTasks(i) THEN "setTasksinfo" ELSE "bestWorker"
  OBVIOUS
<1>5. /\ Place(t) = "bestWorker" /\ call[t].op \in {"kernel", "copy"}
      /\ call' = [call EXCEPT ![t].part = n + 1]
      /\ GoesTo(t, label, <<>>)
      /\ UNCHANGED <<busy, finished, eventVars, cmdVars>>
  BY <1>3, <1>4 DEF Schedules
<1>6. /\ call'[t].op = call[t].op /\ call'[t].id = i
      /\ \A u \in Threads \ {t} : call'[u] = call[u]
  BY <1>0, <1>5 DEF Types
<1>7. Alone(t, label, <<>>)
  BY <1>5, <1>6 DEF Alone
<1>8. GoalOK(t)'
  BY <1>4, <1>5, NoWaits DEF GoesTo
<1>9. /\ Enqueued' = Enqueued /\ released' = released /\ hostRan' = hostRan /\ cmd' = cmd
      /\ event' = event /\ events' = events
  BY <1>5 DEF eventVars, cmdVars, Enqueued
<1>10. /\ i \in Enqueued /\ EventOK(i) /\ (Made(i) <=> cmd[i].event)
       /\ cmd[i].event => event[i].refs = 1 /\ event[i].alive
       /\ \A q \in Queues : i \in events[q] <=> cmd[i].event /\ cmd[i].q = q /\ ~event[i].done
  <2>1. call[t].op \in Enqueues /\ Place(t) # "create"
    BY <1>5 DEF Enqueues
  <2>2. InTheMaking(t, i)
    BY <1>0, <2>1, EnqueueEventBefore
  <2> QED BY <2>2 DEF InTheMaking
<1>11. cmd[i].event /\ event[i].done => Complete(i)'
  BY <1>2, <1>10, GrowsTasks DEF EventOK
<1>12. label \notin {"return", "create"} /\ call[t].op \in Enqueues /\ Place(t) # "return"
  BY <1>4, <1>5 DEF Enqueues
<1>13. GoesOn(t, i, label)
  BY <1>0, <1>6, <1>9, <1>10, <1>11, <1>12 DEF GoesOn, Rest
<1> QED BY <1>2, <1>7, <1>8, <1>13, GoesOnIInv

LEMMA FunctionIInv == ASSUME IInv, NEW t \in Threads, Function(t) PROVE IInv'
<1> Types /\ TasksOnce /\ Rest
  BY IInvParts
<1>FunctionStep.
      /\ Place(t) = "function" /\ todo[t] = <<>> /\ call[t].op = "sync"
      /\ call[t].id \in Enqueued /\ cmd[call[t].id].op = "sync"
      /\ GoesTo(t, "return", <<>>)
      /\ hostRan' = hostRan \cup {call[t].id}
      /\ UNCHANGED <<poolVars, eventVars, commands, cmd, released, call, scan>>
  <2>   /\ pc[t] = "function" /\ pc[t] \notin Waiting
        /\ Goto(t, "return") /\ UNCHANGED <<todo, then>>
        /\ hostRan' = hostRan \cup {call[t].id}
        /\ UNCHANGED <<poolVars, eventVars, commands, cmd, released, call, scan>>
    BY DEF Function, Waiting
  <2>   /\ t \in Actors /\ Control /\ todo[t] = <<>> /\ Place(t) = "function"
        /\ CallOK(t) /\ call[t].op \in AllOps \cup {"none"}
    BY ThreadAt
  <2>   call[t].op = "sync"
    BY PlaceOp
  <2>4. call[t].id \in Enqueued /\ cmd[call[t].id].op = "sync"
    BY SMTT(30), Z3T(30) DEF CallOK, Enqueues
  <2>5. GoesTo(t, "return", <<>>)
    BY GotoMoves DEF Labels, Waiting
  <2> QED BY <2>4, <2>5
<1>FunctionTypes. Types' /\ Grows
  <2>   /\ call[t].op = "sync" /\ call[t].id \in Enqueued /\ GoesTo(t, "return", <<>>)
        /\ hostRan' = hostRan \cup {call[t].id}
        /\ UNCHANGED <<poolVars, eventVars, commands, cmd, released, call, scan>>
    BY <1>FunctionStep
  <2>   EventTypes /\ hostRan \subseteq Enqueued
    BY TypesParts DEF CallTypes
  <2>3. EventTypes'
    BY DEF EventTypes, eventVars
  <2>4. "return" \in Places(call[t].op) \ {"create", "bestWorker", "unref"}
    BY DEF Places
  <2>5. hostRan \subseteq hostRan' /\ hostRan' \subseteq Enqueued
    OBVIOUS
  <2> QED BY ZenonT(40), <2>3, <2>4, <2>5, CallGoesOn
<1>0. PICK e : e = call[t].id
  OBVIOUS
<1>2. Types' /\ Grows
  BY <1>FunctionTypes
<1>   /\ Place(t) = "function" /\ todo[t] = <<>> /\ call[t].op = "sync"
      /\ e \in Enqueued /\ cmd[e].op = "sync"
      /\ GoesTo(t, "return", <<>>)
      /\ hostRan' = hostRan \cup {e}
      /\ UNCHANGED <<poolVars, eventVars, commands, cmd, released, call, scan>>
  BY <1>0, <1>FunctionStep
<1>4. /\ Enqueued' = Enqueued /\ released' = released /\ cmd' = cmd
      /\ event' = event /\ events' = events /\ call' = call
      /\ busy' = busy /\ finished' = finished
  BY DEF eventVars, poolVars, Enqueued
<1>5. Alone(t, "return", <<>>)
  BY <1>4 DEF Alone
<1>6. TasksOnce'
  BY <1>4, ThreadKeepsOnce
<1>7. GoalOK(t)'
  <2>1. ~Waits(t)'
    BY <1>4 DEF Waits, GoesTo
  <2> QED BY ZenonT(40), <2>1, NoWaitGoal DEF GoesTo
<1>8. \A j \in cmd[e].needs : Complete(j)
  <2>1. Goal(t) = InSeq(cmd[e].list)
    BY <1>0, ThreadActor DEF Goal
  <2>2. Waits(t)
    BY DEF Waits
  <2>3. \A x \in InSeq(cmd[e].list) : Complete(x)
    BY <2>1, <2>2, GoalComplete, ThreadActor
  <2> QED BY <2>3, ListComplete
<1>9. Ready(e)'
  BY <1>4 DEF Ready
<1>10. /\ EventOK(e) /\ (Made(e) <=> cmd[e].event)
       /\ cmd[e].event => event[e].refs = 1 /\ event[e].alive
       /\ \A q \in Queues : e \in events[q] <=> cmd[e].event /\ cmd[e].q = q /\ ~event[e].done
  <2>1. call[t].op \in Enqueues /\ Place(t) # "create"
    BY DEF Enqueues
  <2>2. InTheMaking(t, e)
    BY <1>0, <2>1, EnqueueEventBefore
  <2> QED BY <2>2 DEF InTheMaking
<1>11. cmd[e].event /\ event[e].done => Complete(e)'
  BY <1>2, <1>10, GrowsTasks DEF EventOK
<1>12. \A i \in hostRan' \ hostRan : i \in Enqueued /\ \A j \in cmd[i].needs : Complete(j)
  BY <1>8
<1>13. call[t].op \in Enqueues
  BY DEF Enqueues
<1>14. GoesOn(t, e, "return")
  BY <1>0, <1>4, <1>9, <1>10, <1>11, <1>12, <1>13 DEF GoesOn, Rest
<1> QED BY <1>2, <1>5, <1>6, <1>7, <1>14, GoesOnIInv

LEMMA SetTasksinfoIInv == ASSUME IInv, NEW t \in Threads, SetTasksinfo(t) PROVE IInv'
<1> Types /\ TasksOnce /\ Rest
  BY IInvParts
<1>SetTasksinfoStep. ASSUME NEW e, e = call[t].id
      PROVE  /\ Place(t) = "setTasksinfo" /\ todo[t] = <<>> /\ call[t].op \in {"kernel", "copy"}
             /\ e \in Enqueued /\ e \in Ids /\ cmd[e].op = call[t].op /\ cmd[e].q = call[t].q
             /\ GoesTo(t, "return", IF cmd[e].q \in InOrderQueues THEN <<e>> ELSE <<>>)
             /\ event' = [event EXCEPT ![e].tasksinfo = TasksOf(e), ![e].callback = TRUE]
             /\ UNCHANGED <<poolVars, events, localArgs, cmdVars, call, scan>>
  <2> e = call[t].id
    BY <1>SetTasksinfoStep
  <2>1. /\ pc[t] = "setTasksinfo" /\ pc[t] \notin Waiting
        /\ event' = [event EXCEPT ![e].tasksinfo = TasksOf(e), ![e].callback = TRUE]
        /\ IF cmd[e].q \in InOrderQueues THEN WaitFor(t, <<e>>, "return")
           ELSE Goto(t, "return") /\ UNCHANGED <<todo, then>>
        /\ UNCHANGED <<poolVars, events, localArgs, cmdVars, call, scan>>
    BY DEF SetTasksinfo, Waiting
  <2>   /\ t \in Actors /\ Control /\ todo[t] = <<>> /\ Place(t) = "setTasksinfo"
        /\ CallOK(t) /\ call[t].op \in AllOps \cup {"none"}
    BY <2>1, ThreadAt
  <2>3. call[t].op \in {"kernel", "copy"}
    BY PlaceOp
  <2>4. e \in Enqueued /\ cmd[e].op = call[t].op /\ cmd[e].q = call[t].q
    BY <2>3 DEF CallOK, Enqueues
  <2>5. e \in Ids
    BY <2>4, TasksOfType
  <2>6. GoesTo(t, "return", IF cmd[e].q \in InOrderQueues THEN <<e>> ELSE <<>>)
    <3>1. CASE cmd[e].q \in InOrderQueues
      <4>1. <<e>> \in Seq(Ids)
        BY <2>5
      <4>2. GoesTo(t, "return", <<e>>)
        BY <2>1, <3>1, <4>1, WaitForMoves DEF Labels, Waiting
      <4> QED BY <3>1, <4>2
    <3>2. CASE cmd[e].q \notin InOrderQueues
      <4>1. GoesTo(t, "return", <<>>)
        BY <2>1, <3>2, GotoMoves DEF Labels, Waiting
      <4> QED BY <3>2, <4>1
    <3> QED BY <3>1, <3>2
  <2> QED BY <2>1, <2>3, <2>4, <2>5, <2>6
<1>SetTasksinfoTypes. Types' /\ Grows
  <2>0. PICK e : e = call[t].id
    OBVIOUS
  <2>   /\ call[t].op \in {"kernel", "copy"} /\ e \in Enqueued
        /\ GoesTo(t, "return", IF cmd[e].q \in InOrderQueues THEN <<e>> ELSE <<>>)
        /\ event' = [event EXCEPT ![e].tasksinfo = TasksOf(e), ![e].callback = TRUE]
        /\ UNCHANGED <<poolVars, events, localArgs, cmdVars, call, scan>>
    BY <2>0, <1>SetTasksinfoStep
  <2>2. EventTypes /\ e \in Ids /\ TasksOf(e) \subseteq Tasks /\ hostRan \subseteq Enqueued
    BY TypesParts, TasksOfType DEF CallTypes
  <2>3. EventTypes'
    <3>1. PICK T \in SUBSET Tasks : T = TasksOf(e)
      BY <2>2
    <3>2. event' = [event EXCEPT ![e].tasksinfo = T, ![e].callback = TRUE]
      BY <3>1
    <3>3. PICK r : r = [event[e] EXCEPT !.tasksinfo = T, !.callback = TRUE]
      OBVIOUS
    <3>   event \in [Ids -> EventType] /\ event[e] \in EventType
      BY <2>2 DEF EventTypes
    <3>5. r \in EventType
      BY <3>3 DEF EventType
    <3>6. event' = [event EXCEPT ![e] = r]
      BY <3>2, <3>3
    <3>7. event' \in [Ids -> EventType]
      BY <2>2, <3>5, <3>6
    <3> QED BY <2>2, <3>7 DEF EventTypes
  <2>4. "return" \in Places(call[t].op) \ {"create", "bestWorker", "unref"}
    BY DEF Places
  <2>5. UNCHANGED <<commands, cmd, released, hostRan>>
    BY DEF cmdVars
  <2> QED BY <2>2, <2>3, <2>4, <2>5, CallGoesOn
<1>0. PICK e : e = call[t].id
  OBVIOUS
<1>00. PICK list : list = IF cmd[e].q \in InOrderQueues THEN <<e>> ELSE <<>>
  OBVIOUS
<1>2. Types' /\ Grows
  BY <1>SetTasksinfoTypes
<1>   /\ Place(t) = "setTasksinfo" /\ todo[t] = <<>> /\ call[t].op \in {"kernel", "copy"}
      /\ e \in Enqueued /\ e \in Ids /\ cmd[e].op = call[t].op /\ cmd[e].q = call[t].q
      /\ GoesTo(t, "return", list)
      /\ event' = [event EXCEPT ![e].tasksinfo = TasksOf(e), ![e].callback = TRUE]
      /\ UNCHANGED <<poolVars, events, localArgs, cmdVars, call, scan>>
  BY <1>0, <1>00, <1>SetTasksinfoStep
<1>4. /\ Enqueued' = Enqueued /\ released' = released /\ cmd' = cmd /\ hostRan' = hostRan
      /\ events' = events /\ call' = call
      /\ busy' = busy /\ finished' = finished
  BY DEF cmdVars, poolVars, Enqueued
<1>5. Alone(t, "return", list)
  BY <1>4 DEF Alone
<1>6. TasksOnce'
  BY <1>4, ThreadKeepsOnce
<1>7. /\ event'[e].refs = event[e].refs /\ event'[e].alive = event[e].alive
      /\ event'[e].done = event[e].done /\ event'[e].tasksinfo = TasksOf(e)
      /\ \A j \in Enqueued \ {e} : event'[j] = event[j]
  <2>1. event \in [Ids -> EventType] /\ Enqueued \subseteq Ids
    BY EventIs, EnqueuedIds
  <2>2. SetsTasksinfo(e, TasksOf(e))
    BY DEF SetsTasksinfo
  <2>3. TasksinfoOnly(e, TasksOf(e))
    BY <2>1, <2>2, TasksinfoSet
  <2> QED BY ZenonT(40), <2>1, <2>3 DEF TasksinfoOnly
<1>8. /\ EventOK(e) /\ CommandOK(e) /\ (Made(e) <=> cmd[e].event) /\ e \notin released
      /\ cmd[e].event => event[e].refs = 1 /\ event[e].alive
      /\ \A q \in Queues : e \in events[q] <=> cmd[e].event /\ cmd[e].q = q /\ ~event[e].done
  <2>1. call[t].op \in Enqueues /\ Place(t) # "create"
    BY DEF Enqueues
  <2>2. InTheMaking(t, e)
    BY <1>0, <2>1, EnqueueEventBefore
  <2> QED BY <2>2 DEF InTheMaking
<1>9. cmd[e].event /\ cmd[e].op # "sync"
  BY <1>8 DEF CommandOK
<1>10. Ready(e)'
  <2>1. TasksOf(e)' = TasksOf(e)
    BY <1>2, GrowsTasks
  <2> QED BY <1>4, <1>7, <1>9, <2>1 DEF Ready
<1>13. call[t].op \in Enqueues
  BY DEF Enqueues
<1>11. GoalOK(t)'
  <2>1. CASE cmd[e].q \in InOrderQueues
    <3>1. call[t].op = "kernel"
      BY <1>8, <2>1 DEF CommandOK
    <3>2. Goal(t)' = {e}
      BY <1>0, <1>4, <2>1, <3>1, ThreadActor DEF Goal
    <3>3. InSeq(list) = {e} /\ todo'[t] = list /\ Place(t)' = "return" /\ pc'[t] # "callback"
      BY SMTT(20), <1>00, <2>1 DEF GoesTo, InSeq
    <3>4. Waits(t)' /\ Place(t)' # "count"
      BY <1>4, <3>1, <3>3 DEF Waits
    <3>5. Made(e)' /\ Past(e)'
      <4>1. Sole(t, e)
        BY <1>0, <1>13, SoleEnqueue
      <4>2. /\ Past(e)' <=> (call'[t].id = e => "return" = "return")
            /\ Made(e)' <=> cmd[e].event /\ (call'[t].id = e => "return" # "create")
        BY <1>2, <1>5, <4>1, OwnCommand
      <4> QED BY <1>9, <4>2
    <3> QED BY <1>4, <1>8, <3>2, <3>3, <3>4, <3>5 DEF GoalOK
  <2>2. CASE cmd[e].q \notin InOrderQueues
    <3>1. Goal(t)' = {}
      BY <1>4, <2>2, ThreadActor DEF Goal
    <3> QED BY <1>00, <2>2, <3>1, NoWaitGoal DEF GoesTo
  <2> QED BY <2>1, <2>2
<1>12. event[e].done => Complete(e)'
  BY <1>2, <1>8, <1>9, GrowsTasks DEF EventOK
<1>14. GoesOn(t, e, "return")
  <2>1. \A j \in Enqueued \ {e} :
          /\ event'[j].refs = event[j].refs /\ event'[j].alive = event[j].alive
          /\ event'[j].done = event[j].done /\ event'[j].tasksinfo = event[j].tasksinfo
          /\ \A q \in Queues : j \in events'[q] <=> j \in events[q]
    BY <1>4, <1>7
  <2>2. /\ \A q \in Queues : e \in events'[q] <=> cmd[e].event /\ cmd[e].q = q /\ ~event'[e].done
        /\ cmd[e].event => event'[e].refs = 1 /\ event'[e].alive
    BY <1>4, <1>7, <1>8
  <2>3. \A q \in Queues : events'[q] \subseteq Enqueued
    BY <1>4 DEF Rest
  <2> QED BY <1>0, <1>4, <1>7, <1>10, <1>12, <1>13, <2>1, <2>2, <2>3 DEF GoesOn
<1> QED BY <1>2, <1>5, <1>6, <1>11, <1>14, GoesOnIInv

\* Where a launch goes once it has its event: there may be no task to schedule.
FirstPlace(e) == IF NumTasks(e) = 0 THEN "setTasksinfo" ELSE "bestWorker"

LEMMA CreateIInv == ASSUME IInv, NEW t \in Threads, Create(t) PROVE IInv'
<1> Types /\ TasksOnce /\ Rest
  BY IInvParts
<1>CopiedSet. ASSUME cmd \in [Ids -> Command], NEW e \in Ids, NEW n \in Nat,
             cmd' = [cmd EXCEPT ![e].copied = n]
      PROVE  cmd' \in [Ids -> Command] /\ \A i \in Ids : Same(i)
  <2> /\ cmd \in [Ids -> Command]
      /\ e \in Ids
      /\ n \in Nat
      /\ cmd' = [cmd EXCEPT ![e].copied = n]
    BY <1>CopiedSet
  <2>1. cmd[e] \in Command
    OBVIOUS
  <2>2. PICK c : c = [cmd[e] EXCEPT !.copied = n]
    OBVIOUS
  <2>3. /\ c \in Command
        /\ c.op = cmd[e].op /\ c.q = cmd[e].q /\ c.list = cmd[e].list
        /\ c.kernel = cmd[e].kernel /\ c.grid = cmd[e].grid /\ c.event = cmd[e].event
        /\ c.needs = cmd[e].needs
    BY <2>1, <2>2 DEF Command
  <2>4. cmd' = [cmd EXCEPT ![e] = c]
    BY <2>2
  <2> QED BY <2>3, <2>4 DEF Same
\* The command's own steps.
<1>CreateStep. ASSUME NEW e, e = call[t].id
      PROVE  /\ Place(t) = "create" /\ todo[t] = <<>> /\ call[t].op \in Enqueues
             /\ e \in Enqueued /\ e \in Ids /\ cmd[e].event /\ cmd[e].q \in Queues
             /\ cmd[e].op = call[t].op /\ cmd[e].q = call[t].q
             /\ GoesTo(t, IF call[t].op = "sync" THEN "function" ELSE FirstPlace(e),
                          IF call[t].op = "sync" THEN cmd[e].list ELSE <<>>)
             /\ event' = [event EXCEPT ![e] = [NoEvent EXCEPT !.refs = 1, !.alive = TRUE]]
             /\ events' = [events EXCEPT ![cmd[e].q] = @ \cup {e}]
             /\ call' = [call EXCEPT ![t].part = 1]
             /\ UNCHANGED <<poolVars, localArgs, commands, hostRan, released>>
             /\ cmd' \in [Ids -> Command] /\ Grows
  <2> e = call[t].id
    BY <1>CreateStep
  <2>1. /\ pc[t] = "create" /\ pc[t] \notin Waiting
        /\ event' = [event EXCEPT ![e] = [NoEvent EXCEPT !.refs = 1, !.alive = TRUE]]
        /\ events' = [events EXCEPT ![cmd[e].q] = @ \cup {e}]
        /\ cmd' = IF cmd[e].op = "kernel" THEN [cmd EXCEPT ![e].copied = localArgs[cmd[e].kernel]]
                  ELSE cmd
        /\ IF cmd[e].op = "sync" THEN WaitFor(t, cmd[e].list, "function")
           ELSE Goto(t, FirstPlace(e)) /\ UNCHANGED <<todo, then>>
        /\ call' = [call EXCEPT ![t].part = 1]
        /\ UNCHANGED <<poolVars, localArgs, commands, hostRan, released>>
    BY DEF Create, FirstPlace, Waiting
  <2>2. /\ t \in Actors /\ Control /\ todo[t] = <<>> /\ Place(t) = "create" /\ CallOK(t)
        /\ call[t].op \in AllOps \cup {"none"}
    BY <2>1, ThreadAt
  <2>3. call[t].op \in Enqueues
    BY SMTT(30), Z3T(30), <2>2, PlaceOp
  <2>4. /\ e \in Enqueued /\ cmd[e].event /\ cmd[e].op = call[t].op /\ cmd[e].q = call[t].q
        /\ CommandOK(e)
    BY <2>2, <2>3 DEF CallOK, Types
  <2>5. e \in Ids /\ cmd[e].q \in Queues /\ cmd[e].list \in Seq(Ids)
    <3>1. e \in Ids
      BY SMTT(20), <2>4, BoundAssumption DEF Enqueued, Ids, Types, TypeOK
    <3> QED BY ZenonT(40), <2>4, <3>1 DEF CommandOK, Types, Command
  <2>6. GoesTo(t, IF call[t].op = "sync" THEN "function" ELSE FirstPlace(e),
                  IF call[t].op = "sync" THEN cmd[e].list ELSE <<>>)
    <3>1. CASE call[t].op = "sync"
      <4>1. GoesTo(t, "function", cmd[e].list)
        BY <2>1, <2>2, <2>4, <2>5, <3>1, WaitForMoves DEF Labels, Waiting
      <4> QED BY <3>1, <4>1
    <3>2. CASE call[t].op # "sync"
      <4>1. GoesTo(t, FirstPlace(e), <<>>)
        BY <2>1, <2>2, <2>4, <3>2, GotoMoves DEF FirstPlace, Labels, Waiting
      <4> QED BY <3>2, <4>1
    <3> QED BY <3>1, <3>2
  <2>7. cmd' \in [Ids -> Command] /\ \A i \in Ids : Same(i)
    <3>1. cmd \in [Ids -> Command]
      BY DEF Types
    <3>2. CASE cmd[e].op = "kernel"
      <4>1. localArgs[cmd[e].kernel] \in Nat
        BY <2>4, <3>2 DEF Types, TypeOK, CommandOK
      <4>2. cmd' = [cmd EXCEPT ![e].copied = localArgs[cmd[e].kernel]]
        BY <2>1, <3>2
      <4> QED BY ZenonT(40), <2>5, <3>1, <4>1, <4>2, <1>CopiedSet
    <3>3. CASE cmd[e].op # "kernel"
      BY <2>1, <3>1, <3>3 DEF Same
    <3> QED BY <3>2, <3>3
  <2>8. Grows
    <3>1. Enqueued \subseteq Ids /\ Enqueued' = Enqueued
      BY SMTT(20), <2>1, BoundAssumption DEF Enqueued, Ids, Types, TypeOK
    <3> QED BY <2>1, <2>7, <3>1 DEF Grows, poolVars
  <2> QED BY <2>1, <2>2, <2>3, <2>4, <2>5, <2>6, <2>7, <2>8
<1>CreateTypes. Types' /\ Grows
  <2>0. PICK e : e = call[t].id
    OBVIOUS
  <2> DEFINE label == IF call[t].op = "sync" THEN "function" ELSE FirstPlace(e)
  <2>1. /\ Place(t) = "create" /\ call[t].op \in Enqueues
        /\ e \in Enqueued /\ e \in Ids /\ cmd[e].q \in Queues
        /\ cmd[e].op = call[t].op /\ cmd[e].q = call[t].q
        /\ GoesTo(t, label, IF call[t].op = "sync" THEN cmd[e].list ELSE <<>>)
        /\ event' = [event EXCEPT ![e] = [NoEvent EXCEPT !.refs = 1, !.alive = TRUE]]
        /\ events' = [events EXCEPT ![cmd[e].q] = @ \cup {e}]
        /\ call' = [call EXCEPT ![t].part = 1]
        /\ UNCHANGED <<poolVars, localArgs, commands, hostRan, released>>
        /\ cmd' \in [Ids -> Command] /\ Grows
    BY <2>0, <1>CreateStep
  <2>2. EventTypes /\ CallTypes /\ CommandOK(e) /\ CallOK(t)
    BY <2>1, TypesParts DEF Types
  <2>3. /\ call' \in [Threads -> CallType]
        /\ \A u \in Threads \ {t} : call'[u] = call[u]
        /\ call'[t].part = 1 /\ call'[t].op = call[t].op /\ call'[t].q = call[t].q
        /\ call'[t].id = call[t].id /\ call'[t].before = call[t].before
    BY <2>1, <2>2, PartSet DEF CallTypes
  <2>4. EventTypes'
    <3>1. event' \in [Ids -> EventType]
      BY <2>1, <2>2 DEF EventTypes, EventType, NoEvent
    <3>2. events' \in [Queues -> SUBSET Ids]
      BY <2>1, <2>2 DEF EventTypes
    <3> QED BY <2>1, <2>2, <3>1, <3>2 DEF EventTypes
  <2>5. CallTypes'
    <3>1. scan' = [scan EXCEPT ![t] = NoScan]
      BY DEF Create
    <3>2. NoScan \in ScanType
      BY PoolAssumption DEF NoScan, ScanType, Workers
    <3>3. scan' \in [Threads -> ScanType]
      BY <2>2, <3>1, <3>2 DEF CallTypes
    <3> QED BY <2>1, <2>2, <2>3, <3>3 DEF CallTypes, Enqueued
  <2>6. CallOK(t)'
    <3>1. Place(t)' = label
      BY <2>1 DEF GoesTo
    <3>2. Place(t)' \in Places(call[t].op)
      BY SMTT(20), <2>1, <3>1 DEF Places, Enqueues, FirstPlace
    <3>3. Place(t)' # "create" /\ Place(t)' # "unref"
      BY <3>1 DEF FirstPlace
    <3>4. Place(t)' = "bestWorker" => 1 \in 1 .. NumTasks(e)'
      <4>1. NumTasks(e)' = NumTasks(e)
        BY <2>1, GrowsTasks
      <4>2. NumTasks(e) \in Nat
        BY <2>2, NumTasksType
      <4> QED BY <2>1, <3>1, <4>1, <4>2 DEF FirstPlace
    <3>5. e \in Enqueued' /\ cmd'[e].op = cmd[e].op /\ cmd'[e].q = cmd[e].q
      BY <2>1 DEF Grows, Same
    <3>6. call[t].before = {}
      BY <2>1, <2>2 DEF CallOK, Enqueues
    <3> HIDE DEF label
    <3>7. EnqueueCall(t)'
      BY <2>0, <2>1, <2>3, <3>2, <3>3, <3>4, <3>5, <3>6 DEF EnqueueCall
    <3> QED BY <3>7, EnqueueCallOK, PTL
  <2>7. Enqueued' = Enqueued
    BY <2>1 DEF Enqueued
  <2>8. \A u \in Threads \ {t} : call[u].op = "finish" /\ Place(u) = "unref"
                                   => call[u].part \notin released'
    BY <2>1, RetainedKept
  <2>9. call'[t].op \notin {"finish", "release"}
    BY <2>1, <2>3 DEF Enqueues
  <2> HIDE DEF label
  <2> QED BY <2>1, <2>3, <2>4, <2>5, <2>6, <2>7, <2>8, <2>9, ThreadTypes
<1>CreateOnce. TasksOnce'
  <2>0. PICK e : e = call[t].id
    OBVIOUS
  <2> DEFINE label == IF call[t].op = "sync" THEN "function" ELSE FirstPlace(e)
  <2>1. /\ Place(t) = "create" /\ call' = [call EXCEPT ![t].part = 1]
        /\ GoesTo(t, label, IF call[t].op = "sync" THEN cmd[e].list ELSE <<>>)
        /\ UNCHANGED poolVars
    BY <2>0, <1>CreateStep
  <2>2. /\ \A u \in Threads \ {t} : call'[u] = call[u]
        /\ call'[t].part = 1 /\ call'[t].op = call[t].op /\ call'[t].id = call[t].id
    BY <2>1, TypesParts, PartSet DEF CallTypes
  <2>3. ThreadOnce(t)'
    <3>1. Place(t)' # "create"
      BY <2>1 DEF GoesTo, FirstPlace
    <3>2. ASSUME call[t].op \in {"kernel", "copy"} PROVE Below(call[t].id, 1)'
      <4>1. Below(call[t].id, 1)
        BY <2>1, <3>2, OnceParts DEF ThreadOnce
      <4> QED BY <2>1, <2>2, <4>1 DEF Below, poolVars
    <3> QED BY <2>2, <3>1, <3>2 DEF ThreadOnce
  <2> QED BY <2>1, <2>2, <2>3, ThreadKeepsOnce
<1>0. PICK e : e = call[t].id
  OBVIOUS
<1>00. PICK label, list :
         /\ label = IF call[t].op = "sync" THEN "function" ELSE FirstPlace(e)
         /\ list = IF call[t].op = "sync" THEN cmd[e].list ELSE <<>>
  OBVIOUS
<1>2. Types' /\ Grows /\ TasksOnce'
  BY <1>CreateTypes, <1>CreateOnce
<1>3. /\ Place(t) = "create" /\ todo[t] = <<>> /\ call[t].op \in Enqueues
      /\ e \in Enqueued /\ e \in Ids /\ cmd[e].event /\ cmd[e].q \in Queues
      /\ cmd[e].op = call[t].op /\ cmd[e].q = call[t].q
      /\ GoesTo(t, label, list)
      /\ event' = [event EXCEPT ![e] = [NoEvent EXCEPT !.refs = 1, !.alive = TRUE]]
      /\ events' = [events EXCEPT ![cmd[e].q] = @ \cup {e}]
      /\ call' = [call EXCEPT ![t].part = 1]
      /\ UNCHANGED <<poolVars, localArgs, commands, hostRan, released>>
  BY <1>0, <1>00, <1>CreateStep
<1>4. /\ Enqueued' = Enqueued /\ released' = released /\ hostRan' = hostRan
      /\ busy' = busy /\ finished' = finished
  BY <1>3 DEF poolVars, Enqueued
<1>5. /\ call'[t].op = call[t].op /\ call'[t].id = e
      /\ \A u \in Threads \ {t} : call'[u] = call[u]
  BY <1>0, <1>3 DEF Types
<1>6. Alone(t, label, list)
  BY <1>3, <1>4, <1>5 DEF Alone
<1>7. /\ event'[e].refs = 1 /\ event'[e].alive /\ event'[e].done = FALSE
      /\ \A j \in Enqueued \ {e} : event'[j] = event[j]
  BY <1>3, EnqueuedIds DEF Types, TypeOK, NoEvent
<1>8. Sole(t, e)
  BY <1>0, <1>3, SoleEnqueue
<1>9. EventOK(e) /\ ~Made(e) /\ ~Free(e)
  <2>1. /\ Made(e) <=> cmd[e].event /\ (call[t].id = e => Place(t) # "create")
        /\ Free(e) <=> call[t].id # e
    BY <1>2, <1>3, <1>6, <1>8, OwnCommand
  <2> QED BY <1>0, <1>3, <2>1 DEF Rest
<1>10. /\ \A q \in Queues : e \in events'[q] <=> cmd[e].q = q
       /\ \A j \in Enqueued \ {e} : \A q \in Queues : j \in events'[q] <=> j \in events[q]
       /\ \A q \in Queues : events'[q] \subseteq Enqueued
  <2>1. \A q \in Queues : events'[q] = IF q = cmd[e].q THEN events[q] \cup {e} ELSE events[q]
    BY <1>3 DEF Types, TypeOK
  <2>2. \A q \in Queues : e \notin events[q] /\ events[q] \subseteq Enqueued
    BY <1>9 DEF EventOK, Rest
  <2>3. \A q \in Queues : \A j : j \in events'[q] <=> j \in events[q] \/ (q = cmd[e].q /\ j = e)
    BY <2>1
  <2> QED BY <1>3, <2>2, <2>3
<1>11. GoalOK(t)'
  <2>1. CASE call[t].op = "sync"
    <3>1. label = "function" /\ list = cmd[e].list
      BY <1>00, <2>1
    <3>2. Goal(t)' = InSeq(list)
      <4>1. cmd'[e].list = cmd[e].list
        BY <1>2, <1>3 DEF Grows, Same
      <4> QED BY <1>5, <2>1, <3>1, <4>1, ThreadActor DEF Goal
    <3>3. todo'[t] = list /\ Place(t)' = "function" /\ pc'[t] # "callback"
      BY <1>3, <3>1 DEF GoesTo
    <3>4. Waits(t)' /\ Place(t)' # "count"
      BY <3>3 DEF Waits
    <3>5. ASSUME NEW x \in InSeq(list) PROVE Made(x)' /\ Past(x)' /\ x \notin released'
      <4>1. x \in Enqueued /\ Made(x) /\ Past(x) /\ Free(x) /\ x \notin released
        BY <1>3, <1>9, <3>1, <3>5, ListWaits
      <4>2. x # call[t].id /\ x # call'[t].id
        BY ZenonT(40), <1>0, <1>5, <1>9, <4>1
      <4>3. (Made(x)' <=> Made(x)) /\ (Past(x)' <=> Past(x))
        BY <1>2, <1>6, <4>1, <4>2, AloneCommands
      <4> QED BY <1>4, <4>1, <4>3
    <3> QED BY <3>2, <3>3, <3>4, <3>5 DEF GoalOK
  <2>2. CASE call[t].op # "sync"
    <3>1. label \in {"setTasksinfo", "bestWorker"} /\ list = <<>>
      BY <1>00, <2>2 DEF FirstPlace
    <3> QED BY <1>3, <3>1, NoWaits DEF GoesTo
  <2> QED BY <2>1, <2>2
<1>12. GoesOn(t, e, label)
  <2>1. \A j \in Enqueued \ {e} :
          /\ event'[j].refs = event[j].refs /\ event'[j].alive = event[j].alive
          /\ event'[j].done = event[j].done /\ event'[j].tasksinfo = event[j].tasksinfo
          /\ \A q \in Queues : j \in events'[q] <=> j \in events[q]
    BY <1>7, <1>10
  <2>2. /\ \A q \in Queues : e \in events'[q] <=> cmd[e].event /\ cmd[e].q = q /\ ~event'[e].done
        /\ event'[e].done => Complete(e)'
    BY <1>3, <1>7, <1>10
  <2>3. Place(t) # "return" /\ label # "create" /\ label # "return"
    BY <1>00, <1>3 DEF FirstPlace
  <2> QED BY <1>0, <1>3, <1>4, <1>5, <1>7, <1>9, <1>10, <2>1, <2>2, <2>3 DEF GoesOn
<1> QED BY <1>2, <1>6, <1>11, <1>12, GoesOnIInv

LEMMA NotReturning == ASSUME NEW t, Place(t)' # "return" PROVE FinishTruthful(t)'
BY DEF FinishTruthful, Place, Waiting

\* A step of urQueueFinish or urEventRelease about the event e.
LEMMA EventStep ==
  ASSUME IInv, Types', TasksOnce', Grows, NEW t \in Threads, NEW label, NEW s,
         Alone(t, label, s),
         label # "create", Place(t) # "return",
         call[t].op \in {"finish", "release"}, call'[t].id = 0, NEW e, e \in Enqueued,
         \A j : j # e => ~Retains(t, j) /\ ~Retains(t, j)' /\ ~Deletes(t, j) /\ ~Deletes(t, j)',
         UNCHANGED <<events, cmdVars>>,
         \A j \in Enqueued \ {e} : event'[j] = event[j],
         EventOK(e)', event'[e].done = event[e].done,
         GoalOK(t)', FinishTruthful(t)'
  PROVE  IInv'
<1>1. Rest /\ CallOK(t)
  BY ZenonT(40), IInvParts DEF Types
<1>2. call[t].id = 0 /\ \A j \in Enqueued : j # 0
  <2>1. call[t].op \notin Enqueues
    BY DEF Enqueues
  <2>2. \A j \in Enqueued : j # 0
    BY EnqueuedNotZero
  <2> QED BY <1>1, <2>1, <2>2 DEF CallOK
<1>   Enqueued' = Enqueued /\ released' = released /\ hostRan' = hostRan
  BY DEF cmdVars, Enqueued
<1> DEFINE E == {e}
<1>4. /\ \A j \in E \cap Enqueued : EventOK(j)' /\ (Made(j) /\ event[j].done => event'[j].done)
      /\ \A j \in Enqueued \ E :
           /\ event'[j].refs = event[j].refs /\ event'[j].alive = event[j].alive
           /\ event'[j].done = event[j].done /\ event'[j].tasksinfo = event[j].tasksinfo
           /\ \A q \in Queues : j \in events'[q] <=> j \in events[q]
           /\ j # call[t].id
           /\ ~Retains(t, j) /\ ~Retains(t, j)' /\ ~Deletes(t, j) /\ ~Deletes(t, j)'
  BY <1>2
<1>5. /\ \A q \in Queues : events'[q] \subseteq Enqueued
      /\ \A i \in hostRan' \ hostRan : i \in Enqueued /\ \A j \in cmd[i].needs : Complete(j)
      /\ call'[t].id = call[t].id
  BY <1>1, <1>2 DEF Rest
<1> HIDE DEF E
<1>6. ThreadEffect(t, E)
  BY <1>4, <1>5, CalmEffect
<1> QED BY ZenonT(40), <1>6, ThreadIInv

LEMMA FinishEvent ==
  ASSUME IInv, NEW t \in Threads, call[t].op = "finish", call[t].q \in Queues,
         Place(t) = "finish", NEW e \in events[call[t].q]
  PROVE  /\ e \in Enqueued /\ e \notin released /\ cmd[e].q = call[t].q /\ Made(e)
         /\ EventOK(e) /\ event[e].refs = 1 /\ event[e].alive /\ ~event[e].done
<1>1. Types /\ Rest
  BY IInvParts
<1>2. e \in Enqueued
  BY <1>1 DEF Rest
<1>3. EventOK(e) /\ Made(e) /\ cmd[e].q = call[t].q /\ ~event[e].done
  BY <1>1, <1>2 DEF Rest, EventOK
<1>4. ~Retains(t, e) /\ ~Deletes(t, e)
  BY DEF Retains, Deletes
<1>5. \A u \in Threads \ {t} : ~Retains(u, e) /\ ~Deletes(u, e)
  BY <1>1, <1>2, <1>3, SoleFinish DEF Sole
<1>6. \A u \in Threads : ~Retains(u, e) /\ ~Deletes(u, e)
  BY ZenonT(40), <1>4, <1>5
<1> QED BY <1>2, <1>3, <1>6 DEF EventOK

LEMMA FinishIInv == ASSUME IInv, NEW t \in Threads, Finish(t) PROVE IInv'
<1> Types /\ TasksOnce /\ Rest
  BY IInvParts
<1>FinishStep.
      /\ Place(t) = "finish" /\ todo[t] = <<>> /\ call[t].op = "finish"
      /\ call[t].q \in Queues
      /\ \E e \in events[call[t].q] :
           /\ e \in Ids
           /\ event' = [event EXCEPT ![e].refs = event[e].refs + 1]
           /\ GoesTo(t, "unref", <<e>>)
           /\ call' = [call EXCEPT ![t].part = e]
      /\ UNCHANGED <<poolVars, events, localArgs, cmdVars, scan>>
  <2>1. /\ pc[t] = "finish" /\ pc[t] \notin Waiting
        /\ UNCHANGED <<poolVars, events, localArgs, cmdVars, scan>>
    BY DEF Finish, Waiting
  <2>   /\ t \in Actors /\ Control /\ todo[t] = <<>> /\ Place(t) = "finish"
        /\ CallOK(t) /\ call[t].op \in AllOps \cup {"none"}
    BY <2>1, ThreadAt
  <2>3. call[t].op = "finish"
    BY PlaceOp
  <2>   call[t].q \in Queues
    BY <2>3 DEF CallOK
  <2>   PICK e \in events[call[t].q] :
          /\ event' = [event EXCEPT ![e].refs = event[e].refs + 1]
          /\ WaitFor(t, <<e>>, "unref")
          /\ call' = [call EXCEPT ![t].part = e]
    BY DEF Finish
  <2>   e \in Ids /\ <<e>> \in Seq(Ids)
    BY SMTT(20) DEF Types, TypeOK
  <2>7. GoesTo(t, "unref", <<e>>)
    BY <2>1, WaitForMoves DEF Labels, Waiting
  <2> QED BY <2>1, <2>3, <2>7
<1>FinishTypes. ASSUME \A e \in events[call[t].q] :
                  e \in Enqueued \ released /\ cmd[e].q = call[t].q
      PROVE  Types' /\ Grows
  <2> \A e \in events[call[t].q] : e \in Enqueued \ released /\ cmd[e].q = call[t].q
    BY <1>FinishTypes
  <2>   /\ call[t].op = "finish" /\ call[t].q \in Queues
        /\ UNCHANGED <<poolVars, events, localArgs, cmdVars, scan>>
    BY <1>FinishStep
  <2>2. PICK e \in events[call[t].q] :
          /\ e \in Ids
          /\ event' = [event EXCEPT ![e].refs = event[e].refs + 1]
          /\ GoesTo(t, "unref", <<e>>)
          /\ call' = [call EXCEPT ![t].part = e]
    BY <1>FinishStep
  <2>3. EventTypes /\ CallTypes /\ CallOK(t) /\ e \in Nat
    BY SMTT(20), <2>2, TypesParts DEF Types, Ids
  <2>4. /\ call' \in [Threads -> CallType]
        /\ \A u \in Threads \ {t} : call'[u] = call[u]
        /\ call'[t].part = e /\ call'[t].op = call[t].op /\ call'[t].q = call[t].q
        /\ call'[t].id = call[t].id /\ call'[t].before = call[t].before
    BY <2>2, <2>3, PartSet DEF CallTypes
  <2>5. EventTypes'
    <3>1. event' \in [Ids -> EventType]
      BY <2>2, <2>3, RefsSet DEF EventTypes
    <3> QED BY <2>3, <3>1 DEF EventTypes
  <2>6. CallTypes' /\ Enqueued' = Enqueued
    BY <2>3, <2>4 DEF CallTypes, Enqueued, cmdVars
  <2>7. Grows
    BY QuietGrows DEF poolVars
  <2>8. CallOK(t)'
    <3>1. Place(t)' = "unref" /\ "unref" \in Places("finish")
      BY <2>2 DEF GoesTo, Places
    <3>2. e \in Enqueued \ released /\ cmd[e].q = call[t].q
      BY <2>2
    <3>3. /\ cmd' = cmd /\ released' = released
      BY DEF cmdVars
    <3>4. call[t].op \notin Enqueues
      BY DEF Enqueues
    <3> QED BY <2>3, <2>4, <2>6, <3>1, <3>2, <3>3, <3>4 DEF CallOK
  <2>9. \A u \in Threads \ {t} : call[u].op = "finish" /\ Place(u) = "unref"
                                   => call[u].part \notin released'
    BY RetainedKept DEF cmdVars
  <2> QED BY <2>2, <2>4, <2>5, <2>6, <2>7, <2>8, <2>9, ThreadTypes
<1>1. Types /\ TasksOnce /\ Rest /\ CallOK(t)
  BY IInvParts DEF Types
<1>2. /\ Place(t) = "finish" /\ todo[t] = <<>> /\ call[t].op = "finish"
      /\ call[t].q \in Queues
      /\ UNCHANGED <<poolVars, events, localArgs, cmdVars, scan>>
  BY <1>1, <1>FinishStep
<1>3. PICK e \in events[call[t].q] :
        /\ e \in Ids
        /\ event' = [event EXCEPT ![e].refs = event[e].refs + 1]
        /\ GoesTo(t, "unref", <<e>>)
        /\ call' = [call EXCEPT ![t].part = e]
  BY <1>1, <1>FinishStep
<1>4. /\ e \in Enqueued /\ e \notin released /\ cmd[e].q = call[t].q /\ Made(e)
      /\ EventOK(e) /\ event[e].refs = 1 /\ event[e].alive /\ ~event[e].done
  BY <1>2, <1>3, FinishEvent
<1>5. Types' /\ Grows
  <2>1. \A j \in events[call[t].q] : j \in Enqueued \ released /\ cmd[j].q = call[t].q
    BY <1>2, FinishEvent
  <2> QED BY <1>1, <2>1, <1>FinishTypes
<1>6. /\ call'[t].op = "finish" /\ call'[t].id = call[t].id /\ call'[t].part = e
      /\ \A u \in Threads \ {t} : call'[u] = call[u]
  BY <1>1, <1>2, <1>3 DEF Types
<1>7. Alone(t, "unref", <<e>>)
  BY <1>2, <1>3, <1>6 DEF Alone, poolVars
<1>8. TasksOnce'
  BY <1>1, <1>2, <1>3, <1>6, ThreadKeepsOnce
<1>9. /\ event'[e].refs = 2 /\ event'[e].alive = event[e].alive
      /\ event'[e].done = event[e].done /\ event'[e].tasksinfo = event[e].tasksinfo
      /\ \A j \in Enqueued \ {e} : event'[j] = event[j]
  <2>0. event \in [Ids -> EventType]
    BY <1>1, EventIs
  <2>1. event'[e].refs = event[e].refs + 1 /\ event[e].refs \in Nat
    BY <1>3, <2>0, RefsSet
  <2>2. /\ event'[e].alive = event[e].alive /\ event'[e].done = event[e].done
        /\ event'[e].tasksinfo = event[e].tasksinfo
    BY <1>3, <2>0, RefsSet
  <2>3. \A j \in Enqueued \ {e} : event'[j] = event[j]
    BY ZenonT(40), <1>1, <1>3, EnqueuedIds DEF Types, TypeOK
  <2>4. event'[e].refs = 2
    BY SMTT(30), Z3T(30), <1>4, <2>1
  <2> QED BY <2>2, <2>3, <2>4
<1>10. call[t].id = 0 /\ call'[t].id = 0 /\ e # 0
  <2>1. call[t].op \notin Enqueues
    BY <1>2 DEF Enqueues
  <2>2. e # 0
    BY <1>4 DEF Enqueued
  <2> QED BY <1>1, <1>6, <2>1, <2>2 DEF CallOK
<1>11. Sole(t, e)
  BY <1>1, <1>2, <1>4, SoleFinish
<1>12. /\ Past(e) /\ Past(e)'
       /\ Made(e)'
       /\ Free(e) /\ Free(e)'
       /\ (\E u \in Threads : Deletes(u, e)') <=> Deletes(t, e)'
  <2>1. /\ Past(e) <=> (call[t].id = e => Place(t) = "return")
        /\ Past(e)' <=> (call'[t].id = e => "unref" = "return")
        /\ Made(e)' <=> cmd[e].event /\ (call'[t].id = e => "unref" # "create")
        /\ Free(e) <=> call[t].id # e
        /\ Free(e)' <=> call'[t].id # e
        /\ (\E u \in Threads : Deletes(u, e)') <=> Deletes(t, e)'
    <3>1. Types /\ Grows /\ Alone(t, "unref", <<e>>) /\ e \in Enqueued
      BY <1>1, <1>4, <1>5, <1>7
    <3> QED BY <1>11, <3>1, OwnCommand
  <2>2. cmd[e].event
    BY <1>4 DEF Made
  <2> QED BY ZenonT(40), <1>10, <2>1, <2>2
<1>13. Place(t)' = "unref" /\ todo'[t] = <<e>> /\ pc'[t] # "callback"
  BY <1>3 DEF GoesTo
<1>14. Retains(t, e)' /\ \A j : j # e => ~Retains(t, j)'
  BY <1>6, <1>13 DEF Retains
<1>15. /\ \A j : ~Retains(t, j) /\ ~Deletes(t, j) /\ ~Deletes(t, j)'
  BY <1>2, <1>6 DEF Retains, Deletes
<1>16. /\ released' = released /\ hostRan' = hostRan /\ cmd' = cmd /\ events' = events
  BY <1>2 DEF cmdVars
<1>17. EventOK(e)'
  <2>1. TasksOf(e)' = TasksOf(e)
    BY <1>4, <1>5, GrowsTasks
  <2>2. Ready(e)'
    BY ZenonT(40), <1>4, <1>9, <1>12, <1>16, <2>1 DEF Ready, EventOK
  <2>3. \E u \in Threads : Retains(u, e)'
    BY <1>14
  <2>4. \A u \in Threads : ~Deletes(u, e)'
    BY <1>12, <1>15
  <2>5. \A q \in Queues : e \in events'[q] <=> cmd'[e].q = q /\ ~event'[e].done
    BY <1>4, <1>9, <1>16 DEF EventOK
  <2>6. e \notin released' /\ event'[e].alive /\ ~event'[e].done
    BY <1>4, <1>9, <1>16
  <2> QED BY <1>9, <1>12, <2>2, <2>3, <2>4, <2>5, <2>6 DEF EventOK
<1>18. GoalOK(t)'
  <2>1. Goal(t)' = {e}
    BY <1>6, ThreadActor DEF Goal
  <2>2. InSeq(<<e>>) = {e}
    BY DEF InSeq
  <2>3. Waits(t)' /\ Place(t)' # "count"
    BY <1>13 DEF Waits
  <2>4. e \notin released'
    BY <1>4, <1>16
  <2> QED BY <1>12, <1>13, <2>1, <2>2, <2>3, <2>4 DEF GoalOK
<1>19. FinishTruthful(t)'
  BY <1>13, NotReturning
<1>20. \A j : j # e => ~Retains(t, j) /\ ~Retains(t, j)' /\ ~Deletes(t, j) /\ ~Deletes(t, j)'
  BY <1>14, <1>15
<1>21. UNCHANGED <<events, cmdVars>>
  BY <1>2
<1> QED BY <1>2, <1>4, <1>5, <1>7, <1>8, <1>9, <1>10, <1>17, <1>18,
       <1>19, <1>20, <1>21, EventStep

\* What a thread that has waited for one event knows of it.
LEMMA WaitedPart ==
  ASSUME IInv, NEW t \in Threads, call[t].op \in {"finish", "release"},
         Place(t) \in {"unref", "delete"}, todo[t] = <<>>, NEW e, e = call[t].part
  PROVE  Made(e) /\ Past(e) /\ event[e].done /\ e \in Enqueued /\ EventOK(e)
<1>1. Goal(t) = {e}
  BY ThreadActor DEF Goal
<1>2. Waits(t)
  BY DEF Waits
<1>3. Made(e) /\ Past(e) /\ event[e].done
  BY <1>1, <1>2, GoalComplete, ThreadActor
<1> QED BY <1>3, IInvParts DEF Rest, Made

LEMMA UnrefIInv == ASSUME IInv, NEW t \in Threads, Unref(t) PROVE IInv'
<1> Types /\ TasksOnce /\ Rest
  BY IInvParts
<1>UnrefStep. ASSUME NEW e, e = call[t].part
      PROVE  /\ Place(t) = "unref" /\ todo[t] = <<>> /\ call[t].op = "finish"
             /\ e \in Enqueued \ released /\ e \in Ids /\ cmd[e].q = call[t].q
             /\ call[t].q \in Queues
             /\ event' = [event EXCEPT ![e].refs = event[e].refs - 1,
                                       ![e].alive = event[e].alive /\ event[e].refs > 1]
             /\ GoesTo(t, "finish", <<>>)
             /\ UNCHANGED <<poolVars, events, localArgs, cmdVars, call, scan>>
             /\ event[e].refs > 0 => Types' /\ Grows
  <2> e = call[t].part
    BY <1>UnrefStep
  <2>1. /\ pc[t] = "unref" /\ pc[t] \notin Waiting
        /\ Goto(t, "finish") /\ UNCHANGED <<todo, then>>
        /\ event' = [event EXCEPT ![e].refs = event[e].refs - 1,
                                  ![e].alive = event[e].alive /\ event[e].refs > 1]
        /\ UNCHANGED <<poolVars, events, localArgs, cmdVars, call, scan>>
    BY DEF Unref, Waiting
  <2>2. /\ t \in Actors /\ Control /\ todo[t] = <<>> /\ Place(t) = "unref"
        /\ CallOK(t) /\ call[t].op \in AllOps \cup {"none"}
    BY <2>1, ThreadAt
  <2>3. call[t].op = "finish"
    BY <2>2, PlaceOp
  <2>4. /\ e \in Enqueued \ released /\ cmd[e].q = call[t].q /\ call[t].q \in Queues
    BY <2>2, <2>3 DEF CallOK
  <2>5. GoesTo(t, "finish", <<>>)
    BY SMTT(30), Z3T(30), <2>1, <2>2, GotoMoves DEF Labels, Waiting
  <2>   EventTypes /\ hostRan \subseteq Enqueued /\ e \in Ids
    BY <2>4, TypesParts, TasksOfType DEF CallTypes
  <2>7. "finish" \in Places(call[t].op) \ {"create", "bestWorker", "unref"}
    BY <2>3 DEF Places
  <2>8. ASSUME event[e].refs > 0 PROVE Types' /\ Grows
    <3>1. event[e].refs \in Nat /\ event[e].refs - 1 \in Nat
      BY SMTT(20), <2>8 DEF EventTypes, EventType
    <3>2. PICK b \in BOOLEAN : b = (event[e].alive /\ event[e].refs > 1)
      OBVIOUS
    <3>3. PICK n \in Nat : n = event[e].refs - 1
      BY <3>1
    <3>4. event' = [event EXCEPT ![e].refs = n, ![e].alive = b]
      BY <2>1, <3>2, <3>3
    <3>5. event' \in [Ids -> EventType]
      <4>1. SetsRefsAlive(e, n, b)
        BY <3>4 DEF SetsRefsAlive
      <4> QED BY <4>1, RefsAliveType DEF EventTypes
    <3>6. EventTypes' /\ UNCHANGED <<commands, cmd, released, hostRan>>
      BY <2>1, <3>5 DEF EventTypes, cmdVars
    <3> QED BY <2>1, <2>5, <2>7, <3>6, CallGoesOn
  <2> QED BY <2>1, <2>2, <2>3, <2>4, <2>5, <2>8
<1>0. PICK e : e = call[t].part
  OBVIOUS
<1>1. Types /\ TasksOnce /\ Rest /\ CallOK(t)
  BY IInvParts DEF Types
<1>   /\ Place(t) = "unref" /\ todo[t] = <<>> /\ call[t].op = "finish"
      /\ e \in Enqueued \ released /\ e \in Ids /\ cmd[e].q = call[t].q
      /\ call[t].q \in Queues
      /\ event' = [event EXCEPT ![e].refs = event[e].refs - 1,
                                ![e].alive = event[e].alive /\ event[e].refs > 1]
      /\ GoesTo(t, "finish", <<>>)
      /\ UNCHANGED <<poolVars, events, localArgs, cmdVars, call, scan>>
      /\ event[e].refs > 0 => Types' /\ Grows
  BY <1>0, <1>1, <1>UnrefStep
<1>3. Made(e) /\ Past(e) /\ event[e].done /\ EventOK(e)
  BY <1>0, WaitedPart
<1>4. event[e].refs = 2 /\ event[e].alive
  <2>1. Retains(t, e)
    BY <1>0 DEF Retains
  <2> QED BY <1>3, <2>1 DEF EventOK
<1>5. Types' /\ Grows
  BY <1>4
<1>6. Alone(t, "finish", <<>>)
  BY DEF Alone, poolVars
<1>7. TasksOnce'
  BY <1>1, ThreadKeepsOnce
<1>8. /\ event'[e].refs = 1 /\ event'[e].alive = TRUE
      /\ event'[e].done = event[e].done /\ event'[e].tasksinfo = event[e].tasksinfo
      /\ \A j \in Enqueued \ {e} : event'[j] = event[j]
  <2>1. PICK n, b : n = event[e].refs - 1 /\ b = (event[e].alive /\ event[e].refs > 1)
    OBVIOUS
  <2>   event' = [event EXCEPT ![e].refs = n, ![e].alive = b]
    BY <2>1
  <2>3. n = 1 /\ b = TRUE
    <3>1. n = 1 /\ (event[e].alive /\ event[e].refs > 1)
      BY SMTT(30), Z3T(30), <1>4, <2>1
    <3> QED BY <2>1, <3>1
  <2>40. event \in [Ids -> EventType] /\ e \in Ids
    BY <1>1, EventIs, EnqueuedIds
  <2>41. RefsAliveOnly(e, n, b)
    <3>1. SetsRefsAlive(e, n, b)
      BY DEF SetsRefsAlive
    <3> QED BY <2>40, <3>1, RefsAliveSet
  <2>4. event'[e].refs = n /\ event'[e].alive = b
    BY <2>41 DEF RefsAliveOnly
  <2>5. event'[e].done = event[e].done /\ event'[e].tasksinfo = event[e].tasksinfo
    BY <2>41 DEF RefsAliveOnly
  <2>6. \A j \in Enqueued \ {e} : event'[j] = event[j]
    BY <1>1, EnqueuedIds DEF Types, TypeOK
  <2> QED BY <2>3, <2>4, <2>5, <2>6
<1>9. call[t].id = 0 /\ call'[t].id = 0 /\ e # 0 /\ call' = call
  BY <1>1, NoId
<1>10. Place(t)' = "finish" /\ todo'[t] = <<>> /\ pc'[t] # "callback"
  BY DEF GoesTo
<1>11. \A j : ~Retains(t, j)' /\ ~Deletes(t, j) /\ ~Deletes(t, j)' /\ (j # e => ~Retains(t, j))
  BY <1>0, <1>9, <1>10 DEF Retains, Deletes
<1>12. /\ Past(e)' /\ Made(e)' /\ Free(e)'
       /\ \A u \in Threads : ~Retains(u, e)' /\ ~Deletes(u, e)'
  <2>1. Sole(t, e)
    BY <1>1, SoleFinish
  <2>2. /\ Past(e)' <=> (call'[t].id = e => "finish" = "return")
        /\ Made(e)' <=> cmd[e].event /\ (call'[t].id = e => "finish" # "create")
        /\ Free(e)' <=> call'[t].id # e
        /\ (\E u \in Threads : Retains(u, e)') <=> Retains(t, e)'
        /\ (\E u \in Threads : Deletes(u, e)') <=> Deletes(t, e)'
    BY ZenonT(40), <1>1, <1>5, <1>6, <2>1, OwnCommand
  <2>3. cmd[e].event
    BY <1>3 DEF Made
  <2> QED BY <1>9, <1>11, <2>2, <2>3
<1>13. /\ released' = released /\ hostRan' = hostRan /\ cmd' = cmd /\ events' = events
  BY DEF cmdVars
<1>14. EventOK(e)'
  <2>   TasksOf(e)' = TasksOf(e) /\ Complete(e)'
    BY <1>3, <1>5, GrowsTasks DEF EventOK
  <2>2. Ready(e)'
    BY <1>3, <1>8, <1>13 DEF Ready, EventOK
  <2>3. \A q \in Queues : e \in events'[q] <=> cmd'[e].q = q /\ ~event'[e].done
    BY <1>3, <1>8, <1>13 DEF EventOK
  <2>4. e \notin released' /\ event'[e].done
    BY <1>3, <1>8, <1>13
  <2> QED BY <1>8, <1>12, <2>2, <2>3, <2>4 DEF EventOK
<1>15. GoalOK(t)' /\ FinishTruthful(t)'
  BY <1>10, NoWaits, NotReturning
<1>16. \A j : j # e => ~Retains(t, j) /\ ~Retains(t, j)' /\ ~Deletes(t, j) /\ ~Deletes(t, j)'
  BY <1>11
<1>17. UNCHANGED <<events, cmdVars>>
  OBVIOUS
<1> QED BY <1>5, <1>6, <1>7, <1>8, <1>9, <1>14, <1>15, <1>16, <1>17, EventStep

LEMMA DeleteIInv == ASSUME IInv, NEW t \in Threads, Delete(t) PROVE IInv'
<1> Types /\ TasksOnce /\ Rest
  BY IInvParts
<1>DeleteStep. ASSUME NEW e, e = call[t].part
      PROVE  /\ Place(t) = "delete" /\ todo[t] = <<>> /\ call[t].op = "release"
             /\ e \in released /\ e \in Ids
             /\ event' = [event EXCEPT ![e].alive = FALSE]
             /\ GoesTo(t, "return", <<>>)
             /\ UNCHANGED <<poolVars, events, localArgs, cmdVars, call, scan>>
             /\ Types' /\ Grows
  <2> e = call[t].part
    BY <1>DeleteStep
  <2>   /\ pc[t] = "delete" /\ pc[t] \notin Waiting
        /\ Goto(t, "return") /\ UNCHANGED <<todo, then>>
        /\ event' = [event EXCEPT ![e].alive = FALSE]
        /\ UNCHANGED <<poolVars, events, localArgs, cmdVars, call, scan>>
    BY DEF Delete, Waiting
  <2>2. /\ t \in Actors /\ Control /\ todo[t] = <<>> /\ Place(t) = "delete"
        /\ CallOK(t) /\ call[t].op \in AllOps \cup {"none"}
    BY ThreadAt
  <2>3. call[t].op = "release"
    BY <2>2, PlaceOp
  <2>4. e \in released
    BY <2>2, <2>3 DEF CallOK
  <2>5. GoesTo(t, "return", <<>>)
    BY SMTT(30), Z3T(30), <2>2, GotoMoves DEF Labels, Waiting
  <2>   EventTypes /\ hostRan \subseteq Enqueued /\ e \in Ids
    BY <2>4, TypesParts, TasksOfType DEF CallTypes
  <2>7. "return" \in Places(call[t].op) \ {"create", "bestWorker", "unref"}
    BY <2>3 DEF Places
  <2>8. event' \in [Ids -> EventType]
    BY ZenonT(40) DEF EventTypes, EventType
  <2>9. EventTypes' /\ UNCHANGED <<commands, cmd, released, hostRan>>
    BY <2>8 DEF EventTypes, cmdVars
  <2>10. Types' /\ Grows
    BY <2>5, <2>7, <2>9, CallGoesOn
  <2> QED BY <2>2, <2>3, <2>4, <2>5, <2>10
<1>0. PICK e : e = call[t].part
  OBVIOUS
<1>1. Types /\ TasksOnce /\ Rest /\ CallOK(t)
  BY IInvParts DEF Types
<1>   /\ Place(t) = "delete" /\ todo[t] = <<>> /\ call[t].op = "release"
      /\ e \in released /\ e \in Ids
      /\ event' = [event EXCEPT ![e].alive = FALSE]
      /\ GoesTo(t, "return", <<>>)
      /\ UNCHANGED <<poolVars, events, localArgs, cmdVars, call, scan>>
      /\ Types' /\ Grows
  BY <1>0, <1>1, <1>DeleteStep
<1>3. Made(e) /\ Past(e) /\ event[e].done /\ EventOK(e) /\ e \in Enqueued
  BY <1>0, WaitedPart
<1>6. Alone(t, "return", <<>>)
  BY DEF Alone, poolVars
<1>7. TasksOnce'
  BY ZenonT(40), <1>1, ThreadKeepsOnce
<1>8. /\ event'[e].refs = event[e].refs
      /\ event'[e].done = event[e].done /\ event'[e].tasksinfo = event[e].tasksinfo
      /\ \A j \in Enqueued \ {e} : event'[j] = event[j]
  BY SMTT(20), <1>1, EnqueuedIds DEF Types, TypeOK
<1>9. call[t].id = 0 /\ call'[t].id = 0 /\ e # 0 /\ call' = call
  BY <1>1, <1>3, NoId
<1>10. Place(t)' = "return" /\ todo'[t] = <<>> /\ pc'[t] # "callback"
  BY DEF GoesTo
<1>11. \A j : ~Retains(t, j) /\ ~Retains(t, j)' /\ ~Deletes(t, j)' /\ (j # e => ~Deletes(t, j))
  BY <1>0, <1>9, <1>10 DEF Retains, Deletes
<1>12. /\ Past(e)' /\ Made(e)' /\ Free(e)'
       /\ \A u \in Threads : ~Retains(u, e)' /\ ~Deletes(u, e)'
  <2>1. Sole(t, e)
    BY <1>0, <1>1, <1>3, SoleRelease DEF EventOK
  <2>2. /\ Past(e)' <=> (call'[t].id = e => "return" = "return")
        /\ Made(e)' <=> cmd[e].event /\ (call'[t].id = e => "return" # "create")
        /\ Free(e)' <=> call'[t].id # e
        /\ (\E u \in Threads : Retains(u, e)') <=> Retains(t, e)'
        /\ (\E u \in Threads : Deletes(u, e)') <=> Deletes(t, e)'
    BY ZenonT(40), <1>1, <1>3, <1>6, <2>1, OwnCommand
  <2>3. cmd[e].event
    BY <1>3 DEF Made
  <2> QED BY <1>9, <1>11, <2>2, <2>3
<1>13. /\ released' = released /\ hostRan' = hostRan /\ cmd' = cmd /\ events' = events
  BY DEF cmdVars
<1>14. EventOK(e)'
  <2>   TasksOf(e)' = TasksOf(e) /\ Complete(e)'
    BY <1>3, GrowsTasks DEF EventOK
  <2>2. Ready(e)'
    BY <1>3, <1>8, <1>13 DEF Ready, EventOK
  <2>3. \A q \in Queues : e \in events'[q] <=> cmd'[e].q = q /\ ~event'[e].done
    BY <1>3, <1>8, <1>13 DEF EventOK
  <2>4. e \in released' /\ event'[e].done /\ cmd'[e].event
    BY <1>3, <1>8, <1>13 DEF Made
  <2> QED BY <1>12, <2>2, <2>3, <2>4 DEF EventOK
<1>15. GoalOK(t)'
  <2>1. ~Waits(t)'
    BY <1>9, <1>10 DEF Waits
  <2> QED BY <1>10, <2>1, NoWaitGoal
<1>16. FinishTruthful(t)'
  BY <1>9 DEF FinishTruthful
<1>17. \A j : j # e => ~Retains(t, j) /\ ~Retains(t, j)' /\ ~Deletes(t, j) /\ ~Deletes(t, j)'
  BY <1>11
<1>18. UNCHANGED <<events, cmdVars>>
  OBVIOUS
<1> QED BY ZenonT(40), <1>3, <1>6, <1>7, <1>8, <1>9, <1>14, <1>15, <1>16, <1>17, <1>18, EventStep

=============================================================================
