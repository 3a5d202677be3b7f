------------------------ MODULE NativeCpuQueueProofs ------------------------
(***************************************************************************)
(* Proofs about NativeCpuQueue, third part: the beginnings and the ends    *)
(* of calls preserve IInv, hence every step does, and what follows:        *)
(* commands run only after what they need, waits end only when their       *)
(* commands are complete, and no event is used after it is deleted.        *)
(***************************************************************************)
EXTENDS NativeCpuQueueThreadProofs

\* The provers of the leaves that name none
USE ZenonT(20), SMTT(15), Z3T(15)

-----------------------------------------------------------------------------
\* The ends of calls, and their beginnings

\* A call that begins or returns.

LEMMA CallSet ==
  ASSUME call \in [Threads -> CallType], NEW t \in Threads, NEW c \in CallType,
         call' = [call EXCEPT ![t] = c]
  PROVE  /\ call' \in [Threads -> CallType] /\ call'[t] = c
         /\ \A u \in Threads \ {t} : call'[u] = call[u]
OBVIOUS

LEMMA NoCallType ==
  /\ NoCall \in CallType /\ NoCall.op = "none" /\ NoCall.q = None /\ NoCall.id = 0
  /\ NoCall.part = 0 /\ NoCall.before = {}
BY DEF NoCall, CallType

LEMMA FinishedIInv == ASSUME IInv, NEW t \in Threads, Finished(t) PROVE IInv'
<1> Types /\ TasksOnce /\ Rest
  BY IInvParts
<1>FinishedStep.
      /\ Place(t) = "finish" /\ todo[t] = <<>> /\ call[t].op = "finish"
      /\ call[t].q \in Queues /\ events[call[t].q] = {}
      /\ GoesTo(t, "return", <<>>)
      /\ UNCHANGED <<poolVars, eventVars, cmdVars, call, scan>>
      /\ Types' /\ Grows
  <2>   /\ pc[t] = "finish" /\ pc[t] \notin Waiting /\ events[call[t].q] = {}
        /\ Goto(t, "return") /\ UNCHANGED <<todo, then>>
        /\ UNCHANGED <<poolVars, eventVars, cmdVars, call, scan>>
    BY DEF Finished, Waiting
  <2>   /\ t \in Actors /\ Control /\ todo[t] = <<>> /\ Place(t) = "finish"
        /\ CallOK(t) /\ call[t].op \in AllOps \cup {"none"}
    BY ThreadAt
  <2>3. call[t].op = "finish"
    BY PlaceOp
  <2>4. call[t].q \in Queues
    BY <2>3 DEF CallOK
  <2>5. GoesTo(t, "return", <<>>)
    BY GotoMoves DEF Labels, Waiting
  <2>   EventTypes /\ hostRan \subseteq Enqueued
    BY TypesParts DEF CallTypes
  <2>7. EventTypes' /\ UNCHANGED <<commands, cmd, released, hostRan>>
    BY DEF EventTypes, eventVars, cmdVars
  <2>8. "return" \in Places(call[t].op) \ {"create", "bestWorker", "unref"}
    BY <2>3 DEF Places
  <2>9. Types' /\ Grows
    BY <2>5, <2>7, <2>8, CallGoesOn
  <2> QED BY <2>3, <2>4, <2>5, <2>9
<1>1. Types /\ TasksOnce /\ Rest /\ CallOK(t)
  BY IInvParts DEF Types
<1>   /\ Place(t) = "finish" /\ todo[t] = <<>> /\ call[t].op = "finish"
      /\ call[t].q \in Queues /\ events[call[t].q] = {}
      /\ GoesTo(t, "return", <<>>)
      /\ UNCHANGED <<poolVars, eventVars, cmdVars, call, scan>>
      /\ Types' /\ Grows
  BY <1>1, <1>FinishedStep
<1>3. Alone(t, "return", <<>>)
  BY DEF Alone, poolVars
<1>4. TasksOnce'
  BY <1>1, ThreadKeepsOnce
<1>5. /\ Enqueued' = Enqueued /\ released' = released /\ hostRan' = hostRan
      /\ event' = event /\ events' = events /\ call' = call
  BY DEF cmdVars, eventVars, Enqueued
<1>6. Place(t)' = "return" /\ todo'[t] = <<>> /\ pc'[t] # "callback"
  BY DEF GoesTo
<1>7. GoalOK(t)'
  <2>1. ~Waits(t)'
    BY <1>5, <1>6 DEF Waits
  <2> QED BY <1>6, <2>1, NoWaitGoal
<1>8. ASSUME NEW i \in call[t].before PROVE Complete(i)'
  <2>   i \in Enqueued /\ cmd[i].q = call[t].q /\ EventOK(i) /\ CommandOK(i) /\ i # 0
    <3>   i \in Enqueued /\ cmd[i].q = call[t].q
      BY <1>1, <1>8 DEF CallOK
    <3>2. EventOK(i) /\ CommandOK(i)
      BY <1>1 DEF Types, Rest
    <3>3. i # 0
      BY DEF Enqueued
    <3> QED BY <3>2, <3>3
  <2>2. Sole(t, i)
    BY <1>1, SoleFinish
  <2>3. Free(i)
    <3>1. Free(i) <=> call[t].id # i
      BY <1>1, <1>3, <2>2, OwnCommand
    <3> QED BY <1>1, <3>1 DEF CallOK, Enqueues
  <2>4. Complete(i)
    <3>1. CASE cmd[i].event
      <4>   Made(i)
        BY <2>3, <3>1, FreeMade
      <4>2. event[i].done
        BY DEF EventOK
      <4> QED BY <4>2 DEF EventOK
    <3>2. CASE ~cmd[i].event
      <4>1. cmd[i].op = "sync"
        BY <3>2 DEF CommandOK
      <4> QED BY <2>3, <4>1, FreePast DEF EventOK, Ready, Complete
    <3> QED BY <3>1, <3>2
  <2> QED BY <2>4, GrowsTasks
<1>9. FinishTruthful(t)'
  BY <1>5, <1>8 DEF FinishTruthful
<1> DEFINE E == {}
<1>10. \A j : ~Retains(t, j) /\ ~Retains(t, j)' /\ ~Deletes(t, j) /\ ~Deletes(t, j)'
  BY <1>5, <1>6 DEF Retains, Deletes
<1>11. call[t].id = 0 /\ \A j \in Enqueued : j # 0
  BY <1>1, NoId
<1>12. /\ \A j \in E \cap Enqueued : EventOK(j)' /\ (Made(j) /\ event[j].done => event'[j].done)
       /\ \A j \in Enqueued \ E :
           /\ event'[j].refs = event[j].refs /\ event'[j].alive = event[j].alive
           /\ event'[j].done = event[j].done /\ event'[j].tasksinfo = event[j].tasksinfo
           /\ \A q \in Queues : j \in events'[q] <=> j \in events[q]
           /\ j # call[t].id
           /\ ~Retains(t, j) /\ ~Retains(t, j)' /\ ~Deletes(t, j) /\ ~Deletes(t, j)'
  BY <1>5, <1>10, <1>11
<1>13. /\ \A q \in Queues : events'[q] \subseteq Enqueued
       /\ \A i \in hostRan' \ hostRan : i \in Enqueued /\ \A j \in cmd[i].needs : Complete(j)
       /\ call'[t].id = call[t].id
  BY <1>1, <1>5 DEF Rest
<1> HIDE DEF E
<1>14. ThreadEffect(t, E)
  BY ZenonT(40), <1>3, <1>5, <1>7, <1>9, <1>12, <1>13, CalmEffect
<1> QED BY <1>3, <1>4, <1>14, ThreadIInv

LEMMA ReturnIInv == ASSUME IInv, NEW t \in Threads, Return(t) PROVE IInv'
<1> Types /\ TasksOnce /\ Rest
  BY IInvParts
<1>ReturnStep.
      /\ Place(t) = "return" /\ todo[t] = <<>>
      /\ GoesTo(t, "idle", <<>>)
      /\ call'[t] = NoCall /\ \A u \in Threads \ {t} : call'[u] = call[u]
      /\ UNCHANGED <<poolVars, eventVars, cmdVars, scan>>
      /\ Types' /\ Grows
  <2>   /\ pc[t] = "return" /\ pc[t] \notin Waiting
        /\ Goto(t, "idle") /\ UNCHANGED <<todo, then>>
        /\ call' = [call EXCEPT ![t] = NoCall]
        /\ UNCHANGED <<poolVars, eventVars, cmdVars, scan>>
    BY DEF Return, Waiting
  <2>2. t \in Actors /\ Control /\ todo[t] = <<>> /\ Place(t) = "return"
    BY ThreadAt
  <2>3. GoesTo(t, "idle", <<>>)
    BY <2>2, GotoMoves DEF Labels, Waiting
  <2>4. EventTypes /\ CallTypes
    BY TypesParts
  <2>   /\ call' \in [Threads -> CallType] /\ call'[t] = NoCall
        /\ \A u \in Threads \ {t} : call'[u] = call[u]
    BY <2>4, CallSet, NoCallType DEF CallTypes
  <2>6. Grows
    BY QuietGrows DEF poolVars
  <2>7. EventTypes' /\ CallTypes' /\ Enqueued' = Enqueued /\ released' = released
    BY <2>4 DEF EventTypes, CallTypes, eventVars, cmdVars, Enqueued
  <2>8. CallOK(t)'
    <3>1. Place(t)' = "idle" /\ "idle" \in Places("none") /\ "none" \notin Enqueues
      BY <2>3 DEF GoesTo, Places, Enqueues
    <3> QED BY <3>1, NoCallType DEF CallOK
  <2>9. \A u \in Threads \ {t} : call[u].op = "finish" /\ Place(u) = "unref"
                                   => call[u].part \notin released'
    BY <2>7, RetainedKept
  <2>10. call'[t].q \in {call[t].q, None}
    BY NoCallType
  <2>11. call'[t].op \notin {"finish", "release"}
    BY DEF NoCall
  <2>12. Types'
    BY <2>3, <2>6, <2>7, <2>8, <2>9, <2>10, <2>11, ThreadTypes
  <2> QED BY <2>2, <2>3, <2>6, <2>12
<1>0. PICK e : e = call[t].id
  OBVIOUS
<1>1. Types /\ TasksOnce /\ Rest /\ CallOK(t)
  BY IInvParts DEF Types
<1>2. /\ Place(t) = "return" /\ todo[t] = <<>>
      /\ GoesTo(t, "idle", <<>>)
      /\ call'[t] = NoCall /\ \A u \in Threads \ {t} : call'[u] = call[u]
      /\ UNCHANGED <<poolVars, eventVars, cmdVars, scan>>
      /\ Types' /\ Grows
  BY <1>1, <1>ReturnStep
<1>3. Alone(t, "idle", <<>>)
  BY <1>2 DEF Alone, poolVars
<1>4. TasksOnce'
  BY <1>1, <1>2, ThreadKeepsOnce
<1>5. /\ Enqueued' = Enqueued /\ released' = released /\ hostRan' = hostRan /\ cmd' = cmd
      /\ event' = event /\ events' = events
  BY <1>2 DEF cmdVars, eventVars, Enqueued
<1>6. Place(t)' = "idle" /\ todo'[t] = <<>> /\ pc'[t] # "callback"
  BY <1>2 DEF GoesTo
<1>7. GoalOK(t)' /\ FinishTruthful(t)'
  BY <1>6, NoWaits, NotReturning
<1>8. call'[t].id = 0 /\ call'[t].op = "none" /\ \A j \in Enqueued : j # 0
  BY <1>2 DEF NoCall, Enqueued
<1>9. \A j : ~Retains(t, j) /\ ~Retains(t, j)' /\ ~Deletes(t, j) /\ ~Deletes(t, j)'
  BY <1>2, <1>6 DEF Retains, Deletes
<1>10. ASSUME e \in Enqueued PROVE EventOK(e)' /\ (cmd[e].q \in InOrderQueues => Complete(e))
  <2>0. call[t].op \in Enqueues
    BY <1>0, <1>1, <1>8, <1>10 DEF CallOK
  <2>1. /\ e \notin released /\ cmd[e].q = call[t].q /\ cmd[e].q \in Queues
        /\ CommandOK(e) /\ EventOK(e) /\ Past(e) /\ Ready(e) /\ (Made(e) <=> cmd[e].event)
        /\ cmd[e].event => event[e].refs = 1 /\ event[e].alive
        /\ \A q \in Queues : e \in events[q] <=> cmd[e].event /\ cmd[e].q = q /\ ~event[e].done
    <3>1. Place(t) # "create"
      BY <1>2
    <3>2. InTheMaking(t, e)
      BY <1>0, <2>0, <3>1, EnqueueEventBefore
    <3> QED BY <1>2, <3>2 DEF InTheMaking
  <2>2. Sole(t, e)
    BY <1>0, <2>0, SoleEnqueue
  <2>3. /\ Past(e)' /\ (Made(e)' <=> cmd[e].event)
        /\ \A u \in Threads : ~Retains(u, e)' /\ ~Deletes(u, e)'
    <3>1. /\ Past(e)' <=> (call'[t].id = e => "idle" = "return")
          /\ Made(e)' <=> cmd[e].event /\ (call'[t].id = e => "idle" # "create")
          /\ (\E u \in Threads : Retains(u, e)') <=> Retains(t, e)'
          /\ (\E u \in Threads : Deletes(u, e)') <=> Deletes(t, e)'
      BY <1>1, <1>2, <1>3, <1>10, <2>2, OwnCommand
    <3> QED BY <1>8, <1>9, <1>10, <3>1
  <2>4. TasksOf(e)' = TasksOf(e) /\ (Complete(e) => Complete(e)')
    BY <1>2, <1>10, GrowsTasks
  <2>5. Ready(e)'
    BY <1>5, <2>1, <2>4 DEF Ready
  <2>6. EventOK(e)'
    BY <1>5, <2>1, <2>3, <2>4, <2>5 DEF EventOK
  <2>7. ASSUME cmd[e].q \in InOrderQueues PROVE Complete(e)
    <3>1. call[t].op \in {"sync", "kernel"} /\ cmd[e].op = call[t].op
      BY ZenonT(40), <1>0, <1>1, <2>0, <2>1, <2>7 DEF CallOK, CommandOK, Enqueues
    <3>2. CASE call[t].op = "sync"
      BY <2>1, <3>1, <3>2 DEF Ready, Complete
    <3>3. CASE call[t].op = "kernel"
      <4>1. Goal(t) = {e}
        BY <1>0, <2>1, <2>7, <3>3, ThreadActor DEF Goal
      <4>2. Waits(t)
        BY <1>2, <3>3 DEF Waits
      <4> QED BY <1>2, <4>1, <4>2, GoalComplete, ThreadActor
    <3> QED BY <3>1, <3>2, <3>3
  <2> QED BY <2>6, <2>7
<1>11. \A i \in Enqueued : cmd[i].q \in InOrderQueues /\ Free(i)' /\ ~Free(i) => Complete(i)
  <2>1. \A i \in Enqueued : Free(i)' /\ ~Free(i) => i = e
    BY <1>0, <1>2 DEF Free
  <2> QED BY <1>10, <2>1
<1> DEFINE E == {e}
<1>12. /\ \A j \in E \cap Enqueued : EventOK(j)' /\ (Made(j) /\ event[j].done => event'[j].done)
       /\ \A j \in Enqueued \ E :
           /\ event'[j].refs = event[j].refs /\ event'[j].alive = event[j].alive
           /\ event'[j].done = event[j].done /\ event'[j].tasksinfo = event[j].tasksinfo
           /\ \A q \in Queues : j \in events'[q] <=> j \in events[q]
           /\ j # call[t].id /\ j # call'[t].id
           /\ ~Retains(t, j) /\ ~Retains(t, j)' /\ ~Deletes(t, j) /\ ~Deletes(t, j)'
  BY <1>0, <1>5, <1>8, <1>9, <1>10
<1> HIDE DEF E
<1>13. /\ \A q \in Queues : events'[q] \subseteq Enqueued'
       /\ \A i \in hostRan' \ hostRan : i \in Enqueued /\ \A j \in cmd[i].needs : Complete(j)
       /\ \A j \in released' \ released :
           /\ j \in E /\ \A b \in Actors \ {t} : j \notin InSeq(todo[b])
           /\ \A i \in Enqueued : j \in InSeq(cmd[i].list) => Complete(i) /\ Free(i)
       /\ \A i \in Enqueued' \ Enqueued : EventOK(i)' /\ NeedsOK(i)'
  BY <1>1, <1>5 DEF Rest
<1>14. ThreadEffect(t, E)
  BY <1>7, <1>8, <1>11, <1>12, <1>13 DEF ThreadEffect
<1> QED BY <1>2, <1>3, <1>4, <1>14, ThreadIInv

-----------------------------------------------------------------------------
\* The calls that enqueue a command

LEMMA WaitListType ==
  ASSUME Types, NEW list \in WaitLists
  PROVE  list \in Seq(Ids) /\ InSeq(list) \subseteq Known
         /\ InSeq(list) = {list[n] : n \in 1 .. Len(list)}
<1>   PICK n \in 0 .. MaxWaits : list \in [1 .. n -> Known]
  BY DEF WaitLists
<1>   n \in Nat
  BY BoundAssumption
<1>3. list \in Seq(Known)
  OBVIOUS
<1>4. list \in Seq(Ids)
  <2>1. Known \subseteq Ids
    BY EnqueuedIds
  <2> QED BY <2>1
<1> QED BY <1>3, <1>4, InSeqElements DEF InSeq

\* No other call uses the queue.
LEMMA QueueFreeCalls ==
  ASSUME Types, NEW t \in Threads, NEW q \in Queues, QueueFree(t, q),
         NEW u \in Threads \ {t}
  PROVE  call[u].q # q
<1>1. CASE pc[u] # "idle"
  BY <1>1 DEF QueueFree
<1>2. CASE pc[u] = "idle"
  <2>   Place(u) = "idle" /\ CallOK(u) /\ call[u].op \in AllOps \cup {"none"}
    BY <1>2, ThreadAt DEF Waiting
  <2>2. call[u].op = "none"
    BY PlaceOp
  <2> QED BY <2>2, NamesAssumption DEF CallOK
<1> QED BY <1>1, <1>2

\* t enqueues the command i, which is as c says.
Enters(t, c, i) ==
  /\ Place(t) = "idle" /\ todo[t] = <<>> /\ call[t].op = "none"
  /\ c \in Command /\ c.op \in Enqueues /\ c.q \in Queues /\ InSeq(c.list) \subseteq Known
  /\ i = commands + 1 /\ commands' = i /\ i \in Ids
  /\ i \notin Enqueued /\ Enqueued' = Enqueued \cup {i}
  /\ cmd' \in [Ids -> Command] /\ \A j \in Enqueued : cmd'[j] = cmd[j]
  /\ cmd'[i].op = c.op /\ cmd'[i].q = c.q /\ cmd'[i].list = c.list
  /\ cmd'[i].event = c.event
  /\ cmd'[i].needs = InSeq(c.list) \cup IF c.q \in InOrderQueues THEN OnQueue(c.q) ELSE {}
  /\ call' \in [Threads -> CallType]
  /\ call'[t].op = c.op /\ call'[t].q = c.q /\ call'[t].id = i /\ call'[t].before = {}
  /\ \A u \in Threads \ {t} : call'[u] = call[u] /\ call[u].q # c.q

\* c can be enqueued.
Sound(c) ==
  /\ c \in Command /\ c.op \in Enqueues /\ c.q \in Queues
  /\ InSeq(c.list) \subseteq Known
  /\ c.op # "sync" => c.event
  /\ c.op = "kernel" => c.grid \in Grids /\ c.kernel \in Kernels
  /\ c.op = "copy" => c.q \notin InOrderQueues

LEMMA NewCommandStep ==
  ASSUME Types, NEW t \in Threads, pc[t] = "idle", NEW c, Sound(c), NewCommand(t, c),
         QueueFree(t, c.q), NEW i, i = commands + 1
  PROVE  Enters(t, c, i) /\ CommandOK(i)'
<1> DEFINE N == InSeq(c.list) \cup IF c.q \in InOrderQueues THEN OnQueue(c.q) ELSE {}
<1>1. /\ Place(t) = "idle" /\ todo[t] = <<>> /\ CallOK(t)
      /\ call[t].op \in AllOps \cup {"none"}
  BY ThreadAt DEF Waiting
<1>2. call[t].op = "none"
  BY <1>1, PlaceOp
<1>3. /\ commands < MaxCommands /\ commands' = i
      /\ cmd' = [cmd EXCEPT ![i] = [c EXCEPT !.needs = N]]
      /\ call' = [call EXCEPT ![t] = [NoCall EXCEPT !.op = c.op, !.q = c.q, !.id = i]]
  BY DEF NewCommand, InSeq
<1>4. /\ i \in Ids /\ i \notin Enqueued /\ Enqueued' = Enqueued \cup {i}
      /\ i \in Nat
  <2>1. commands \in 0 .. MaxCommands
    BY DEF Types, TypeOK
  <2> QED BY <1>3, <2>1, BoundAssumption DEF Ids, Enqueued
<1>5. Enqueued \subseteq Ids /\ Known \subseteq Enqueued
  BY EnqueuedIds
<1>6. N \subseteq Enqueued
  BY <1>5 DEF Sound, OnQueue, Enqueued
<1>7. PICK d : d = [c EXCEPT !.needs = N]
  OBVIOUS
<1> HIDE DEF N
<1>8. /\ d \in Command
      /\ d.op = c.op /\ d.q = c.q /\ d.list = c.list /\ d.event = c.event
      /\ d.grid = c.grid /\ d.kernel = c.kernel /\ d.needs = N
  <2>1. c \in Command /\ N \in SUBSET Ids
    BY <1>5, <1>6 DEF Sound
  <2> QED BY <1>7, <2>1 DEF Command
<1>9. /\ cmd' \in [Ids -> Command] /\ cmd'[i] = d
      /\ \A j \in Enqueued : cmd'[j] = cmd[j]
  BY ZenonT(40), <1>3, <1>4, <1>5, <1>7, <1>8 DEF Types
<1>10. PICK e : e = [NoCall EXCEPT !.op = c.op, !.q = c.q, !.id = i]
  OBVIOUS
<1>11. e \in CallType /\ e.op = c.op /\ e.q = c.q /\ e.id = i /\ e.before = {}
  <2>1. c.op \in AllOps /\ c.q \in Queues
    BY DEF Sound, Enqueues, AllOps
  <2> QED BY <1>4, <1>10, <2>1 DEF NoCall, CallType
<1>12. call \in [Threads -> CallType] /\ call' = [call EXCEPT ![t] = e]
  BY <1>3, <1>10, TypesParts DEF CallTypes
<1>13. /\ call' \in [Threads -> CallType] /\ call'[t] = e
       /\ \A u \in Threads \ {t} : call'[u] = call[u]
  BY <1>11, <1>12, CallSet
<1>14. \A u \in Threads \ {t} : call[u].q # c.q
  BY QueueFreeCalls DEF Sound
<1>15. Enters(t, c, i)
  BY <1>1, <1>2, <1>3, <1>4, <1>8, <1>9, <1>11, <1>13, <1>14 DEF Enters, Sound, N
<1>16. CommandOK(i)'
  <2>1. \A j \in InSeq(c.list) : j \in Enqueued /\ cmd[j].event
    BY <1>5 DEF Sound, Known
  <2>2. \A j \in InSeq(c.list) : cmd'[j].event
    BY <1>9, <2>1
  <2>3. InSeq(c.list) \subseteq N /\ N \subseteq Enqueued'
    BY <1>4, <1>6 DEF N
  <2> QED BY <1>8, <1>9, <2>2, <2>3 DEF CommandOK, Sound
<1> QED BY <1>15, <1>16

\* What the calls that enqueue do: the command's event is to be made, or it has none
\* and the call waits for the wait list.
Enqueuing(t, c, i) ==
  /\ Enters(t, c, i) /\ CommandOK(i)' /\ (c.op # "sync" => c.event)
  /\ GoesTo(t, IF c.event THEN "create" ELSE "function", IF c.event THEN <<>> ELSE c.list)
  /\ localArgs' \in [Kernels -> Nat]
  /\ UNCHANGED <<poolVars, events, event, hostRan, released, scan>>

LEMMA EnqueuingIInv ==
  ASSUME IInv, NEW t \in Threads, NEW c, NEW i, Enqueuing(t, c, i)
  PROVE  IInv'
<1> Types /\ TasksOnce /\ Rest
  BY IInvParts
<1>EnqueuingTypes. Types' /\ Grows
  <2>1. EventTypes /\ CallTypes
    BY TypesParts
  <2>2. /\ Enters(t, c, i) /\ CommandOK(i)' /\ (c.op # "sync" => c.event)
        /\ UNCHANGED <<poolVars, events, event, hostRan, released, scan>>
        /\ localArgs' \in [Kernels -> Nat]
    BY DEF Enqueuing
  <2>3. Grows
    BY <2>2 DEF Grows, Same, Enters, poolVars
  <2>4. EventTypes'
    BY <2>1, <2>2 DEF EventTypes
  <2>5. commands' \in 0 .. MaxCommands
    BY SMTT(20), <2>2, BoundAssumption DEF Enters, Ids
  <2>6. CallTypes'
    BY <2>1, <2>2, <2>5 DEF CallTypes, Enters
  <2>7. CallOK(t)'
    <3>1. /\ cmd'[i].op = c.op /\ cmd'[i].q = c.q /\ cmd'[i].event = c.event
          /\ call'[t].op = c.op /\ call'[t].q = c.q /\ call'[t].id = i
          /\ call'[t].before = {} /\ i \in Enqueued' /\ c.op \in Enqueues
      BY <2>2 DEF Enters
    <3>2. /\ Place(t)' = (IF c.event THEN "create" ELSE "function")
      BY DEF Enqueuing, GoesTo
    <3>3. Place(t)' \in Places(c.op) /\ (Place(t)' = "create" => c.event)
          /\ Place(t)' # "bestWorker"
      BY <2>2, <3>1, <3>2 DEF Places, Enqueues
    <3>4. EnqueueCall(t)'
      BY <3>1, <3>3 DEF EnqueueCall
    <3>5. EnqueueCall(t)' => CallOK(t)'
      BY EnqueueCallOK, PTL
    <3> QED BY <3>4, <3>5
  <2>8. /\ \A j \in Enqueued' \ Enqueued : CommandOK(j)'
        /\ \A u \in Threads \ {t} : call'[u] = call[u] /\ call[u].q # call'[t].q
    BY <2>2 DEF Enters
  <2>9. \A u \in Threads \ {t} : call[u].op = "finish" /\ Place(u) = "unref"
                                   => call[u].part \notin released'
    BY <2>2, RetainedKept
  <2>10. call'[t].op \notin {"finish", "release"}
    BY <2>2 DEF Enters, Enqueues
  <2> QED BY <2>2, <2>3, <2>4, <2>6, <2>7, <2>8, <2>9, <2>10, ThreadTypes DEF Enqueuing
<1>EnqueuingOnce. TasksOnce'
  <2>1. /\ GoesTo(t, IF c.event THEN "create" ELSE "function", IF c.event THEN <<>> ELSE c.list)
        /\ UNCHANGED poolVars /\ i \notin Enqueued /\ i = commands + 1
        /\ call'[t].id = i /\ \A u \in Threads \ {t} : call'[u] = call[u]
    BY DEF Enqueuing, Enters
  <2>2. Below(i, 1)
    <3>1. TasksOK /\ PoolTypes /\ CallTypes
      BY TypesParts DEF PoolOK
    <3>2. NoTask[1] # i
      BY SMTT(20), <2>1, <3>1, BoundAssumption DEF NoTask, CallTypes
    <3> QED BY <2>1, <3>1, <3>2 DEF TasksOK, TaskOK, Below
  <2>3. Below(i, 1)'
    BY <2>1, <2>2 DEF Below, poolVars
  <2>4. ThreadOnce(t)'
    <3>1. Place(t)' # "bestWorker"
      BY <2>1 DEF GoesTo
    <3> QED BY <2>1, <2>3, <3>1 DEF ThreadOnce
  <2> QED BY <2>1, <2>4, ThreadKeepsOnce
\* The new command i.
<1>EnqueuingNew. ASSUME Grows, NEW label, NEW s, Alone(t, label, s),
             label \in {"create", "function"}, c.event => label = "create"
      PROVE  EventOK(i)' /\ NeedsOK(i)'
  <2> /\ Grows
      /\ Alone(t, label, s)
      /\ label \in {"create", "function"}
      /\ (c.event => label = "create")
    BY <1>EnqueuingNew
  <2>1. Types /\ Rest /\ CallOK(t)
    BY IInvParts DEF Types
  <2>2. /\ Place(t) = "idle" /\ call[t].op = "none" /\ c.q \in Queues /\ c.op \in Enqueues
        /\ InSeq(c.list) \subseteq Known /\ i \notin Enqueued
        /\ cmd'[i].q = c.q /\ cmd'[i].list = c.list /\ cmd'[i].event = c.event
        /\ cmd'[i].needs = InSeq(c.list) \cup IF c.q \in InOrderQueues THEN OnQueue(c.q) ELSE {}
        /\ call'[t].id = i /\ call'[t].op = c.op
        /\ \A u \in Threads \ {t} : call'[u] = call[u] /\ call[u].q # c.q
    BY DEF Enqueuing, Enters
  <2>3. events' = events /\ released' = released
    BY DEF Enqueuing
  <2>4. call[t].id = 0 /\ \A j \in Enqueued : j # 0
    BY <2>1, <2>2, NoId
  <2>5. ~Past(i)' /\ ~Free(i)' /\ ~Made(i)'
    <3>1. Place(t)' = label
      BY DEF Alone, GoesTo
    <3>2. label # "return"
      OBVIOUS
    <3> QED BY ZenonT(40), <2>2, <3>1, <3>2 DEF Past, Free, Made
  <2>6. \A q \in Queues : i \notin events'[q]
    BY ZenonT(40), <2>1, <2>2, <2>3 DEF Rest
  <2>7. i \notin released'
    BY <2>1, <2>2, <2>3 DEF Types
  <2>8. ASSUME NEW u \in Threads PROVE ~Deletes(u, i)'
    <3>1. CASE u = t
      BY <2>2, <3>1 DEF Deletes, Enqueues
    <3>2. CASE u # t
      <4>1. CallOK(u) /\ (Deletes(u, i)' <=> Deletes(u, i))
        BY <2>1, <3>2, AloneOthers DEF Types
      <4>2. released \subseteq Enqueued
        BY <2>1 DEF Types
      <4> QED BY ZenonT(40), <2>2, <4>1, <4>2 DEF CallOK, Deletes
    <3> QED BY <3>1, <3>2
  <2>9. EventOK(i)'
    BY <2>5, <2>6, <2>7, <2>8 DEF EventOK
  <2>10. ASSUME NEW e \in InSeq(c.list) PROVE Free(e)' /\ e \notin released'
    <3>1. e \in Enqueued /\ Free(e) /\ e \notin released
      BY <2>1, <2>2, <2>10, KnownFree
    <3>2. e # call[t].id /\ e # call'[t].id
      BY <2>2, <2>4, <3>1
    <3>3. Free(e)' <=> Free(e)
      BY <3>1, <3>2, AloneCommands
    <3> QED BY <2>3, <3>1, <3>3
  <2>11. ASSUME NEW j \in OnQueue(c.q), c.q \in InOrderQueues PROVE Complete(j)'
    <3>1. j \in Enqueued /\ cmd[j].q = c.q
      BY <2>11 DEF OnQueue, Enqueued
    <3>2. \A u \in Threads \ {t} : call[u].id # j
      BY <2>1, <2>2, <3>1, OthersIds
    <3>3. Free(j)
      BY <2>4, <3>1, <3>2 DEF Free
    <3>4. Complete(j)
      BY <2>1, <2>11, <3>1, <3>3 DEF Rest, NeedsOK
    <3> QED BY <3>1, <3>4, GrowsTasks
  <2>12. \A j \in cmd'[i].needs : Complete(j)' \/ j \in InSeq(c.list)
    BY <2>2, <2>11
  <2>13. NeedsOK(i)'
    BY <2>2, <2>5, <2>10, <2>12 DEF NeedsOK
  <2> QED BY <2>9, <2>13
<1>0. PICK label, s : /\ label = IF c.event THEN "create" ELSE "function"
                      /\ s = IF c.event THEN <<>> ELSE c.list
  OBVIOUS
<1>1. Types /\ TasksOnce /\ Rest /\ CallOK(t)
  BY IInvParts DEF Types
<1>2. Types' /\ Grows /\ TasksOnce'
  BY <1>1, <1>EnqueuingTypes, <1>EnqueuingOnce
<1>3. /\ Place(t) = "idle" /\ call[t].op = "none" /\ c.op \in Enqueues
      /\ (c.op # "sync" => c.event)
      /\ InSeq(c.list) \subseteq Known /\ i \notin Enqueued /\ Enqueued' = Enqueued \cup {i}
      /\ cmd'[i].list = c.list
      /\ call'[t].id = i /\ call'[t].op = c.op
      /\ \A u \in Threads \ {t} : call'[u] = call[u]
      /\ GoesTo(t, label, s)
  BY ZenonT(40), <1>0 DEF Enqueuing, Enters
<1>4. /\ events' = events /\ event' = event /\ released' = released /\ hostRan' = hostRan
      /\ busy' = busy /\ finished' = finished
  BY DEF Enqueuing, poolVars
<1>5. Alone(t, label, s)
  BY ZenonT(40), <1>3, <1>4 DEF Alone
<1>6. label \in {"create", "function"} /\ (c.event => label = "create")
  BY <1>0
<1>7. EventOK(i)' /\ NeedsOK(i)'
  BY <1>2, <1>5, <1>6, <1>EnqueuingNew
<1>8. call[t].id = 0 /\ \A j \in Enqueued : j # 0 /\ j # i
  BY <1>1, <1>3, NoId
<1>9. \A j : ~Retains(t, j) /\ ~Retains(t, j)' /\ ~Deletes(t, j) /\ ~Deletes(t, j)'
  BY <1>3 DEF Retains, Deletes, Enqueues
<1>10. Place(t)' = label /\ todo'[t] = s /\ pc'[t] # "callback"
  BY <1>3 DEF GoesTo
<1>11. GoalOK(t)'
  <2>1. CASE c.event
    BY <1>0, <1>10, <2>1, NoWaits
  <2>2. CASE ~c.event
    <3>1. label = "function" /\ s = c.list /\ c.op = "sync"
      BY <1>0, <1>3, <2>2
    <3>2. Goal(t)' = InSeq(s)
      BY <1>3, <3>1, ThreadActor DEF Goal
    <3>3. Waits(t)' /\ Place(t)' # "count"
      BY <1>10, <3>1 DEF Waits
    <3>4. ASSUME NEW x \in InSeq(s) PROVE Made(x)' /\ Past(x)' /\ x \notin released'
      <4>1. x \in Enqueued /\ Made(x) /\ Past(x) /\ x \notin released
        BY <1>1, <1>3, <3>1, <3>4, KnownFree
      <4>2. x # call[t].id /\ x # call'[t].id
        BY ZenonT(40), <1>3, <1>8, <4>1
      <4>3. (Made(x)' <=> Made(x)) /\ (Past(x)' <=> Past(x))
        BY ZenonT(40), <1>2, <1>5, <4>1, <4>2, AloneCommands
      <4> QED BY <1>4, <4>1, <4>3
    <3> QED BY <1>10, <3>2, <3>3, <3>4 DEF GoalOK
  <2> QED BY <2>1, <2>2
<1>12. FinishTruthful(t)'
  BY <1>3 DEF FinishTruthful, Enqueues
<1>13. \A k \in Enqueued : Free(k)' <=> Free(k)
  BY <1>2, <1>3, <1>5, <1>8, AloneCommands
<1> DEFINE E == {}
<1>14. /\ \A j \in E \cap Enqueued : EventOK(j)' /\ (Made(j) /\ event[j].done => event'[j].done)
       /\ \A j \in Enqueued \ E :
           /\ event'[j].refs = event[j].refs /\ event'[j].alive = event[j].alive
           /\ event'[j].done = event[j].done /\ event'[j].tasksinfo = event[j].tasksinfo
           /\ \A q \in Queues : j \in events'[q] <=> j \in events[q]
           /\ j # call[t].id /\ j # call'[t].id
           /\ ~Retains(t, j) /\ ~Retains(t, j)' /\ ~Deletes(t, j) /\ ~Deletes(t, j)'
  BY <1>3, <1>4, <1>8, <1>9
<1> HIDE DEF E
<1>15. /\ \A q \in Queues : events'[q] \subseteq Enqueued'
       /\ \A k \in hostRan' \ hostRan : k \in Enqueued /\ \A j \in cmd[k].needs : Complete(j)
       /\ \A j \in released' \ released :
           /\ j \in E /\ \A b \in Actors \ {t} : j \notin InSeq(todo[b])
           /\ \A k \in Enqueued : j \in InSeq(cmd[k].list) => Complete(k) /\ Free(k)
       /\ \A k \in Enqueued' \ Enqueued : EventOK(k)' /\ NeedsOK(k)'
  BY <1>1, <1>3, <1>4, <1>7 DEF Rest
<1>16. ThreadEffect(t, E)
  BY <1>3, <1>8, <1>11, <1>12, <1>13, <1>14, <1>15 DEF ThreadEffect
<1> QED BY <1>2, <1>5, <1>16, ThreadIInv

LEMMA CallKernelStep ==
  ASSUME Types, NEW t \in Threads, CallKernel(t), NEW i, i = commands + 1
  PROVE  \E c : Enqueuing(t, c, i)
<1>   PICK q \in Queues, list \in WaitLists, k \in Kernels, grid \in Grids,
           l \in LocalArgs :
        /\ pc[t] = "idle" /\ "kernel" \in Ops /\ stopping = 0
        /\ QueueFree(t, q) /\ KernelFree(t, k)
        /\ NewCommand(t, [NoCommand EXCEPT !.op = "kernel", !.q = q, !.list = list,
                        !.event = TRUE, !.kernel = k, !.grid = grid, !.local = l])
        /\ localArgs' = IF l THEN [localArgs EXCEPT ![k] = @ + 1] ELSE localArgs
        /\ Goto(t, "create")
        /\ UNCHANGED <<poolVars, events, event, hostRan, released, todo, then, scan>>
  BY DEF CallKernel
<1>2. PICK c : c = [NoCommand EXCEPT !.op = "kernel", !.q = q, !.list = list,
                      !.event = TRUE, !.kernel = k, !.grid = grid, !.local = l]
  OBVIOUS
<1>3. list \in Seq(Ids) /\ InSeq(list) \subseteq Known
  BY WaitListType
<1>4. /\ "kernel" \in Enqueues /\ TRUE \in BOOLEAN /\ k \in Kernels \cup {None}
      /\ grid \in Nat \X Nat \X Nat /\ l \in BOOLEAN
  BY GridAssumption, LocalAssumption DEF Enqueues
<1>5. /\ c \in Command /\ c.op = "kernel" /\ c.q = q /\ c.list = list /\ c.event = TRUE
      /\ c.kernel = k /\ c.grid = grid
  <2>1. c = [op |-> "kernel", q |-> q, list |-> list, kernel |-> k, grid |-> grid,
             event |-> TRUE, local |-> l, copied |-> 0, needs |-> {}]
    BY <1>2 DEF NoCommand
  <2>2. "kernel" \in Enqueues \cup {"none"} /\ q \in Queues \cup {None}
    BY <1>4
  <2>3. {} \in SUBSET Ids /\ 0 \in Nat
    OBVIOUS
  <2> QED BY <1>3, <1>4, <2>1, <2>2, <2>3 DEF Command
<1>6. Sound(c)
  BY <1>3, <1>5 DEF Sound, Enqueues
<1>7. Enters(t, c, i) /\ CommandOK(i)'
  <2>1. NewCommand(t, c) /\ QueueFree(t, c.q)
    BY <1>2, <1>5
  <2> QED BY <1>6, <2>1, NewCommandStep
<1>8. GoesTo(t, "create", <<>>)
  <2>1. t \in Actors /\ Control /\ pc[t] \notin Waiting
    BY ThreadAt DEF Waiting
  <2> QED BY <2>1, GotoMoves DEF Labels, Waiting
<1>9. localArgs' \in [Kernels -> Nat]
  BY SMTT(20), TypesParts DEF EventTypes
<1> QED BY <1>5, <1>7, <1>8, <1>9 DEF Enqueuing

LEMMA CallCopyStep ==
  ASSUME Types, NEW t \in Threads, CallCopy(t), NEW i, i = commands + 1
  PROVE  \E c : Enqueuing(t, c, i)
<1>   PICK q \in Queues \ InOrderQueues, list \in WaitLists :
        /\ pc[t] = "idle" /\ QueueFree(t, q)
        /\ NewCommand(t, [NoCommand EXCEPT !.op = "copy", !.q = q, !.list = list,
                        !.event = TRUE])
        /\ Goto(t, "create")
        /\ UNCHANGED <<poolVars, eventVars, hostRan, released, todo, then, scan>>
  BY DEF CallCopy
<1>2. PICK c : c = [NoCommand EXCEPT !.op = "copy", !.q = q, !.list = list,
                      !.event = TRUE]
  OBVIOUS
<1>3. list \in Seq(Ids) /\ InSeq(list) \subseteq Known
  BY WaitListType
<1>4. /\ "copy" \in Enqueues /\ {TRUE, FALSE} \subseteq BOOLEAN /\ None \in Kernels \cup {None}
      /\ <<1, 1, 1>> \in Nat \X Nat \X Nat
  BY DEF Enqueues
<1>5. c \in Command /\ c.op = "copy" /\ c.q = q /\ c.list = list /\ c.event = TRUE
  <2>1. c = [op |-> "copy", q |-> q, list |-> list, kernel |-> None, grid |-> <<1, 1, 1>>,
             event |-> TRUE, local |-> FALSE, copied |-> 0, needs |-> {}]
    BY <1>2 DEF NoCommand
  <2>2. "copy" \in Enqueues \cup {"none"} /\ q \in Queues \cup {None}
    BY <1>4
  <2>3. {} \in SUBSET Ids /\ 0 \in Nat
    OBVIOUS
  <2> QED BY <1>3, <1>4, <2>1, <2>2, <2>3 DEF Command
<1>6. Sound(c)
  BY <1>3, <1>5 DEF Sound, Enqueues
<1>7. Enters(t, c, i) /\ CommandOK(i)'
  <2>1. NewCommand(t, c) /\ QueueFree(t, c.q)
    BY <1>2, <1>5
  <2> QED BY <1>6, <2>1, NewCommandStep
<1>8. GoesTo(t, "create", <<>>)
  <2>1. t \in Actors /\ Control /\ pc[t] \notin Waiting
    BY ThreadAt DEF Waiting
  <2> QED BY <2>1, GotoMoves DEF Labels, Waiting
<1>9. localArgs' \in [Kernels -> Nat] /\ UNCHANGED <<events, event>>
  BY TypesParts DEF EventTypes, eventVars
<1> QED BY <1>5, <1>7, <1>8, <1>9 DEF Enqueuing

LEMMA CallSyncStep ==
  ASSUME Types, NEW t \in Threads, CallSync(t), NEW i, i = commands + 1
  PROVE  \E c : Enqueuing(t, c, i)
<1>   PICK q \in Queues, list \in WaitLists, ev \in BOOLEAN :
        /\ pc[t] = "idle" /\ QueueFree(t, q)
        /\ NewCommand(t, [NoCommand EXCEPT !.op = "sync", !.q = q, !.list = list,
                        !.event = ev])
        /\ IF ev THEN Goto(t, "create") /\ UNCHANGED <<todo, then>>
           ELSE WaitFor(t, list, "function")
        /\ UNCHANGED <<poolVars, eventVars, hostRan, released, scan>>
  BY DEF CallSync
<1>2. PICK c : c = [NoCommand EXCEPT !.op = "sync", !.q = q, !.list = list,
                      !.event = ev]
  OBVIOUS
<1>3. list \in Seq(Ids) /\ InSeq(list) \subseteq Known
  BY WaitListType
<1>4. /\ "sync" \in Enqueues /\ FALSE \in BOOLEAN /\ None \in Kernels \cup {None}
      /\ <<1, 1, 1>> \in Nat \X Nat \X Nat
  BY DEF Enqueues
<1>   c \in Command /\ c.op = "sync" /\ c.q = q /\ c.list = list /\ c.event = ev
  <2>1. c = [op |-> "sync", q |-> q, list |-> list, kernel |-> None, grid |-> <<1, 1, 1>>,
             event |-> ev, local |-> FALSE, copied |-> 0, needs |-> {}]
    BY <1>2 DEF NoCommand
  <2>2. "sync" \in Enqueues \cup {"none"} /\ q \in Queues \cup {None}
    BY <1>4
  <2>3. {} \in SUBSET Ids /\ 0 \in Nat
    OBVIOUS
  <2> QED BY <1>3, <1>4, <2>1, <2>2, <2>3 DEF Command
<1>6. Sound(c)
  BY <1>3 DEF Sound, Enqueues
<1>7. Enters(t, c, i) /\ CommandOK(i)'
  <2>1. NewCommand(t, c) /\ QueueFree(t, c.q)
    BY <1>2
  <2> QED BY <1>6, <2>1, NewCommandStep
<1>8. GoesTo(t, IF c.event THEN "create" ELSE "function", IF c.event THEN <<>> ELSE c.list)
  <2>   t \in Actors /\ Control /\ pc[t] \notin Waiting
    BY ThreadAt DEF Waiting
  <2>2. CASE ev
    BY <2>2, GotoMoves DEF Labels, Waiting
  <2>3. CASE ~ev
    BY <1>3, <2>3, WaitForMoves DEF Labels, Waiting
  <2> QED BY <2>2, <2>3
<1>9. localArgs' \in [Kernels -> Nat] /\ UNCHANGED <<events, event>>
  BY TypesParts DEF EventTypes, eventVars
<1> QED BY <1>7, <1>8, <1>9 DEF Enqueuing

-----------------------------------------------------------------------------
\* The calls that enqueue nothing

\* A call begins that makes no command.

LEMMA BeginIInv ==
  ASSUME IInv, Types', TasksOnce', Grows, NEW t \in Threads, NEW label, NEW s,
         Alone(t, label, s), Place(t) = "idle", call[t].op = "none", call'[t].id = 0,
         \A j : ~Retains(t, j)' /\ ~Deletes(t, j)', UNCHANGED <<eventVars, cmdVars>>,
         GoalOK(t)', FinishTruthful(t)'
  PROVE  IInv'
<1>1. Rest /\ CallOK(t)
  BY IInvParts DEF Types
<1>2. call[t].id = 0 /\ \A j \in Enqueued : j # 0
  BY ZenonT(40), <1>1, NoId
<1>3. Enqueued' = Enqueued /\ released' = released /\ hostRan' = hostRan
      /\ event' = event /\ events' = events
  BY DEF cmdVars, eventVars, Enqueued
<1>4. \A j : ~Retains(t, j) /\ ~Deletes(t, j)
  BY DEF Retains, Deletes
<1>5. \A i \in Enqueued : Free(i)' <=> Free(i)
  BY <1>2, AloneCommands
<1> DEFINE E == {}
<1>6. /\ \A j \in E \cap Enqueued : EventOK(j)' /\ (Made(j) /\ event[j].done => event'[j].done)
      /\ \A j \in Enqueued \ E :
           /\ event'[j].refs = event[j].refs /\ event'[j].alive = event[j].alive
           /\ event'[j].done = event[j].done /\ event'[j].tasksinfo = event[j].tasksinfo
           /\ \A q \in Queues : j \in events'[q] <=> j \in events[q]
           /\ j # call[t].id /\ j # call'[t].id
           /\ ~Retains(t, j) /\ ~Retains(t, j)' /\ ~Deletes(t, j) /\ ~Deletes(t, j)'
  BY <1>2, <1>3, <1>4
<1> HIDE DEF E
<1>7. /\ \A q \in Queues : events'[q] \subseteq Enqueued'
      /\ \A i \in hostRan' \ hostRan : i \in Enqueued /\ \A j \in cmd[i].needs : Complete(j)
      /\ \A j \in released' \ released :
           /\ j \in E /\ \A b \in Actors \ {t} : j \notin InSeq(todo[b])
           /\ \A i \in Enqueued : j \in InSeq(cmd[i].list) => Complete(i) /\ Free(i)
      /\ \A i \in Enqueued' \ Enqueued : EventOK(i)' /\ NeedsOK(i)'
  BY <1>1, <1>3 DEF Rest
<1>8. ThreadEffect(t, E)
  BY ZenonT(40), <1>2, <1>5, <1>6, <1>7 DEF ThreadEffect
<1> QED BY <1>8, ThreadIInv

CallsFinish(t, q) ==
  /\ Place(t) = "idle" /\ todo[t] = <<>> /\ call[t].op = "none" /\ q \in Queues
  /\ call' \in [Threads -> CallType]
  /\ call'[t].op = "finish" /\ call'[t].q = q /\ call'[t].id = 0
  /\ call'[t].before = OnQueue(q)
  /\ \A u \in Threads \ {t} : call'[u] = call[u] /\ call[u].q # q
  /\ GoesTo(t, "finish", <<>>)
  /\ UNCHANGED <<poolVars, eventVars, cmdVars, scan>>

LEMMA CallFinishIInv ==
  ASSUME ReleaseApart, IInv, NEW t \in Threads, CallFinish(t)
  PROVE  IInv'
<1> Types /\ TasksOnce /\ Rest
  BY IInvParts
<1>CallFinishStep. (\E q : CallsFinish(t, q)) /\ Types' /\ Grows
  <2>1. PICK q \in Queues :
          /\ pc[t] = "idle" /\ "finish" \in Ops /\ stopping = 0 /\ QueueFree(t, q)
          /\ \A u \in Threads : call[u].op = "release" => cmd[call[u].part].q # q
          /\ OnQueue(q) # {}
          /\ call' = [call EXCEPT ![t] = [NoCall EXCEPT !.op = "finish", !.q = q,
                                                        !.before = OnQueue(q)]]
          /\ Goto(t, "finish")
          /\ UNCHANGED <<poolVars, eventVars, cmdVars, todo, then, scan>>
    BY DEF CallFinish
  <2>2. /\ t \in Actors /\ Control /\ pc[t] \notin Waiting
        /\ Place(t) = "idle" /\ todo[t] = <<>> /\ call[t].op = "none"
    BY <2>1, IdleThread
  <2>3. OnQueue(q) \subseteq Enqueued /\ OnQueue(q) \in SUBSET Ids
        /\ \A i \in OnQueue(q) : cmd[i].q = q
    BY EnqueuedIds DEF OnQueue, Enqueued
  <2>4. PICK B : B = OnQueue(q)
    OBVIOUS
  <2>5. PICK c : c = [NoCall EXCEPT !.op = "finish", !.q = q, !.before = B]
    OBVIOUS
  <2>6. c \in CallType /\ c.op = "finish" /\ c.q = q /\ c.id = 0 /\ c.before = B
    <3>1. c = [op |-> "finish", q |-> q, id |-> 0, part |-> 0, before |-> B]
      BY <2>5 DEF NoCall
    <3>2. "finish" \in AllOps \cup {"none"} /\ 0 \in Nat /\ q \in Queues \cup {None}
      BY <2>1 DEF AllOps
    <3> QED BY <2>3, <2>4, <3>1, <3>2 DEF CallType
  <2>7. call' = [call EXCEPT ![t] = c] /\ call \in [Threads -> CallType]
    BY <2>1, <2>4, <2>5, TypesParts DEF CallTypes
  <2>8. /\ call' \in [Threads -> CallType] /\ call'[t] = c
        /\ \A u \in Threads \ {t} : call'[u] = call[u]
    BY <2>6, <2>7, CallSet
  <2>9. \A u \in Threads \ {t} : call[u].q # q
    BY <2>1, QueueFreeCalls
  <2>10. GoesTo(t, "finish", <<>>)
    BY <2>1, <2>2, GotoMoves DEF Labels, Waiting
  <2>11. CallsFinish(t, q)
    BY <2>1, <2>2, <2>4, <2>6, <2>8, <2>9, <2>10 DEF CallsFinish
  <2>12. Grows
    BY <2>1, QuietGrows DEF poolVars
  <2>13. /\ EventTypes' /\ CallTypes' /\ Enqueued' = Enqueued /\ released' = released
         /\ cmd' = cmd
    <3>1. EventTypes /\ CallTypes
      BY TypesParts
    <3> QED BY <2>1, <2>8, <3>1 DEF EventTypes, CallTypes, eventVars, cmdVars, Enqueued
  <2>14. CallOK(t)'
    <3>1. Place(t)' \in Places("finish") /\ Place(t)' = "finish"
      BY <2>10 DEF GoesTo, Places
    <3>   /\ "finish" \notin Enqueues /\ "finish" \notin {"none", "wait", "release"}
          /\ "finish" \in {"wait", "finish"} /\ "finish" # "unref" /\ "finish" # "release"
      BY DEF Enqueues
    <3>   /\ call'[t].op = "finish" /\ call'[t].q = q /\ call'[t].id = 0
          /\ call'[t].before \subseteq Enqueued' /\ q \in Queues
          /\ \A i \in call'[t].before : cmd'[i].q = q
      BY <2>3, <2>4, <2>6, <2>8, <2>13
    <3>4. call'[t].id = 0 <=> call'[t].op \notin Enqueues
      OBVIOUS
    <3> QED BY <3>1, <3>4 DEF CallOK
  <2>15. \A u \in Threads \ {t} : call[u].op = "finish" /\ Place(u) = "unref"
                                    => call[u].part \notin released'
    BY <2>13, RetainedKept
  <2>16. \A u \in Threads \ {t} : call[u].q # call'[t].q
    BY <2>6, <2>8, <2>9
  <2>17. \A u \in Threads \ {t} : KeepsApart(t, u)' /\ KeepsApart(u, t)'
    BY <2>1, <2>6, <2>8, <2>13 DEF KeepsApart
  <2>18. Types'
    BY <2>1, <2>8, <2>10, <2>12, <2>13, <2>14, <2>15, <2>16, <2>17, ThreadTypes
  <2> QED BY <2>11, <2>12, <2>18
<1>2. Types' /\ Grows
  BY <1>CallFinishStep
<1>3. PICK q : CallsFinish(t, q)
  BY <1>CallFinishStep
<1>   /\ Place(t) = "idle" /\ call[t].op = "none" /\ call'[t].op = "finish" /\ call'[t].id = 0
      /\ \A u \in Threads \ {t} : call'[u] = call[u]
      /\ GoesTo(t, "finish", <<>>)
      /\ UNCHANGED <<poolVars, eventVars, cmdVars, scan>>
  BY <1>3 DEF CallsFinish
<1>5. Alone(t, "finish", <<>>)
  BY DEF Alone, poolVars
<1>6. TasksOnce'
  BY ThreadKeepsOnce
<1>   Place(t)' = "finish" /\ todo'[t] = <<>> /\ pc'[t] # "callback"
  BY DEF GoesTo
<1>8. GoalOK(t)' /\ FinishTruthful(t)'
  BY NoWaits, NotReturning
<1>9. \A j : ~Retains(t, j)' /\ ~Deletes(t, j)'
  BY DEF Retains, Deletes
<1>10. UNCHANGED <<eventVars, cmdVars>>
  OBVIOUS
<1> QED BY ZenonT(40), <1>2, <1>5, <1>6, <1>8, <1>9, <1>10, BeginIInv

CallsWait(t, list) ==
  /\ Place(t) = "idle" /\ todo[t] = <<>> /\ call[t].op = "none"
  /\ list \in Seq(Ids) /\ list # <<>> /\ InSeq(list) \subseteq Known
  /\ call' \in [Threads -> CallType]
  /\ call'[t].op = "wait" /\ call'[t].q = None /\ call'[t].id = 0
  /\ call'[t].before = InSeq(list)
  /\ \A u \in Threads \ {t} : call'[u] = call[u]
  /\ GoesTo(t, "return", list)
  /\ UNCHANGED <<poolVars, eventVars, cmdVars, scan>>

LEMMA CallWaitIInv == ASSUME IInv, NEW t \in Threads, CallWait(t) PROVE IInv'
<1> Types /\ TasksOnce /\ Rest
  BY IInvParts
<1>CallWaitStep. (\E list : CallsWait(t, list)) /\ Types' /\ Grows
  <2>1. PICK list \in WaitLists \ {<<>>} :
          /\ pc[t] = "idle" /\ "wait" \in Ops /\ stopping = 0
          /\ call' = [call EXCEPT ![t] = [NoCall EXCEPT !.op = "wait",
                                                        !.before = InSeq(list)]]
          /\ WaitFor(t, list, "return")
          /\ UNCHANGED <<poolVars, eventVars, cmdVars, scan>>
    BY DEF CallWait
  <2>2. /\ t \in Actors /\ Control /\ pc[t] \notin Waiting
        /\ Place(t) = "idle" /\ todo[t] = <<>> /\ call[t].op = "none"
    BY <2>1, IdleThread
  <2>3. /\ list \in Seq(Ids) /\ InSeq(list) \subseteq Known /\ list # <<>>
        /\ InSeq(list) \subseteq Enqueued /\ InSeq(list) \in SUBSET Ids
    BY <2>1, WaitListType, EnqueuedIds
  <2>4. PICK c : c = [NoCall EXCEPT !.op = "wait", !.before = InSeq(list)]
    OBVIOUS
  <2>5. c \in CallType /\ c.op = "wait" /\ c.q = None /\ c.id = 0 /\ c.before = InSeq(list)
    <3>1. c = [op |-> "wait", q |-> None, id |-> 0, part |-> 0, before |-> InSeq(list)]
      BY <2>4 DEF NoCall
    <3>2. "wait" \in AllOps \cup {"none"} /\ 0 \in Nat /\ None \in Queues \cup {None}
      BY DEF AllOps
    <3> QED BY <2>3, <3>1, <3>2 DEF CallType
  <2>6. call' = [call EXCEPT ![t] = c] /\ call \in [Threads -> CallType]
    BY <2>1, <2>4, TypesParts DEF CallTypes
  <2>7. /\ call' \in [Threads -> CallType] /\ call'[t] = c
        /\ \A u \in Threads \ {t} : call'[u] = call[u]
    BY <2>5, <2>6, CallSet
  <2>8. GoesTo(t, "return", list)
    BY <2>1, <2>2, <2>3, WaitForMoves DEF Labels, Waiting
  <2>9. CallsWait(t, list)
    BY <2>1, <2>2, <2>3, <2>5, <2>7, <2>8 DEF CallsWait
  <2>10. Grows
    BY <2>1, QuietGrows DEF poolVars
  <2>11. EventTypes' /\ CallTypes' /\ Enqueued' = Enqueued /\ released' = released
    <3>1. EventTypes /\ CallTypes
      BY TypesParts
    <3> QED BY <2>1, <2>7, <3>1 DEF EventTypes, CallTypes, eventVars, cmdVars, Enqueued
  <2>12. CallOK(t)'
    <3>1. Place(t)' \in Places("wait")
      BY <2>8 DEF GoesTo, Places
    <3>2. "wait" \notin Enqueues /\ "wait" \notin {"finish", "release"}
          /\ "wait" \in {"wait", "finish"}
      BY DEF Enqueues
    <3> QED BY <2>3, <2>5, <2>7, <2>11, <3>1, <3>2 DEF CallOK
  <2>13. \A u \in Threads \ {t} : call[u].op = "finish" /\ Place(u) = "unref"
                                    => call[u].part \notin released'
    BY <2>11, RetainedKept
  <2>14. call'[t].q \in {call[t].q, None}
    BY <2>5, <2>7
  <2>15. call'[t].op \notin {"finish", "release"}
    BY <2>5, <2>7
  <2>16. Types'
    BY <2>1, <2>7, <2>8, <2>10, <2>11, <2>12, <2>13, <2>14, <2>15, ThreadTypes
  <2> QED BY <2>9, <2>10, <2>16
<1>1. Types /\ TasksOnce /\ CallOK(t)
  BY IInvParts DEF Types
<1>2. Types' /\ Grows
  BY <1>1, <1>CallWaitStep
<1>3. PICK list : CallsWait(t, list)
  BY <1>1, <1>CallWaitStep
<1>   /\ Place(t) = "idle" /\ call[t].op = "none" /\ call'[t].op = "wait" /\ call'[t].id = 0
      /\ call'[t].before = InSeq(list) /\ InSeq(list) \subseteq Known
      /\ \A u \in Threads \ {t} : call'[u] = call[u]
      /\ GoesTo(t, "return", list)
      /\ UNCHANGED <<poolVars, eventVars, cmdVars, scan>>
  BY <1>3 DEF CallsWait
<1>5. Alone(t, "return", list)
  BY DEF Alone, poolVars
<1>6. TasksOnce'
  BY <1>1, ThreadKeepsOnce
<1>7. Place(t)' = "return" /\ todo'[t] = list /\ pc'[t] # "callback"
  BY DEF GoesTo
<1>8. call[t].id = 0 /\ \A j \in Enqueued : j # 0
  BY <1>1, NoId
<1>9. GoalOK(t)'
  <2>1. Goal(t)' = InSeq(list)
    BY ThreadActor DEF Goal
  <2>2. Waits(t)' /\ Place(t)' # "count"
    BY <1>7 DEF Waits
  <2>3. ASSUME NEW x \in InSeq(list) PROVE Made(x)' /\ Past(x)' /\ x \notin released'
    <3>   x \in Enqueued /\ Made(x) /\ Past(x) /\ x \notin released
      BY <1>1, <2>3, KnownFree
    <3>2. x # call[t].id /\ x # call'[t].id
      BY ZenonT(40), <1>8
    <3>3. (Made(x)' <=> Made(x)) /\ (Past(x)' <=> Past(x))
      BY ZenonT(40), <1>2, <1>5, <3>2, AloneCommands
    <3>4. released' = released
      BY ZenonT(40) DEF cmdVars
    <3> QED BY <3>3, <3>4
  <2> QED BY <1>7, <2>1, <2>2, <2>3 DEF GoalOK
<1>10. FinishTruthful(t)'
  BY ZenonT(40) DEF FinishTruthful
<1>11. \A j : ~Retains(t, j)' /\ ~Deletes(t, j)'
  BY DEF Retains, Deletes
<1>12. UNCHANGED <<eventVars, cmdVars>>
  OBVIOUS
<1> QED BY ZenonT(40), <1>2, <1>5, <1>6, <1>9, <1>10, <1>11, <1>12, BeginIInv

CallsRelease(t, e) ==
  /\ Place(t) = "idle" /\ todo[t] = <<>> /\ call[t].op = "none"
  /\ e \in Known /\ e \in Ids /\ e \in Enqueued
  /\ \A u \in Threads : call[u].op # "finish" => e \notin InSeq(todo[u])
  /\ \A i \in Enqueued : e \in InSeq(cmd[i].list) => Complete(i) /\ ~InCall(i)
  /\ released' = released \cup {e}
  /\ call' \in [Threads -> CallType]
  /\ call'[t].op = "release" /\ call'[t].q = None /\ call'[t].id = 0
  /\ call'[t].part = e /\ call'[t].before = {}
  /\ \A u \in Threads \ {t} :
       call'[u] = call[u] /\ (call[u].op = "finish" => call[u].q # cmd[e].q)
  /\ event' = [event EXCEPT ![e].refs = event[e].refs - 1,
                 ![e].alive = event[e].alive /\ (event[e].refs > 1 \/ ~event[e].done)]
  /\ IF event[e].refs = 1 /\ ~event[e].done THEN GoesTo(t, "delete", <<e>>)
     ELSE GoesTo(t, "return", <<>>)
  /\ UNCHANGED <<poolVars, events, localArgs, commands, cmd, hostRan, scan>>

LEMMA CallReleaseIInv ==
  ASSUME ReleaseApart, IInv, NEW t \in Threads, CallRelease(t)
  PROVE  IInv'
<1> Types /\ TasksOnce /\ Rest
  BY IInvParts
<1>CallReleaseStep. \E e : CallsRelease(t, e) /\ (event[e].refs > 0 => Types' /\ Grows)
  <2>1. PICK e \in Known :
          /\ pc[t] = "idle" /\ "release" \in Ops /\ stopping = 0
          /\ \A u \in Threads : call[u].op # "finish" => e \notin InSeq(todo[u])
          /\ \A i \in 1 .. commands : e \in InSeq(cmd[i].list) => Complete(i) /\ ~InCall(i)
          /\ \A u \in Threads : call[u].op = "finish" => call[u].q # cmd[e].q
          /\ released' = released \cup {e}
          /\ call' = [call EXCEPT ![t] = [NoCall EXCEPT !.op = "release", !.part = e]]
          /\ Release(t, e)
          /\ UNCHANGED <<poolVars, events, localArgs, commands, cmd, hostRan, scan>>
    BY DEF CallRelease
  <2>2. /\ t \in Actors /\ Control /\ pc[t] \notin Waiting
        /\ Place(t) = "idle" /\ todo[t] = <<>> /\ call[t].op = "none"
    BY <2>1, IdleThread
  <2>3. e \in Enqueued /\ e \in Ids /\ e \in Nat /\ e \notin released
    <3>1. e \in Enqueued /\ e \in Ids
      BY <2>1, EnqueuedIds
    <3> QED BY SMTT(20), <2>1, <3>1 DEF Ids, Known
  <2>5. PICK c : c = [NoCall EXCEPT !.op = "release", !.part = e]
    OBVIOUS
  <2>6. c \in CallType /\ c.op = "release" /\ c.q = None /\ c.id = 0 /\ c.part = e
        /\ c.before = {}
    <3>1. c = [op |-> "release", q |-> None, id |-> 0, part |-> e, before |-> {}]
      BY <2>5 DEF NoCall
    <3>2. /\ "release" \in AllOps \cup {"none"} /\ 0 \in Nat /\ None \in Queues \cup {None}
          /\ {} \in SUBSET Ids
      BY DEF AllOps
    <3> QED BY <2>3, <3>1, <3>2 DEF CallType
  <2>7. call' = [call EXCEPT ![t] = c] /\ call \in [Threads -> CallType]
    BY <2>1, <2>5, TypesParts DEF CallTypes
  <2>8. /\ call' \in [Threads -> CallType] /\ call'[t] = c
        /\ \A u \in Threads \ {t} : call'[u] = call[u]
    BY <2>6, <2>7, CallSet
  <2>10. /\ event' = [event EXCEPT ![e].refs = event[e].refs - 1,
                   ![e].alive = event[e].alive /\ (event[e].refs > 1 \/ ~event[e].done)]
         /\ IF event[e].refs = 1 /\ ~event[e].done THEN WaitFor(t, <<e>>, "delete")
            ELSE Goto(t, "return") /\ UNCHANGED <<todo, then>>
    BY <2>1 DEF Release
  <2>11. IF event[e].refs = 1 /\ ~event[e].done THEN GoesTo(t, "delete", <<e>>)
         ELSE GoesTo(t, "return", <<>>)
    <3>1. CASE event[e].refs = 1 /\ ~event[e].done
      <4>1. <<e>> \in Seq(Ids) /\ "delete" \in Labels \ Waiting
        BY <2>3 DEF Labels, Waiting
      <4> QED BY <2>2, <2>10, <3>1, <4>1, WaitForMoves
    <3>2. CASE ~(event[e].refs = 1 /\ ~event[e].done)
      <4>1. "return" \in Labels \ Waiting
        BY DEF Labels, Waiting
      <4> QED BY <2>2, <2>10, <3>2, <4>1, GotoMoves
    <3> QED BY <3>1, <3>2
  <2>12. CallsRelease(t, e)
    BY <2>1, <2>2, <2>3, <2>6, <2>8, <2>10, <2>11 DEF CallsRelease, Enqueued
  <2>13. Grows
    BY <2>1 DEF Grows, Same, Enqueued, poolVars
  <2>14. ASSUME event[e].refs > 0 PROVE Types'
    <3>1. EventTypes /\ CallTypes /\ \A u \in Threads : CallOK(u)
      BY TypesParts DEF Types
    <3>2. EventTypes'
      <4>1. /\ event[e].refs - 1 \in Nat
            /\ (event[e].alive /\ (event[e].refs > 1 \/ ~event[e].done)) \in BOOLEAN
        BY SMTT(20), <2>3, <2>14, <3>1 DEF EventTypes, EventType
      <4>2. event' \in [Ids -> EventType]
        <5>1. PICK n \in Nat : n = event[e].refs - 1
          BY <4>1
        <5>2. PICK b \in BOOLEAN :
                b = (event[e].alive /\ (event[e].refs > 1 \/ ~event[e].done))
          BY <4>1
        <5>3. event' = [event EXCEPT ![e].refs = n, ![e].alive = b]
          BY <2>10, <5>1, <5>2
        <5> QED BY ZenonT(40), <2>3, <3>1, <5>3 DEF EventTypes, EventType
      <4> QED BY <2>1, <3>1, <4>2 DEF EventTypes
    <3>3. CallTypes' /\ Enqueued' = Enqueued
      BY <2>1, <2>3, <2>8, <3>1 DEF CallTypes, Enqueued
    <3>4. CallOK(t)'
      <4>1. Place(t)' \in Places("release")
        BY <2>11 DEF GoesTo, Places
      <4>   /\ "release" \notin Enqueues /\ "release" \in {"none", "wait", "release"}
            /\ "release" \notin {"wait", "finish"} /\ "release" # "finish"
            /\ {} \subseteq Enqueued
        BY DEF Enqueues
      <4>   /\ call'[t].op = "release" /\ call'[t].q = None /\ call'[t].id = 0
            /\ call'[t].part = e /\ call'[t].before = {} /\ e \in released'
        BY <2>1, <2>6, <2>8
      <4>4. /\ call'[t].id = 0 <=> call'[t].op \notin Enqueues
            /\ call'[t].before \subseteq Enqueued'
        OBVIOUS
      <4> QED BY <4>1, <4>4 DEF CallOK
    <3>5. \A u \in Threads \ {t} : call[u].op = "finish" /\ Place(u) = "unref"
                                    => call[u].part \notin released'
      BY <2>1, <3>1 DEF CallOK
    <3>6. call'[t].q \in {call[t].q, None}
      BY <2>6, <2>8
    <3>7. ASSUME NEW u \in Threads \ {t} PROVE KeepsApart(t, u)' /\ KeepsApart(u, t)'
      <4>1. call[u].op = "release" => call[u].part # e
        BY <2>3, <3>1 DEF CallOK
      <4> QED BY <2>1, <2>6, <2>8, <4>1 DEF KeepsApart
    <3> QED BY <2>1, <2>8, <2>11, <2>13, <3>2, <3>3, <3>4, <3>5, <3>6, <3>7, ThreadTypes
  <2> QED BY <2>12, <2>13, <2>14
\* An event that is released is in no wait list that is still to be waited for.
<1>ReleasedUnused. ASSUME NEW e, CallsRelease(t, e), NEW b \in Actors
      PROVE  e \notin InSeq(todo[b])
  <2> /\ CallsRelease(t, e)
      /\ b \in Actors
    BY <1>ReleasedUnused
  <2>1. Types /\ TasksOnce /\ Rest
    BY IInvParts
  <2>2. CASE b \in Threads
    <3>1. CASE call[b].op # "finish"
      BY <2>2, <3>1 DEF CallsRelease
    <3>2. CASE call[b].op = "finish"
      <4>1. SUFFICES ASSUME e \in InSeq(todo[b]) PROVE FALSE
        OBVIOUS
      <4>2. GoalOK(b) /\ CallOK(b) /\ call[b].q # cmd[e].q
        BY <2>1, <2>2, <3>2, ThreadActor DEF Rest, Types, CallsRelease
      <4>3. Waits(b) /\ e \in Goal(b)
        BY <4>1, <4>2, InSeqEmpty DEF GoalOK
      <4>4. e = call[b].part
        BY <2>2, <3>2, <4>3, ThreadActor DEF Goal
      <4>5. Place(b) = "unref"
        BY <2>2, <3>2, <4>2, <4>3 DEF Waits, CallOK, Places
      <4> QED BY <3>2, <4>2, <4>4, <4>5 DEF CallOK
    <3> QED BY <3>1, <3>2
  <2>3. CASE b \in Workers
    <3>1. SUFFICES ASSUME e \in InSeq(todo[b]) PROVE FALSE
      OBVIOUS
    <3>2. todo[b] # <<>>
      BY ZenonT(40), <3>1, InSeqEmpty
    <3>3. GoalOK(b) /\ WorkerOK(b) /\ b \notin Threads
      BY ZenonT(40), <2>1, <2>3, WorkerActor DEF Rest, Types
    <3>4. Place(b) = "body"
      BY <3>2, <3>3 DEF GoalOK, Waits, WorkerOK
    <3>5. busy[b] # NoTask /\ busy[b] \notin finished
      BY <2>1, <2>3, <3>3, <3>4 DEF WorkerOK, TasksOnce
    <3>6. e \in InSeq(cmd[busy[b][1]].list)
      BY <2>3, <3>1, <3>3, <3>5, WorkerGoal DEF GoalOK
    <3>7. TaskOK(busy[b]) /\ busy[b] \in Tasks
      BY ZenonT(40), <2>1, <2>3, <3>5 DEF Types, TasksOK, TypeOK
    <3>8. PICK i : i = busy[b][1]
      BY ZenonT(40)
    <3>   i \in Enqueued /\ busy[b] \in TasksOf(i) /\ cmd[i].op # "sync"
      <4>   i \in Enqueued /\ busy[b][2] \in 1 .. NumTasks(i) /\ busy[b] = <<i, busy[b][2]>>
        BY <3>7, <3>8 DEF TaskOK, Tasks
      <4>2. busy[b] \in TasksOf(i)
        BY DEF TasksOf
      <4>3. cmd[i].op # "sync"
        BY DEF NumTasks
      <4> QED BY <4>2, <4>3
    <3>10. Complete(i)
      BY <3>6, <3>8 DEF CallsRelease
    <3> QED BY <3>5, <3>10 DEF Complete
  <2> QED BY <2>2, <2>3 DEF Actors
<1>1. Types /\ TasksOnce /\ Rest /\ CallOK(t)
  BY IInvParts DEF Types
<1>2. PICK e : CallsRelease(t, e) /\ (event[e].refs > 0 => Types' /\ Grows)
  BY <1>1, <1>CallReleaseStep
<1>3. /\ Place(t) = "idle" /\ call[t].op = "none" /\ e \in Known /\ e \in Ids
      /\ released' = released \cup {e}
      /\ call'[t].op = "release" /\ call'[t].id = 0 /\ call'[t].part = e
      /\ \A u \in Threads \ {t} :
           call'[u] = call[u] /\ (call[u].op = "finish" => call[u].q # cmd[e].q)
      /\ event' = [event EXCEPT ![e].refs = event[e].refs - 1,
                     ![e].alive = event[e].alive /\ (event[e].refs > 1 \/ ~event[e].done)]
      /\ IF event[e].refs = 1 /\ ~event[e].done THEN GoesTo(t, "delete", <<e>>)
         ELSE GoesTo(t, "return", <<>>)
      /\ UNCHANGED <<poolVars, events, localArgs, commands, cmd, hostRan, scan>>
  BY <1>2 DEF CallsRelease
<1>4. e \in Enqueued /\ Free(e) /\ Past(e) /\ Made(e) /\ cmd[e].event /\ e \notin released
  BY <1>1, <1>3, KnownFree
<1>5. EventOK(e)
  BY <1>1, <1>4 DEF Rest
<1>6. call[t].id = 0 /\ \A j \in Enqueued : j # 0
  BY <1>1, <1>3, NoId
<1>SoleReleased. Sole(t, e)
  <2>1. ASSUME NEW u \in Threads \ {t}
        PROVE  call[u].id # e /\ ~Retains(u, e) /\ ~Deletes(u, e)
    <3>1. CallOK(u) /\ (call[u].op = "finish" => call[u].q # cmd[e].q)
      BY <1>1, <1>3, <2>1 DEF Types
    <3> QED BY <1>4, <3>1 DEF CallOK, Free, Retains, Deletes
  <2> QED BY <2>1 DEF Sole
<1>7. event[e].refs = 1 /\ event[e].alive
  <2>3. ~\E u \in Threads : Retains(u, e)
    BY <1>3, <1>SoleReleased DEF Sole, Retains
  <2> QED BY <1>4, <1>5, <2>3 DEF EventOK
<1>8. Types' /\ Grows
  BY <1>2, <1>7
<1>9. /\ event'[e].done = event[e].done /\ event'[e].tasksinfo = event[e].tasksinfo
      /\ event'[e].alive <=> ~event[e].done
      /\ \A j \in Enqueued \ {e} : event'[j] = event[j]
  <2>1. PICK n, b : n = event[e].refs - 1
                    /\ b = (event[e].alive /\ (event[e].refs > 1 \/ ~event[e].done))
    OBVIOUS
  <2>   event' = [event EXCEPT ![e].refs = n, ![e].alive = b]
    BY <1>3, <2>1
  <2>3. b <=> ~event[e].done
    <3>1. ~(event[e].refs > 1)
      BY <1>7
    <3> QED BY <1>7, <2>1, <3>1
  <2>40. event \in [Ids -> EventType] /\ e \in Ids
    BY <1>1, <1>3, EventIs, EnqueuedIds
  <2>41. RefsAliveOnly(e, n, b)
    <3>1. SetsRefsAlive(e, n, b)
      BY DEF SetsRefsAlive
    <3> QED BY <2>40, <3>1, RefsAliveSet
  <2>4. event'[e].alive = b
    BY <2>41 DEF RefsAliveOnly
  <2>5. event'[e].done = event[e].done /\ event'[e].tasksinfo = event[e].tasksinfo
    BY <2>41 DEF RefsAliveOnly
  <2>6. \A j \in Enqueued \ {e} : event'[j] = event[j]
    BY <1>1, EnqueuedIds DEF Types, TypeOK
  <2> QED BY <2>3, <2>4, <2>5, <2>6
<1>10. PICK label, s : /\ label = IF event[e].done THEN "return" ELSE "delete"
                       /\ s = IF event[e].done THEN <<>> ELSE <<e>>
  OBVIOUS
<1>11. GoesTo(t, label, s)
  BY <1>3, <1>7, <1>10
<1>12. /\ Enqueued' = Enqueued /\ hostRan' = hostRan /\ cmd' = cmd /\ events' = events
       /\ busy' = busy /\ finished' = finished
  BY <1>3 DEF poolVars, Enqueued
<1>13. Alone(t, label, s)
  BY <1>3, <1>11, <1>12 DEF Alone
<1>14. label \in {"return", "delete"}
  BY <1>10
<1>15. TasksOnce'
  BY <1>1, <1>3, <1>11, <1>14, ThreadKeepsOnce
<1>16. Place(t)' = label /\ todo'[t] = s /\ pc'[t] # "callback"
  BY <1>11 DEF GoesTo
<1>17. /\ \A j : ~Retains(t, j) /\ ~Retains(t, j)' /\ ~Deletes(t, j)
       /\ \A j : j # e => ~Deletes(t, j)'
  BY <1>3 DEF Retains, Deletes
<1>18. Deletes(t, e)' <=> ~event[e].done
  BY <1>3, <1>10, <1>16 DEF Deletes
<1>19. /\ Past(e)' /\ Made(e)' /\ Free(e)'
       /\ \A u \in Threads : Deletes(u, e)' => Deletes(t, e)'
  <2>1. /\ Past(e)' <=> (call'[t].id = e => label = "return")
        /\ Made(e)' <=> cmd[e].event /\ (call'[t].id = e => label # "create")
        /\ Free(e)' <=> call'[t].id # e
        /\ (\E u \in Threads : Deletes(u, e)') <=> Deletes(t, e)'
    BY <1>1, <1>4, <1>SoleReleased, <1>8, <1>13, OwnCommand
  <2> QED BY ZenonT(40), <1>3, <1>4, <1>6, <2>1
<1>20. EventOK(e)'
  <2>1. TasksOf(e)' = TasksOf(e) /\ (Complete(e) => Complete(e)')
    BY <1>4, <1>8, GrowsTasks
  <2>2. Ready(e)'
    BY <1>4, <1>5, <1>9, <1>12, <2>1 DEF Ready, EventOK
  <2>3. \A q \in Queues : e \in events'[q] <=> cmd'[e].q = q /\ ~event'[e].done
    BY <1>4, <1>5, <1>9, <1>12 DEF EventOK
  <2>4. e \in released' /\ cmd'[e].event
    BY <1>3, <1>4, <1>12
  <2>5. event'[e].done => Complete(e)'
    BY <1>4, <1>5, <1>9, <2>1 DEF EventOK
  <2>6. ~event'[e].alive => event'[e].done
    BY <1>9
  <2>7. ~event'[e].done => \E u \in Threads : Deletes(u, e)'
    BY <1>9, <1>18
  <2>8. \A u \in Threads : Deletes(u, e)' => event'[e].alive
    BY <1>9, <1>18, <1>19
  <2> QED BY <1>19, <2>2, <2>3, <2>4, <2>5, <2>6, <2>7, <2>8 DEF EventOK
<1>21. GoalOK(t)'
  <2>1. CASE event[e].done
    <3>   label = "return" /\ s = <<>>
      BY <1>10, <2>1
    <3>2. ~Waits(t)'
      BY <1>3, <1>16 DEF Waits
    <3> QED BY <1>16, <3>2, NoWaitGoal
  <2>2. CASE ~event[e].done
    <3>   label = "delete" /\ InSeq(s) = {e}
      BY <1>10, <2>2 DEF InSeq
    <3>2. Goal(t)' = {e}
      BY <1>3, ThreadActor DEF Goal
    <3>3. Waits(t)' /\ Place(t)' # "count"
      BY <1>16 DEF Waits
    <3> QED BY <1>16, <1>18, <1>19, <2>2, <3>2, <3>3 DEF GoalOK
  <2> QED BY <2>1, <2>2
<1>22. FinishTruthful(t)'
  BY <1>3 DEF FinishTruthful
<1>23. \A i \in Enqueued : Free(i)' <=> Free(i)
  BY <1>3, <1>6, <1>8, <1>13, AloneCommands
<1>24. \A i \in Enqueued : e \in InSeq(cmd[i].list) => Complete(i) /\ Free(i)
  <2>1. SUFFICES ASSUME NEW i \in Enqueued, e \in InSeq(cmd[i].list) PROVE Complete(i) /\ Free(i)
    OBVIOUS
  <2>   Complete(i) /\ ~InCall(i)
    BY <1>2, <2>1 DEF CallsRelease
  <2>4. i \in Returned
    BY <2>1 DEF Returned, Enqueued
  <2> QED BY <1>1, <2>4, ReturnedFree
<1> DEFINE E == {e}
<1>25. /\ \A j \in E \cap Enqueued : EventOK(j)' /\ (Made(j) /\ event[j].done => event'[j].done)
       /\ \A j \in Enqueued \ E :
           /\ event'[j].refs = event[j].refs /\ event'[j].alive = event[j].alive
           /\ event'[j].done = event[j].done /\ event'[j].tasksinfo = event[j].tasksinfo
           /\ \A q \in Queues : j \in events'[q] <=> j \in events[q]
           /\ j # call[t].id /\ j # call'[t].id
           /\ ~Retains(t, j) /\ ~Retains(t, j)' /\ ~Deletes(t, j) /\ ~Deletes(t, j)'
  BY ZenonT(40), <1>3, <1>6, <1>9, <1>12, <1>17, <1>20
<1>26. \A j \in released' \ released :
         /\ j \in E /\ \A b \in Actors \ {t} : j \notin InSeq(todo[b])
         /\ \A i \in Enqueued : j \in InSeq(cmd[i].list) => Complete(i) /\ Free(i)
  BY ZenonT(40), <1>2, <1>3, <1>24, <1>ReleasedUnused
<1> HIDE DEF E
<1>27. /\ \A q \in Queues : events'[q] \subseteq Enqueued'
       /\ \A i \in hostRan' \ hostRan : i \in Enqueued /\ \A j \in cmd[i].needs : Complete(j)
       /\ \A i \in Enqueued' \ Enqueued : EventOK(i)' /\ NeedsOK(i)'
  BY <1>1, <1>12 DEF Rest
<1>28. call'[t].id \notin Enqueued
  BY <1>3, <1>6
<1>29. ThreadEffect(t, E)
  BY <1>21, <1>22, <1>23, <1>25, <1>26, <1>27, <1>28 DEF ThreadEffect
<1> QED BY <1>8, <1>13, <1>15, <1>29, ThreadIInv

-----------------------------------------------------------------------------
\* The invariant holds

LEMMA StutterIInv == ASSUME IInv, UNCHANGED vars PROVE IInv'
<1>1. PoolTypes /\ EventTypes /\ CallTypes /\ Types
  BY IInvParts, TypesParts
<1>   UNCHANGED <<poolVars, eventVars, cmdVars, control, call, scan>>
  BY DEF vars
<1>3. PoolTypes' /\ EventTypes' /\ CallTypes'
  BY <1>1 DEF PoolTypes, EventTypes, CallTypes, poolVars, eventVars, cmdVars, Enqueued
<1>4. Types' /\ Grows /\ \A b \in Actors : Still(b)
  BY <1>1, <1>3, QuietTypes DEF poolVars
<1>5. UNCHANGED <<tasks, busy, finished, events, event, cmdVars, call>>
  BY DEF poolVars, eventVars
<1> QED BY <1>4, <1>5, AsideIInv

LEMMA NextIInv == ASSUME ReleaseApart PROVE IInv /\ [Next]_vars => IInv'
<1> SUFFICES ASSUME IInv, [Next]_vars PROVE IInv'
  OBVIOUS
<1>1. ASSUME NEW t \in Threads, Call(t) PROVE IInv'
  <2>1. PICK i : i = commands + 1
    OBVIOUS
  <2>2. CASE CallKernel(t) \/ CallCopy(t) \/ CallSync(t)
    <3>1. \E c : Enqueuing(t, c, i)
      BY <2>1, <2>2, IInvParts, CallKernelStep, CallCopyStep, CallSyncStep
    <3> QED BY <3>1, EnqueuingIInv
  <2>3. CASE CallRejected(t)
    BY <2>3, CallRejectedIInv
  <2>4. CASE CallWait(t)
    BY <2>4, CallWaitIInv
  <2>5. CASE CallFinish(t)
    BY <2>5, CallFinishIInv
  <2>6. CASE CallRelease(t)
    BY <2>6, CallReleaseIInv
  <2> QED BY <1>1, <2>2, <2>3, <2>4, <2>5, <2>6 DEF Call
<1>2. ASSUME NEW t \in Threads, Step(t) PROVE IInv'
  <2>1. CASE Wait(t)
    BY <2>1, WaitIInv, ThreadActor
  <2>2. CASE Create(t)
    BY <2>2, CreateIInv
  <2>3. CASE BestWorker(t)
    BY <2>3, BestWorkerIInv
  <2>4. CASE Schedule(t)
    BY <2>4, ScheduleIInv
  <2>5. CASE SetTasksinfo(t)
    BY <2>5, SetTasksinfoIInv
  <2>6. CASE Function(t)
    BY <2>6, FunctionIInv
  <2>7. CASE Finish(t)
    BY <2>7, FinishIInv
  <2>8. CASE Finished(t)
    BY <2>8, FinishedIInv
  <2>9. CASE Unref(t)
    BY <2>9, UnrefIInv
  <2>10. CASE Delete(t)
    BY <2>10, DeleteIInv
  <2>11. CASE Return(t)
    BY <2>11, ReturnIInv
  <2> QED BY <1>2, <2>1, <2>2, <2>3, <2>4, <2>5, <2>6, <2>7, <2>8, <2>9, <2>10, <2>11
          DEF Step
<1>3. ASSUME NEW w \in Workers, Work(w) PROVE IInv'
  <2>1. CASE Wait(w)
    BY <2>1, WaitIInv, WorkerActor
  <2>2. CASE Pop(w)
    BY <2>2, PopIInv
  <2>3. CASE Body(w)
    BY <2>3, BodyIInv
  <2>4. CASE Count(w)
    BY <2>4, CountIInv
  <2>5. CASE Exit(w)
    BY <2>5, ExitIInv
  <2> QED BY <1>3, <2>1, <2>2, <2>3, <2>4, <2>5 DEF Work
<1>4. CASE Stop
  BY <1>4, StopIInv
<1>5. CASE UNCHANGED vars
  BY <1>5, StutterIInv
<1> QED BY <1>1, <1>2, <1>3, <1>4, <1>5 DEF Next

LEMMA SpecIInv == ASSUME ReleaseApart PROVE Spec => []IInv
<1>1. IInv /\ [Next]_vars => IInv'
  BY NextIInv
<1> QED BY <1>1, InitIInv, PTL DEF Spec

\* Every variable has its type; the unsigned m_numTasks of a worker never falls
\* below zero, although the worker decreases it only after its task.  Like the theorems
\* below, for an application that keeps the release of an event apart from
\* urQueueFinish of the event's queue.
THEOREM TypeCorrect == ASSUME ReleaseApart PROVE Spec => []TypeOK
<1>1. IInv => TypeOK
  BY DEF IInv, Types
<1> QED BY <1>1, SpecIInv, PTL

\* Tasks and commands run in host threads only when everything that they wait for
\* has run, whatever worker takes which task when.
THEOREM NeedsAreMet == ASSUME ReleaseApart PROVE Spec => []NeedsMet
<1>1. IInv => NeedsMet
  BY DEF IInv
<1> QED BY <1>1, SpecIInv, PTL

\* urEventWait and urQueueFinish return only when the commands have run, and events
\* are done only then.
THEOREM WaitsAreTruthful == ASSUME ReleaseApart PROVE Spec => []WaitsTruthful
<1>1. IInv => WaitsTruthful
  BY DEF IInv
<1> QED BY <1>1, SpecIInv, PTL

\* The wait list and the kernel copy that a task uses live until it has run, and no
\* event is deleted while a thread or a worker waits for it, if the application keeps
\* urEventRelease apart from urQueueFinish of the event's queue: when they overlap,
\* finish can retain an event whose destructor waits already, and delete it.  The
\* release may overlap every other call on the queue.
THEOREM EventsOutlive == ASSUME ReleaseApart PROVE Spec => []EventsOutliveUse
BY IInvOutlive, SpecIInv, PTL

=============================================================================
