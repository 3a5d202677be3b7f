---------------------- MODULE BatchedQueueOrderProofs -----------------------
(***************************************************************************)
(* Proofs about BatchedQueue, second part: commands run in the order of    *)
(* the calls, a finished queue is drained, pending commands keep their     *)
(* list and their kernel, no command is submitted before the events it     *)
(* waits on, and runBatches never outgrows the slots reserved for it.      *)
(***************************************************************************)
EXTENDS BatchedQueueProofs

\* The provers of the leaves that name none
USE ZenonT(20), SMTT(15), Z3T(15)

\* When the immediate list of a batched queue is drained at the end of
\* queueFinishUnlocked, nothing but host tasks of a batch counted as empty is left.
LEMMA SyncDrains ==
  ASSUME Base, Core, Ledger, NEW t \in Threads, NEW q \in Queues, lock[q] = t,
         pc[t] = "sync", imm[q] = <<>>, NEW c \in Ids \ done, cmd[c].q = q
  PROVE  /\ ActiveEmpty(batch[q])
         /\ c \in HostTasks
         /\ cmd[c].list = batch[q].active
<1>1. q \in AllQueues /\ InSeq(imm[q]) = {}
  BY InSeqEmpty DEF AllQueues
<1>   c \notin Submitted
  BY <1>1, SubmittedWhere DEF Ledger
<1>   c \in InSeq(listCmds[batch[q].active]) /\ cmd[c].list = batch[q].active
  BY UnsubmittedWhere DEF Ledger
<1>4. ActiveEmpty(batch[q])
  BY DEF Core, SubmittedAtSync
<1> QED BY <1>4 DEF Ledger, ActiveUnsubmitted

\* The end of a wait keeps the ledger.
LEMMA SynchronizeLedger ==
  ASSUME Base, Core, Ledger, NEW t \in Threads, NEW q \in Queues, Synchronize(t, q)
  PROVE  Ledger'
<1> DEFINE b == batch[q]
<1>1. /\ pc[t] = "sync" /\ lock[q] = t /\ imm[q] = <<>>
      /\ pc' = [pc EXCEPT ![t] = after[t]]
      /\ listCmds' = IF ActiveEmpty(b) THEN listCmds
                     ELSE [listCmds EXCEPT ![b.active] = <<>>]
      /\ batch' = [batch EXCEPT ![q] = Finished(b)]
      /\ kernels' = [kernels EXCEPT ![q] = {}]
      /\ UNCHANGED <<lock, imm, cmd, done>>
  BY DEF Synchronize, Goto
<1>2. /\ b \in BatchManager /\ b.active \in Lists /\ q \in AllQueues
  BY DEF Base, TypeOK, BatchManager, AllQueues
<1>3. Submitted' = Submitted /\ Ids' = Ids /\ HostTasks' = HostTasks
  BY <1>1 DEF Submitted, Ids, HostTasks
<1>4. /\ batch'[q] = Finished(b)
      /\ \A p \in Queues \ {q} : batch'[p] = batch[p]
  BY <1>1 DEF Base, TypeOK
<1>5. /\ batch'[q].gen = IF ActiveEmpty(b) THEN b.gen ELSE b.gen + 1
      /\ batch'[q].ops = 0 /\ batch'[q].run = {} /\ batch'[q].active = b.active
  BY <1>4 DEF Finished
<1>6. \A m \in Lists \ {b.active} : listCmds'[m] = listCmds[m]
  BY <1>1 DEF Base, TypeOK
<1>7. \A p \in Queues \ {q} :
        listCmds'[batch'[p].active] = listCmds[batch[p].active]
  BY <1>4, <1>6, OtherActive
<1>8. /\ ActiveEmpty(b) => listCmds' = listCmds
      /\ ~ActiveEmpty(b) => /\ listCmds'[b.active] = <<>>
                            /\ InSeq(listCmds'[b.active]) = {}
  BY <1>1, <1>2, InSeqEmpty DEF Base, TypeOK
<1>9. \A p \in Queues \ {q} : InSync(p) => InSync(p)'
  <2>1. \A p \in Queues \ {q} : lock[p] # t
    BY <1>1 DEF Base, LockDiscipline, AllQueues
  <2> QED BY SMTT(30), Z3T(30), <1>1, <2>1 DEF InSync, Base, TypeOK
<1>10. Placed'
  <2>1. \A p \in Queues : \A c \in InSeq(listCmds'[batch'[p].active]) :
          /\ cmd[c].q = p
          /\ cmd[c].gen = batch'[p].gen
          /\ cmd[c].list = batch'[p].active
    BY SMTT(30), Z3T(30), <1>4, <1>5, <1>7, <1>8 DEF Ledger, Placed
  <2>   cmd' = cmd /\ imm' = imm /\ done' = done
    BY <1>1
  <2>3. \A p \in AllQueues : \A c \in InSeq(imm'[p]) : cmd'[c].q = p /\ c \notin done'
    BY SMTT(30), Z3T(30) DEF Ledger, Placed
  <2>4. \A c \in Ids' : cmd'[c].gen = NoGen => c \in Submitted' /\ cmd'[c].list = None
    BY <1>3 DEF Ledger, Placed
  <2> QED BY SMTT(30), Z3T(30), <2>1, <2>3, <2>4 DEF Placed
<1>11. ActiveUnsubmitted'
  <2> SUFFICES ASSUME NEW p \in Queues
               PROVE  /\ ActiveEmpty(batch'[p]) =>
                           InSeq(listCmds'[batch'[p].active]) \subseteq HostTasks
                      /\ ActiveEmpty(batch'[p]) \/ ~InSync(p)' =>
                           InSeq(listCmds'[batch'[p].active]) \cap Submitted = {}
    BY <1>3 DEF ActiveUnsubmitted, InSync
  <2>   /\ ActiveEmpty(batch[p]) =>
             InSeq(listCmds[batch[p].active]) \subseteq HostTasks
        /\ ActiveEmpty(batch[p]) \/ ~InSync(p) =>
             InSeq(listCmds[batch[p].active]) \cap Submitted = {}
    BY DEF Ledger, ActiveUnsubmitted, InSync
  <2>2. CASE p = q
    BY SMTT(30), Z3T(30), <1>5, <1>8, <2>2
  <2>3. CASE p # q
    BY <1>4, <1>7, <1>9, <2>3
  <2> QED BY <2>2, <2>3
<1>12. Sequenced'
  <2>1. \A p \in Queues : InOrder(listCmds'[batch'[p].active], {})
    BY <1>5, <1>7, <1>8, InOrderEmpty DEF Ledger, Sequenced
  <2> QED BY ZenonT(40), <1>1, <1>3, <2>1 DEF Ledger, Sequenced
<1>13. RunsInOrder'
  BY <1>1, <1>3 DEF Ledger, RunsInOrder
<1>14. PendingCommandsOwned'
  <2> SUFFICES ASSUME NEW c \in Ids \ done
               PROVE  /\ cmd[c].list # None =>
                           /\ cmd[c].list \in batch'[cmd[c].q].run
                                                \cup {batch'[cmd[c].q].active}
                           /\ c \in InSeq(listCmds'[cmd[c].list])
                      /\ cmd[c].kind = "op" => c \in kernels'[cmd[c].q]
    BY SMTT(30), Z3T(30), <1>1, <1>3 DEF PendingCommandsOwned
  <2>   /\ cmd[c].list # None =>
             /\ cmd[c].list \in batch[cmd[c].q].run \cup {batch[cmd[c].q].active}
             /\ c \in InSeq(listCmds[cmd[c].list])
             /\ cmd[c].q \in Queues
             /\ cmd[c].list \in Lists
        /\ cmd[c].kind = "op" => c \in kernels[cmd[c].q]
        /\ cmd[c].q \in AllQueues
    BY ListOwner, CommandOf DEF Ledger, PendingCommandsOwned, Base, Command
  <2>2. CASE cmd[c].q = q
    <3>   ActiveEmpty(b) /\ c \in HostTasks /\ cmd[c].list = b.active
      BY <1>1, <2>2, SyncDrains
    <3>2. cmd[c].kind # "op"
      BY DEF HostTasks
    <3> QED BY SMTT(30), Z3T(30), <1>5, <1>8, <2>2, <3>2
  <2>3. CASE cmd[c].q # q
    <3>   cmd[c].kind = "op" => c \in kernels'[cmd[c].q]
      BY SMTT(30), Z3T(30), <1>1, <2>3 DEF Base, TypeOK
    <3>2. CASE cmd[c].list # None
      <4>1. cmd[c].list # b.active
        BY <2>3, <3>2 DEF Core, ListsApart
      <4> QED BY ZenonT(40), <1>4, <1>6, <2>3, <3>2, <4>1
    <3> QED BY SMTT(30), Z3T(30), <3>2
  <2> QED BY <2>2, <2>3
<1> QED BY SMTT(30), Z3T(30), <1>10, <1>11, <1>12, <1>13, <1>14 DEF Ledger

\* The device runs the oldest pending command of a queue, which keeps the ledger.
LEMMA ExecuteLedger ==
  ASSUME Base, Core, Ledger, NEW q \in AllQueues, Execute(q)
  PROVE  Ledger'
<1> DEFINE h == Head(imm[q])
<1>1. /\ imm[q] # <<>> /\ done' = done \cup {h}
      /\ imm' = [imm EXCEPT ![q] = Tail(imm[q])]
      /\ UNCHANGED <<lock, batch, listCmds, cmd, kernels, pc>>
  BY DEF Execute
<1>2. /\ imm[q] \in Seq(Nat) /\ InSeq(imm[q]) \subseteq Ids
      /\ Submitted \subseteq Ids /\ Ids \subseteq Nat
  BY IdsKnown
<1>3. imm'[q] = Tail(imm[q]) /\ \A p \in AllQueues \ {q} : imm'[p] = imm[p]
  BY <1>1 DEF Base, TypeOK
<1>4. InSeq(imm[q]) = {h} \cup InSeq(imm'[q])
  BY ExecuteBase
<1> HIDE DEF h
<1>5. InOrder(imm[q], HostTasks)
  BY DEF Ledger, Sequenced
<1>6. /\ InOrder(imm'[q], HostTasks)
      /\ \A y \in InSeq(imm'[q]) : y # h /\ (h < y \/ y \in HostTasks)
  BY SMTT(30), Z3T(30), <1>1, <1>2, <1>3, <1>5, InOrderTail DEF h
<1>7. /\ h \in Ids /\ h \in Submitted /\ cmd[h].q = q /\ h \notin done
  BY <1>2, <1>4, SubmittedWhere DEF Ledger, Placed
<1>8. Ids' = Ids /\ HostTasks' = HostTasks /\ \A p \in Queues : InSync(p)' = InSync(p)
  BY <1>1 DEF Ids, HostTasks, InSync
<1>9. Submitted' = Submitted
  <2>1. \A c : c \in Submitted' <=> c \in done' \/ \E p \in AllQueues : c \in InSeq(imm'[p])
    BY DEF Submitted
  <2>2. \A c : c \in Submitted <=> c \in done \/ \E p \in AllQueues : c \in InSeq(imm[p])
    BY DEF Submitted
  <2>3. \A c : c \in Submitted' <=> c \in Submitted
    BY <1>1, <1>3, <1>4, <2>1, <2>2
  <2> QED BY <2>3
<1>10. Placed'
  <2>1. ASSUME NEW p \in AllQueues, NEW c \in InSeq(imm'[p])
        PROVE  cmd'[c].q = p /\ c \notin done'
    <3>1. c \in InSeq(imm[p])
      BY <1>3, <1>4, <2>1
    <3>   cmd[c].q = p /\ c \notin done
      BY <3>1 DEF Ledger, Placed
    <3>3. c # h
      <4>1. CASE p = q
        BY <1>6, <2>1, <4>1
      <4>2. CASE p # q
        BY <1>7, <4>2
      <4> QED BY <4>1, <4>2
    <3> QED BY <1>1, <3>3
  <2>2. \A p \in Queues : \A c \in InSeq(listCmds'[batch'[p].active]) :
          /\ cmd'[c].q = p
          /\ cmd'[c].gen = batch'[p].gen
          /\ cmd'[c].list = batch'[p].active
    BY <1>1 DEF Ledger, Placed
  <2>3. \A c \in Ids' : cmd'[c].gen = NoGen => c \in Submitted' /\ cmd'[c].list = None
    BY <1>1, <1>8, <1>9 DEF Ledger, Placed
  <2> QED BY <2>1, <2>2, <2>3 DEF Placed
<1>11. ActiveUnsubmitted'
  BY <1>1, <1>8, <1>9 DEF Ledger, ActiveUnsubmitted
<1>12. Sequenced'
  <2>1. \A p \in AllQueues : InOrder(imm'[p], HostTasks')
    BY <1>3, <1>6, <1>8 DEF Ledger, Sequenced
  <2>2. \A p \in Queues : InOrder(listCmds'[batch'[p].active], {})
    BY <1>1 DEF Ledger, Sequenced
  <2>3. \A c \in Submitted', d \in Ids' \ (Submitted' \cup HostTasks') :
          cmd'[d].q = cmd'[c].q => c < d
    BY <1>1, <1>8, <1>9 DEF Ledger, Sequenced
  <2> QED BY <2>1, <2>2, <2>3 DEF Sequenced
<1>13. RunsInOrder'
  <2> SUFFICES ASSUME NEW c \in done', NEW d \in Ids, d < c, cmd[d].q = cmd[c].q,
                      cmd[d].kind # "hosttask"
               PROVE  d \in done'
    BY <1>1, <1>8 DEF RunsInOrder
  <2>1. CASE c \in done
    BY <1>1, <2>1 DEF Ledger, RunsInOrder
  <2>2. CASE c = h
    <3>   d \notin HostTasks /\ d \in Nat /\ h \in Nat
      BY <1>2, <1>7 DEF HostTasks
    <3>2. CASE d \notin Submitted
      <4>1. h < d
        BY <1>7, <2>2, <3>2 DEF Ledger, Sequenced
      <4> QED BY <2>2, <4>1
    <3>3. CASE d \in InSeq(imm[q])
      <4>1. d # h
        BY <2>2
      <4>2. h < d
        BY <1>4, <1>6, <3>3, <4>1
      <4> QED BY <2>2, <4>2
    <3>4. CASE d \in done
      BY <1>1, <3>4
    <3> QED BY <1>7, <2>2, <3>2, <3>3, <3>4, SubmittedWhere DEF Ledger
  <2> QED BY <1>1, <2>1, <2>2
<1>14. PendingCommandsOwned'
  <2>1. \A c \in Ids' \ done' : c \in Ids \ done
    BY <1>1, <1>8
  <2> QED BY <1>1, <2>1 DEF Ledger, PendingCommandsOwned
<1> QED BY <1>10, <1>11, <1>12, <1>13, <1>14 DEF Ledger

\* All commands of an immediate queue go to its immediate list.
LEMMA ImmDrained ==
  ASSUME Base, Core, Ledger, NEW q \in ImmQueues, imm[q] = <<>>
  PROVE  \A c \in Ids : cmd[c].q = q => c \in done
<1> SUFFICES ASSUME NEW c \in Ids, cmd[c].q = q PROVE c \in done
  OBVIOUS
<1>1. c \in Submitted
  BY QueuesAssumption, UnsubmittedWhere DEF Ledger
<1>2. InSeq(imm[q]) = {}
  BY InSeqEmpty
<1> QED BY <1>1, <1>2, SubmittedWhere DEF Ledger

\* The steps of an immediate queue keep the ledger.
LEMMA ImmLedger ==
  ASSUME Base, Base', Core, Ledger, NEW t \in Threads, NEW q \in ImmQueues,
         \/ ImmEnqueue(t, q) \/ ImmAppend(t, q) \/ ImmFinish(t, q)
         \/ ImmSynchronize(t, q)
  PROVE  Ledger'
<1>1. /\ UNCHANGED <<batch, listCmds, done>>
      /\ \E l : pc' = [pc EXCEPT ![t] = l]
      /\ (lock' = lock /\ lock[q] = t) \/ lock' = [lock EXCEPT ![q] = t]
      /\ q \in AllQueues /\ q \notin Queues /\ Queues \subseteq AllQueues
  BY QueuesAssumption
     DEF ImmEnqueue, ImmAppend, ImmFinish, ImmSynchronize, Enter, Goto, AllQueues
<1>2. lock'[q] = t /\ \A p \in Queues : lock'[p] = lock[p]
  BY <1>1 DEF Base, TypeOK
<1>3. \A p \in Queues : lock[p] # t
  BY <1>1, <1>2 DEF Base, LockDiscipline
<1>4. \A p \in Queues : InSync(p) => InSync(p)'
  BY ZenonT(40), <1>1, <1>2, <1>3 DEF InSync, Base, TypeOK
<1>5. CASE UNCHANGED <<imm, cmd, kernels>>
  BY <1>1, <1>4, <1>5, LedgerKeep, ListOwner DEF Ledger
<1>6. CASE ImmAppend(t, q)
  <2> DEFINE new == [q |-> q, kind |-> call[t].kind, waits |-> call[t].waits,
                     gen |-> NoGen, list |-> None]
  <2>1. /\ cmd' = Append(cmd, new)
        /\ imm' = [imm EXCEPT ![q] = Append(imm[q], Len(cmd) + 1)]
        /\ kernels' = Retained(q, call[t].kind, Len(cmd) + 1)
        /\ UNCHANGED <<batch, listCmds, done>>
    BY <1>6 DEF ImmAppend
  <2>2. new \in Command /\ new.q = q /\ new.gen = NoGen /\ new.list = None
    <3>1. call[t] \in ApiCall
      BY DEF Base, TypeOK
    <3>2. call[t].kind \in AllKinds /\ call[t].waits \in SUBSET Nat /\ NoGen \in Int
      BY SMTT(20), <3>1 DEF ApiCall, NoGen
    <3> QED BY <1>1, <3>2 DEF Command
  <2>3. /\ \A p \in AllQueues : kernels[p] \subseteq kernels'[p]
        /\ new.kind = "op" => Len(cmd) + 1 \in kernels'[q]
    BY <1>1, <2>1 DEF Retained, Base, TypeOK
  <2>4. \A d \in Ids \ (Submitted \cup HostTasks) : cmd[d].q # q
    BY <1>1, UnsubmittedWhere DEF Ledger
  <2> HIDE DEF new
  <2> QED BY <1>1, <1>4, <2>1, <2>2, <2>3, <2>4, DirectLedger
<1>7. CASE ImmSynchronize(t, q)
  <2>   /\ imm[q] = <<>> /\ UNCHANGED <<imm, cmd, batch, listCmds, done, lock>>
        /\ kernels' \in {kernels, [kernels EXCEPT ![q] = {}]}
    BY ZenonT(40), <1>7 DEF ImmSynchronize
  <2>2. \A c \in Ids : cmd[c].q = q => c \in done
    BY ImmDrained
  <2>   Submitted' = Submitted /\ Ids' = Ids /\ HostTasks' = HostTasks
    BY DEF Submitted, Ids, HostTasks
  <2>4. \A p \in AllQueues \ {q} : kernels'[p] = kernels[p]
    BY SMTT(30), Z3T(30) DEF Base, TypeOK
  <2>5. \A c \in Ids : cmd[c].q \in AllQueues
    BY CommandOf DEF Base, Command
  <2>6. PendingCommandsOwned'
    BY <2>2, <2>4, <2>5 DEF Ledger, PendingCommandsOwned
  <2>7. Placed'
    BY DEF Ledger, Placed
  <2>8. ActiveUnsubmitted'
    BY <1>4 DEF Ledger, ActiveUnsubmitted, InSync
  <2>9. Sequenced' /\ RunsInOrder'
    BY DEF Ledger, Sequenced, RunsInOrder
  <2> QED BY SMTT(30), Z3T(30), <2>6, <2>7, <2>8, <2>9 DEF Ledger
<1> QED BY <1>5, <1>6, <1>7 DEF ImmEnqueue, ImmFinish, Enter

-----------------------------------------------------------------------------
\* The calls

\* A step of t leaves the other threads, the batches of the queues they have
\* locked and the commands of these queues alone.

Confined(t) ==
  /\ \A u \in Threads \ {t} :
       /\ pc'[u] = pc[u] /\ call'[u] = call[u] /\ after'[u] = after[u]
       /\ \A p \in AllQueues :
            /\ lock'[p] = u <=> lock[p] = u
            /\ lock[p] = u => \A c \in Ids' : cmd'[c].q = p => c \in Ids
       /\ \A p \in Queues : lock[p] = u => batch'[p] = batch[p]
  /\ Ids \subseteq Ids'
  /\ \A c \in Ids : cmd'[c] = cmd[c]
  /\ done \subseteq done'

\* What is left to show of a step of t.
LEMMA CallsStep ==
  ASSUME CallsInPlace, FinishRuns, NEW t \in Threads, Confined(t),
         CallInPlace(t)', FinishRun(t)',
         \A q \in Queues : batch'[q].capture => ActiveEmpty(batch'[q]),
         \A c \in Ids' : c \notin Ids => cmd'[c].kind \in Kinds
  PROVE  CallsInPlace' /\ FinishRuns'
<1>1. ASSUME NEW u \in Threads \ {t} PROVE CallInPlace(u)' /\ FinishRun(u)'
  <2>1. /\ pc'[u] = pc[u] /\ call'[u] = call[u] /\ after'[u] = after[u]
        /\ \A p \in AllQueues : lock'[p] = u <=> lock[p] = u
        /\ \A p \in Queues : lock[p] = u => batch'[p] = batch[p]
        /\ \A p \in AllQueues : lock[p] = u => \A c \in Ids' : cmd'[c].q = p => c \in Ids
    BY ZenonT(40) DEF Confined
  <2>2. CallInPlace(u) /\ FinishRun(u)
    BY DEF CallsInPlace, FinishRuns
  <2>3. Resume(u)' = Resume(u)
    BY <2>1 DEF Resume
  <2>4. CallInPlace(u)'
    BY ZenonT(40), <2>1, <2>2, <2>3 DEF CallInPlace, AtEmpty, AllQueues
  <2>5. FinishRun(u)'
    <3> SUFFICES ASSUME pc[u] = "return", call[u].kind \in {"finish", "blockingop"},
                        call[u].q \in Queues => ~batch'[call[u].q].capture,
                        NEW c \in Ids' \ HostTasks', cmd'[c].q = call[u].q
                 PROVE  c \in done'
      BY ZenonT(40), <2>1 DEF FinishRun
    <3>1. call[u].q \in AllQueues /\ lock[call[u].q] = u
      BY <2>2 DEF CallInPlace, Resume
    <3>   c \in Ids /\ cmd'[c] = cmd[c]
      BY ZenonT(40), <2>1, <3>1 DEF Confined
    <3>3. c \notin HostTasks
      BY DEF HostTasks, Confined
    <3>4. call[u].q \in Queues => ~batch[call[u].q].capture
      BY SMTT(30), Z3T(30), <2>1, <3>1
    <3>5. c \in done
      BY ZenonT(40), <2>2, <3>3, <3>4 DEF FinishRun
    <3> QED BY <3>5 DEF Confined
  <2> QED BY <2>4, <2>5
<1>2. \A c \in Ids' : cmd'[c].kind \in Kinds
  BY ZenonT(40) DEF Confined, CallsInPlace
<1>3. \A u \in Threads : CallInPlace(u)' /\ FinishRun(u)'
  BY <1>1
<1> QED BY <1>2, <1>3 DEF CallsInPlace, FinishRuns

\* A step of t with the lock of q that moves no command is confined.
LEMMA LockConfines ==
  ASSUME Base, NEW t \in Threads, NEW q \in AllQueues,
         \E l : pc' = [pc EXCEPT ![t] = l],
         \E l : after' = [after EXCEPT ![t] = l],
         \E c : call' = [call EXCEPT ![t] = c],
         \/ lock' = lock /\ lock[q] = t
         \/ lock' = [lock EXCEPT ![q] = t] /\ lock[q] = None
         \/ lock' = [lock EXCEPT ![q] = None] /\ lock[q] = t,
         \A p \in Queues \ {q} : batch'[p] = batch[p],
         UNCHANGED <<cmd, done>>
  PROVE  Confined(t)
<1>1. /\ lock[q] \in {t, None} /\ lock'[q] \in {t, None}
      /\ \A p \in AllQueues \ {q} : lock'[p] = lock[p]
  BY DEF Base, TypeOK
<1>2. \A u \in Threads \ {t}, p \in AllQueues :
        (lock'[p] = u <=> lock[p] = u) /\ (lock[p] = u => p # q)
  BY SMTT(20), <1>1, NoneAssumption
<1>3. Ids' = Ids
  BY DEF Ids
<1>4. \A u \in Threads \ {t} :
        pc'[u] = pc[u] /\ call'[u] = call[u] /\ after'[u] = after[u]
  BY DEF Base, TypeOK
<1> QED BY ZenonT(40), <1>2, <1>3, <1>4 DEF Confined, AllQueues

\* Submitting, renewing or finishing goes on at "next", now or after the wait.
LEMMA MovedResume ==
  ASSUME Base, NEW t \in Threads, NEW q, NEW next \in Labels \ {"sync"},
         Moved(t, q, next)
  PROVE  /\ Resume(t)' = next
         /\ pc'[t] \in {next, "sync"}
         /\ \E l : pc' = [pc EXCEPT ![t] = l]
         /\ \E l : after' = [after EXCEPT ![t] = l]
<1>   pc \in [Threads -> Labels] /\ after \in [Threads -> Labels]
  BY DEF Base, TypeOK
<1>2. CASE pc' = [pc EXCEPT ![t] = next] /\ after' = after
  <2>1. after' = [after EXCEPT ![t] = after[t]]
    BY <1>2
  <2> QED BY <1>2, <2>1 DEF Resume
<1>3. CASE pc' = [pc EXCEPT ![t] = "sync"] /\ after' = [after EXCEPT ![t] = next]
  BY <1>3 DEF Resume
<1> QED BY <1>2, <1>3 DEF Moved

\* What queueFinishUnlocked and renewBatchUnlocked do to the batches: a call that
\* need not wait goes on with an empty batch.
LEMMA MovedBatch ==
  ASSUME Base, CallsInPlace, NEW t \in Threads, NEW q \in Queues,
         NEW next \in Labels \ {"sync"},
         FinishUnlocked(t, q, next) \/ RenewBatch(t, q, next)
  PROVE  /\ \A p \in Queues \ {q} : batch'[p] = batch[p]
         /\ \A p \in Queues : batch'[p].capture => ActiveEmpty(batch'[p])
         /\ pc'[t] = next => ActiveEmpty(batch'[q])
         /\ FinishUnlocked(t, q, next) /\ pc'[t] = next => batch'[q].capture
<1>1. \A p \in Queues : batch[p].capture => ActiveEmpty(batch[p])
  BY DEF CallsInPlace
<1>2. CASE FinishUnlocked(t, q, next)
  <2>1. batch' = batch
    BY <1>2 DEF FinishUnlocked
  <2>2. pc'[t] = next => batch[q].capture
    BY <1>2 DEF FinishUnlocked, Goto, Base, TypeOK
  <2> QED BY <1>1, <2>1, <2>2
<1>3. CASE RenewBatch(t, q, next) /\ ~UsedListsLimit(batch[q])
  <2>1. PICK l : batch' = [batch EXCEPT ![q] = Renewed(batch[q], l)]
    BY <1>3 DEF RenewBatch
  <2>   batch'[q] = Renewed(batch[q], l) /\ \A p \in Queues \ {q} : batch'[p] = batch[p]
    BY <2>1 DEF Base, TypeOK
  <2>3. batch'[q].ops = 0
    BY DEF Renewed
  <2>4. CASE FinishUnlocked(t, q, next)
    BY <1>2, <2>4
  <2>5. CASE ~FinishUnlocked(t, q, next)
    BY <1>1, <2>3, <2>5 DEF ActiveEmpty
  <2> QED BY <2>4, <2>5
<1> QED BY <1>2, <1>3 DEF RenewBatch

\* A step that takes the lock of q, or is inside it, ends no wait elsewhere.
LEMMA AtLockHeld ==
  ASSUME Base, NEW t \in Threads, NEW q \in Queues,
         \E l : pc' = [pc EXCEPT ![t] = l], pc[t] # "sync",
         \/ lock' = lock /\ lock[q] = t
         \/ lock' = [lock EXCEPT ![q] = t] /\ lock[q] = None,
         UNCHANGED <<cmd, done, kernels>>
  PROVE  AtLock(t, q)
<1>1. q \in AllQueues /\ Queues \subseteq AllQueues
  BY DEF AllQueues
<1>   /\ lock[q] \in {t, None} /\ lock'[q] = t
      /\ \A p \in Queues \ {q} : lock'[p] = lock[p]
  BY <1>1 DEF Base, TypeOK
<1>3. \A u \in Threads \ {t} : pc'[u] = pc[u]
  BY DEF Base, TypeOK
<1>4. ~InSync(q)
  BY NoneAssumption DEF InSync
<1>5. \A p \in Queues \ {q} : InSync(p) => InSync(p)'
  BY <1>3 DEF InSync
<1> QED BY <1>4, <1>5 DEF AtLock

\* What to show of the call that makes the step.
LEMMA InPlaceNext ==
  ASSUME NEW t,
         Resume(t)' \in {"append", "post", "capture", "return"} =>
           call'[t].q \in AllQueues /\ lock'[call'[t].q] = t /\ call'[t].todo = {},
         Resume(t)' = "append" => call'[t].kind \in Marked \cup Direct \cup {"hosttask"},
         pc'[t] # "idle" => call'[t].kind \in Kinds,
         \A p \in Queues : lock'[p] = t /\ AtEmpty(t)' => ActiveEmpty(batch'[p])
  PROVE  CallInPlace(t)'
BY DEF CallInPlace

\* A call that has entered stands where its kind goes on.
LEMMA EnterCalls ==
  ASSUME Base, CallsInPlace, FinishRuns, NEW t \in Threads, NEW q \in Queues, NEW k,
         Enter(t, q, k), NEW next \in {"append", "return", "capture"},
         Moved(t, q, next),
         \A p \in Queues \ {q} : batch'[p] = batch[p],
         \A p \in Queues : batch'[p].capture => ActiveEmpty(batch'[p]),
         next = "append" => k \in Marked \cup Direct \cup {"hosttask"},
         (next = "capture" \/ k \in Direct) /\ pc'[t] = next => ActiveEmpty(batch'[q]),
         k \in {"finish", "blockingop"} /\ pc'[t] = "return" => batch'[q].capture
  PROVE  CallsInPlace' /\ FinishRuns'
<1>   /\ pc[t] = "waitlist" /\ call[t].kind = k /\ call[t].q = q
      /\ call[t].todo = {} /\ lock[q] = None /\ lock' = [lock EXCEPT ![q] = t]
      /\ UNCHANGED <<cmd, done, call>>
  BY DEF Enter
<1>2. q \in AllQueues /\ lock'[q] = t /\ call'[t] = call[t] /\ Ids' = Ids
  BY DEF Base, TypeOK, AllQueues, Ids
<1>3. next \in Labels \ {"sync"} /\ next \notin {"idle", "waitlist", "release", "post"}
  BY DEF Labels
<1>4. /\ Resume(t)' = next
      /\ pc'[t] \in {next, "sync"}
      /\ \E l : pc' = [pc EXCEPT ![t] = l]
      /\ \E l : after' = [after EXCEPT ![t] = l]
  BY <1>3, MovedResume
<1>5. \E c : call' = [call EXCEPT ![t] = c]
  <2>1. call' = [call EXCEPT ![t] = call[t]]
    BY DEF Base, TypeOK
  <2> QED BY <2>1
<1>6. Confined(t)
  BY ZenonT(40), <1>2, <1>4, <1>5, LockConfines
<1>7. call[t].kind \in Kinds
  BY DEF CallsInPlace, CallInPlace
<1>8. \A p \in Queues : lock'[p] = t => p = q
  <2>1. \A p \in AllQueues : lock[p] # t
    BY DEF Base, LockDiscipline, InLock
  <2> QED BY ZenonT(40), <2>1 DEF Base, TypeOK, AllQueues
<1>9. CallInPlace(t)'
  <2>1. call'[t].q \in AllQueues /\ lock'[call'[t].q] = t /\ call'[t].todo = {}
    BY ZenonT(40), <1>2
  <2>2. Resume(t)' = "append" => call'[t].kind \in Marked \cup Direct \cup {"hosttask"}
    BY SMTT(30), Z3T(30), <1>2, <1>4
  <2>3. ASSUME NEW p \in Queues, lock'[p] = t, AtEmpty(t)'
        PROVE  ActiveEmpty(batch'[p])
    <3>1. p = q /\ pc'[t] = next
      BY ZenonT(40), <1>4, <1>8, <2>3 DEF AtEmpty
    <3> QED BY <1>2, <2>3, <3>1 DEF AtEmpty
  <2>4. pc'[t] # "idle" => call'[t].kind \in Kinds
    BY ZenonT(40), <1>2, <1>7
  <2> QED BY ZenonT(40), <2>1, <2>2, <2>3, <2>4, InPlaceNext
<1>10. FinishRun(t)'
  BY <1>2 DEF FinishRun
<1> QED BY <1>2, <1>6, <1>9, <1>10, CallsStep

\* What the entry actions have in common: call k enters and goes on at next.
Enters(t, q, k, next) ==
  /\ Enter(t, q, k)
  /\ next = "append" => k \in Marked \cup Direct \cup {"hosttask"}
  /\ \/ FinishUnlocked(t, q, next)
     \/ RenewBatch(t, q, next) /\ k \notin {"finish", "blockingop"}
     \/ /\ Goto(t, next) /\ UNCHANGED <<batch, listCmds, imm, after>>
        /\ next = "capture" \/ k \in Direct => ActiveEmpty(batch[q])
        /\ k \in {"finish", "blockingop"} => next # "return"

LEMMA EntryEnters ==
  ASSUME NEW t, NEW q, Entry(t, q)
  PROVE  \E k, next : next \in {"append", "return", "capture"} /\ Enters(t, q, k, next)
<1>1. CASE MarkIssued(t, q)
  <2>1. PICK k \in Marked : Enter(t, q, k)
    BY <1>1 DEF MarkIssued
  <2>2. Enters(t, q, k, "append")
    BY <1>1, <2>1 DEF MarkIssued, Enters, Marked, Direct
  <2> QED BY <2>2
<1>2. CASE EnqueueHostTask(t, q)
  <2>1. Enters(t, q, "hosttask", "append")
    BY <1>2 DEF EnqueueHostTask, Enters, Direct
  <2> QED BY <2>1
<1>3. CASE EnqueueCommandBuffer(t, q)
  <2>1. Enters(t, q, "cmdbuf", "append")
    BY <1>3 DEF EnqueueCommandBuffer, Enters, Direct
  <2> QED BY <2>1
<1>4. CASE QueueFlush(t, q)
  <2>1. Enters(t, q, "flush", "return")
    BY <1>4 DEF QueueFlush, Enters, Direct
  <2> QED BY <2>1
<1>5. CASE QueueFinish(t, q)
  <2>1. Enters(t, q, "finish", "return")
    BY <1>5 DEF QueueFinish, Enters
  <2> QED BY <2>1
<1>6. CASE BeginGraphCapture(t, q)
  <2>1. Enters(t, q, "begincapture", "capture")
    BY <1>6 DEF BeginGraphCapture, Enters
  <2> QED BY <2>1
<1> QED BY <1>1, <1>2, <1>3, <1>4, <1>5, <1>6 DEF Entry

\* Entering a call keeps the order.
LEMMA EntryOrder ==
  ASSUME Base, Core, Ledger, CallsInPlace, FinishRuns,
         NEW t \in Threads, NEW q \in Queues, Entry(t, q)
  PROVE  Ledger' /\ CallsInPlace' /\ FinishRuns'
<1>0. {"append", "return", "capture"} \subseteq Labels \ {"sync"}
  BY DEF Labels
<1>1. PICK k, next :
        /\ next \in {"append", "return", "capture"}
        /\ Enter(t, q, k)
        /\ next = "append" => k \in Marked \cup Direct \cup {"hosttask"}
        /\ \/ FinishUnlocked(t, q, next)
           \/ RenewBatch(t, q, next) /\ k \notin {"finish", "blockingop"}
           \/ /\ Goto(t, next) /\ UNCHANGED <<batch, listCmds, imm, after>>
              /\ next = "capture" \/ k \in Direct => ActiveEmpty(batch[q])
              /\ k \in {"finish", "blockingop"} => next # "return"
  BY EntryEnters DEF Enters
<1>11. next \in Labels \ {"sync"}
  BY <1>0, <1>1
<1>2. /\ pc[t] = "waitlist" /\ lock[q] = None /\ lock' = [lock EXCEPT ![q] = t]
      /\ UNCHANGED <<cmd, done, kernels>>
  BY <1>1 DEF Enter
<1>3. Moved(t, q, next)
  BY <1>1, <1>11, StayMoved, FinishUnlockedType, RenewBatchType DEF Base
<1>4. AtLock(t, q)
  <2>1. \E l : pc' = [pc EXCEPT ![t] = l]
    BY <1>3, <1>11, MovedResume
  <2> QED BY <1>2, <2>1, AtLockHeld
<1>5. CASE FinishUnlocked(t, q, next)
  <2>1. Ledger'
    BY <1>4, <1>5, FinishUnlockedLedger
  <2>2. /\ \A p \in Queues \ {q} : batch'[p] = batch[p]
        /\ \A p \in Queues : batch'[p].capture => ActiveEmpty(batch'[p])
        /\ pc'[t] = next => ActiveEmpty(batch'[q])
        /\ pc'[t] = next => batch'[q].capture
    BY <1>5, <1>11, MovedBatch
  <2>3. pc'[t] = "return" => next = "return"
    <3>1. pc'[t] \in {next, "sync"}
      BY <1>3, <1>11, MovedResume
    <3> QED BY <3>1
  <2> QED BY <1>1, <1>3, <2>1, <2>2, <2>3, EnterCalls
<1>6. CASE RenewBatch(t, q, next) /\ k \notin {"finish", "blockingop"}
  <2>1. Ledger'
    BY <1>4, <1>6, RenewBatchLedger
  <2>2. /\ \A p \in Queues \ {q} : batch'[p] = batch[p]
        /\ \A p \in Queues : batch'[p].capture => ActiveEmpty(batch'[p])
        /\ pc'[t] = next => ActiveEmpty(batch'[q])
    BY <1>6, <1>11, MovedBatch
  <2> QED BY <1>1, <1>3, <1>6, <2>1, <2>2, EnterCalls
<1>7. CASE /\ Goto(t, next) /\ UNCHANGED <<batch, listCmds, imm, after>>
           /\ next = "capture" \/ k \in Direct => ActiveEmpty(batch[q])
           /\ k \in {"finish", "blockingop"} => next # "return"
  <2>1. pc'[t] = next
    BY <1>7 DEF Goto, Base, TypeOK
  <2>2. Ledger'
    <3>1. \A p \in Queues : InSync(p) => InSync(p)'
      BY <1>4 DEF AtLock
    <3> QED BY <1>2, <1>7, <3>1, LedgerKeep, ListOwner DEF Ledger
  <2>3. \A p \in Queues : batch'[p].capture => ActiveEmpty(batch'[p])
    BY <1>7 DEF CallsInPlace
  <2>4. \A p \in Queues \ {q} : batch'[p] = batch[p]
    BY <1>7
  <2>5. CallsInPlace' /\ FinishRuns'
    BY <1>1, <1>3, <1>7, <2>1, <2>3, <2>4, EnterCalls
  <2> QED BY <2>2, <2>5
<1> QED BY <1>1, <1>5, <1>6, <1>7

\* A call past its wait list that holds a lock holds the lock of its own queue.
LEMMA OwnQueue ==
  ASSUME Base, CallsInPlace, NEW t \in Threads, NEW q \in AllQueues, lock[q] = t,
         Resume(t) \in {"append", "post", "capture", "return"}
  PROVE  /\ call[t].q = q /\ call[t].todo = {} /\ call[t].kind \in Kinds
         /\ \A p \in AllQueues : lock[p] = t => p = q
<1>1. call[t].q \in AllQueues /\ lock[call[t].q] = t /\ call[t].todo = {}
  BY DEF CallsInPlace, CallInPlace
<1>2. \A p \in AllQueues : lock[p] = t => p = q
  BY DEF Base, LockDiscipline
<1>3. pc[t] # "idle"
  BY SMTT(30), Z3T(30) DEF Base, LockDiscipline, InLock
<1>4. call[t].kind \in Kinds
  BY <1>3 DEF CallsInPlace, CallInPlace
<1> QED BY <1>1, <1>2, <1>4

\* A call that stays itself changes one entry of "call".
LEMMA CallKept ==
  ASSUME Base, NEW t \in Threads, call' = call
  PROVE  \E c : call' = [call EXCEPT ![t] = c]
<1>1. call' = [call EXCEPT ![t] = call[t]]
  BY DEF Base, TypeOK
<1> QED BY <1>1

\* So does "after".
LEMMA AfterKept ==
  ASSUME Base, NEW t \in Threads, after' = after
  PROVE  \E l : after' = [after EXCEPT ![t] = l]
<1>1. after' = [after EXCEPT ![t] = after[t]]
  BY DEF Base, TypeOK
<1> QED BY <1>1

\* A call that goes on to its return past an append.
LEMMA AfterAppendOrder ==
  ASSUME Base, Core, Ledger, CallsInPlace, FinishRuns,
         NEW t \in Threads, NEW q \in Queues, AfterAppend(t, q)
  PROVE  Ledger' /\ CallsInPlace' /\ FinishRuns'
<1>   /\ pc[t] = "post" /\ lock[q] = t /\ q \in AllQueues
      /\ UNCHANGED <<lock, cmd, done, kernels, call>>
      /\ FinishUnlocked(t, q, "return") \/ RenewBatch(t, q, "return")
      /\ call[t].kind # "barrier" => FinishUnlocked(t, q, "return")
  BY DEF AfterAppend, AllQueues
<1>2. Moved(t, q, "return")
  BY AfterAppendBase
<1>3. "return" \in Labels \ {"sync"}
  BY DEF Labels
<1>4. /\ Resume(t)' = "return"
      /\ pc'[t] \in {"return", "sync"}
      /\ \E l : pc' = [pc EXCEPT ![t] = l]
      /\ \E l : after' = [after EXCEPT ![t] = l]
  BY <1>2, <1>3, MovedResume
<1>5. AtLock(t, q)
  <2>1. pc[t] # "sync"
    OBVIOUS
  <2> QED BY <1>4, <2>1, AtLockHeld
<1>6. Ledger'
  BY <1>5, FinishUnlockedLedger, RenewBatchLedger
<1>7. /\ \A p \in Queues \ {q} : batch'[p] = batch[p]
      /\ \A p \in Queues : batch'[p].capture => ActiveEmpty(batch'[p])
      /\ FinishUnlocked(t, q, "return") /\ pc'[t] = "return" => batch'[q].capture
  BY <1>3, MovedBatch
<1>8. Resume(t) \in {"append", "post", "capture", "return"}
  BY DEF Resume
<1>9. /\ call[t].q = q /\ call[t].todo = {} /\ call[t].kind \in Kinds
      /\ \A p \in AllQueues : lock[p] = t => p = q
  BY <1>8, OwnQueue
<1>10. Confined(t)
  <2>1. \E c : call' = [call EXCEPT ![t] = c]
    BY CallKept
  <2> QED BY <1>4, <1>7, <2>1, LockConfines
<1>11. CallInPlace(t)'
  <2>1. call'[t].q \in AllQueues /\ lock'[call'[t].q] = t /\ call'[t].todo = {}
    BY <1>9
  <2>2. Resume(t)' # "append" /\ ~AtEmpty(t)'
    BY <1>4 DEF AtEmpty
  <2>3. call'[t].kind \in Kinds
    BY <1>9
  <2> QED BY <2>1, <2>2, <2>3, InPlaceNext
<1>12. FinishRun(t)'
  BY <1>7, <1>9 DEF FinishRun
<1>13. Ids' = Ids
  BY DEF Ids
<1> QED BY ZenonT(40), <1>6, <1>7, <1>10, <1>11, <1>12, <1>13, CallsStep

\* A step of t that leaves locks, batches and commands alone is confined.
LEMMA QuietConfines ==
  ASSUME Base, NEW t \in Threads,
         \E l : pc' = [pc EXCEPT ![t] = l],
         \E l : after' = [after EXCEPT ![t] = l],
         \E c : call' = [call EXCEPT ![t] = c],
         UNCHANGED <<lock, batch, cmd, done>>
  PROVE  Confined(t)
<1>1. Ids' = Ids
  BY DEF Ids
<1>2. \A u \in Threads \ {t} :
        pc'[u] = pc[u] /\ call'[u] = call[u] /\ after'[u] = after[u]
  BY DEF Base, TypeOK
<1> QED BY <1>1, <1>2 DEF Confined

\* Handing an event over to its queue keeps the order.
LEMMA OnEventWaitListUseOrder ==
  ASSUME Base, Core, Ledger, CallsInPlace, FinishRuns,
         NEW t \in Threads, NEW e \in call[t].todo, OnEventWaitListUse(t, e)
  PROVE  Ledger' /\ CallsInPlace' /\ FinishRuns'
<1> DEFINE q == cmd[e].q
<1>1. q \in Queues /\ q \in AllQueues
  BY OnEventWaitListUseBase DEF AllQueues
<1>2. /\ pc[t] = "waitlist" /\ lock[q] = None
      /\ UNCHANGED <<cmd, done, kernels>>
  BY DEF OnEventWaitListUse
<1>3. \E c : call' = [call EXCEPT ![t] = c]
  <2>1. call' = [call EXCEPT ![t] = [call[t] EXCEPT !.todo = call[t].todo \ {e}]]
    BY SMTT(30), Z3T(30) DEF OnEventWaitListUse
  <2> QED BY <2>1
<1>4. call'[t].kind \in Kinds
  <2>1. call[t].kind \in Kinds
    BY <1>2 DEF CallsInPlace, CallInPlace
  <2>2. call'[t].kind = call[t].kind
    BY SMTT(30), Z3T(30) DEF OnEventWaitListUse, Base, TypeOK, ApiCall
  <2> QED BY <2>1, <2>2
<1>5. Ids' = Ids
  BY <1>2 DEF Ids
<1>6. CASE cmd[e].gen = batch[q].gen
  <2>1. lock' = [lock EXCEPT ![q] = t] /\ RenewBatch(t, q, "release")
    BY <1>6 DEF OnEventWaitListUse
  <2>2. "release" \in Labels \ {"sync"}
    BY DEF Labels
  <2>3. Moved(t, q, "release")
    BY <1>1, <2>1, <2>2, RenewBatchType DEF Base
  <2>4. /\ Resume(t)' = "release"
        /\ pc'[t] \in {"release", "sync"}
        /\ \E l : pc' = [pc EXCEPT ![t] = l]
        /\ \E l : after' = [after EXCEPT ![t] = l]
    BY <2>2, <2>3, MovedResume
  <2>5. AtLock(t, q)
    <3>1. pc[t] # "sync"
      BY <1>2
    <3> QED BY ZenonT(40), <1>1, <1>2, <2>1, <2>4, <3>1, AtLockHeld
  <2>6. Ledger'
    BY <1>1, <2>1, <2>5, RenewBatchLedger
  <2>7. /\ \A p \in Queues \ {q} : batch'[p] = batch[p]
        /\ \A p \in Queues : batch'[p].capture => ActiveEmpty(batch'[p])
    BY <1>1, <2>1, <2>2, MovedBatch
  <2>8. Confined(t)
    BY <1>1, <1>2, <1>3, <2>1, <2>4, <2>7, LockConfines
  <2>   Resume(t)' \notin {"append", "post", "capture", "return"} /\ ~AtEmpty(t)'
        /\ pc'[t] # "return" /\ Resume(t)' # "append"
    BY <2>4 DEF AtEmpty
  <2>10. CallInPlace(t)'
    BY <1>4, InPlaceNext
  <2>11. FinishRun(t)'
    BY DEF FinishRun
  <2> QED BY <1>5, <2>6, <2>7, <2>8, <2>10, <2>11, CallsStep
<1>7. CASE cmd[e].gen # batch[q].gen
  <2>   UNCHANGED <<lock, batch, listCmds, imm, pc, after>>
    BY <1>7 DEF OnEventWaitListUse
  <2>2. Ledger'
    <3>1. \A p \in Queues : InSync(p) => InSync(p)'
      BY DEF InSync
    <3> QED BY ZenonT(40), <1>2, <3>1, LedgerKeep, ListOwner DEF Ledger
  <2>3. \E l : pc' = [pc EXCEPT ![t] = l]
    <3>1. pc' = [pc EXCEPT ![t] = pc[t]]
      BY DEF Base, TypeOK
    <3> QED BY <3>1
  <2>4. \E l : after' = [after EXCEPT ![t] = l]
    BY AfterKept
  <2>5. Confined(t)
    BY <1>2, <1>3, <2>3, <2>4, QuietConfines
  <2>   Resume(t)' \notin {"append", "post", "capture", "return"} /\ ~AtEmpty(t)'
        /\ pc'[t] # "return" /\ Resume(t)' # "append"
    BY <1>2 DEF AtEmpty, Resume
  <2>7. CallInPlace(t)'
    BY <1>4, InPlaceNext
  <2>8. FinishRun(t)'
    BY DEF FinishRun
  <2>9. \A p \in Queues : batch'[p].capture => ActiveEmpty(batch'[p])
    BY DEF CallsInPlace
  <2> QED BY <1>5, <2>2, <2>5, <2>7, <2>8, <2>9, CallsStep
<1> QED BY <1>6, <1>7

\* Only the thread t moves.
Alone(t) ==
  /\ \E l : pc' = [pc EXCEPT ![t] = l]
  /\ \E l : after' = [after EXCEPT ![t] = l]
  /\ \E c : call' = [call EXCEPT ![t] = c]

\* A step of t that appends a command to the queue it has locked is confined.
LEMMA AppendConfines ==
  ASSUME Base, NEW t \in Threads, NEW q \in AllQueues, lock[q] = t,
         NEW new \in Command, new.q = q, cmd' = Append(cmd, new),
         Alone(t),
         \A p \in Queues \ {q} : batch'[p] = batch[p],
         UNCHANGED <<lock, done>>
  PROVE  /\ Confined(t)
         /\ \A c \in Ids' : c \notin Ids => cmd'[c] = new
<1>1. /\ Ids' = Ids \cup {Len(cmd) + 1}
      /\ \A c \in Ids : cmd'[c] = cmd[c]
      /\ cmd'[Len(cmd) + 1] = new
  BY NewInLedger
<1>2. \A u \in Threads \ {t} :
        pc'[u] = pc[u] /\ call'[u] = call[u] /\ after'[u] = after[u]
  BY DEF Alone, Base, TypeOK
<1>3. \A u \in Threads \ {t}, p \in AllQueues : lock[p] = u => p # q
  OBVIOUS
<1>4. ASSUME NEW u \in Threads \ {t}, NEW p \in AllQueues, lock[p] = u,
             NEW c \in Ids', cmd'[c].q = p
      PROVE  c \in Ids
  BY <1>1, <1>3, <1>4
<1>5. \A u \in Threads \ {t}, p \in Queues : lock[p] = u => batch'[p] = batch[p]
  BY <1>3 DEF AllQueues
<1>6. Ids \subseteq Ids' /\ done \subseteq done' /\ lock' = lock
  BY <1>1
<1>7. ASSUME NEW u \in Threads \ {t}
      PROVE  /\ pc'[u] = pc[u] /\ call'[u] = call[u] /\ after'[u] = after[u]
             /\ \A p \in AllQueues :
                  /\ lock'[p] = u <=> lock[p] = u
                  /\ lock[p] = u => \A c \in Ids' : cmd'[c].q = p => c \in Ids
             /\ \A p \in Queues : lock[p] = u => batch'[p] = batch[p]
  <2>1. \A p \in AllQueues : lock[p] = u => \A c \in Ids' : cmd'[c].q = p => c \in Ids
    BY <1>4
  <2>2. \A p \in AllQueues : lock'[p] = u <=> lock[p] = u
    BY <1>6
  <2>3. \A p \in Queues : lock[p] = u => batch'[p] = batch[p]
    BY <1>5
  <2> QED BY <1>2, <2>1, <2>2, <2>3
<1>8. Confined(t)
  BY <1>1, <1>6, <1>7 DEF Confined
<1> QED BY <1>1, <1>8

\* Appending a command keeps the calls in place.
LEMMA AppendCommandCalls ==
  ASSUME Base, CallsInPlace, FinishRuns,
         NEW t \in Threads, NEW q \in Queues, AppendCommand(t, q)
  PROVE  CallsInPlace' /\ FinishRuns'
<1> DEFINE k == call[t].kind
           l == IF k \in {"blockingop", "barrier"} THEN "post" ELSE "return"
<1>1. /\ pc[t] = "append" /\ lock[q] = t /\ q \in AllQueues
      /\ pc' = [pc EXCEPT ![t] = l]
      /\ UNCHANGED <<lock, done, after>>
  BY DEF AppendCommand, Goto, AllQueues
<1>2. Resume(t) = "append"
  BY <1>1 DEF Resume
<1>3. /\ call[t].q = q /\ call[t].todo = {} /\ call[t].kind \in Kinds
      /\ \A p \in AllQueues : lock[p] = t => p = q
  BY <1>1, <1>2, OwnQueue
<1>4. k \in Marked \cup Direct \cup {"hosttask"}
  BY <1>2 DEF CallsInPlace, CallInPlace
<1>5. pc'[t] = l /\ Resume(t)' = l /\ l \in {"post", "return"}
  BY <1>1 DEF Base, TypeOK, Resume
<1>6. /\ \E c : call' = [call EXCEPT ![t] = c]
      /\ call'[t].q = call[t].q /\ call'[t].todo = call[t].todo
      /\ call'[t].kind = call[t].kind
  <2>1. CASE batch[q].capture
    <3>1. call' = call
      BY <2>1 DEF AppendCommand
    <3> QED BY <3>1, CallKept
  <2>2. CASE ~batch[q].capture
    <3>   call' = [call EXCEPT ![t] = [call[t] EXCEPT !.id = Len(cmd) + 1]]
      BY <2>2 DEF AppendCommand
    <3>2. call[t] \in ApiCall /\ call'[t] = [call[t] EXCEPT !.id = Len(cmd) + 1]
      BY DEF Base, TypeOK
    <3>3. call'[t].q = call[t].q /\ call'[t].todo = call[t].todo
          /\ call'[t].kind = call[t].kind
      BY <3>2 DEF ApiCall
    <3> QED BY <3>3
  <2> QED BY <2>1, <2>2
<1>7. /\ \E x : pc' = [pc EXCEPT ![t] = x]
      /\ \E x : after' = [after EXCEPT ![t] = x]
  BY <1>1, AfterKept
<1>8. CallInPlace(t)'
  <2>1. call'[t].q \in AllQueues /\ lock'[call'[t].q] = t /\ call'[t].todo = {}
    BY <1>1, <1>3, <1>6
  <2>2. Resume(t)' # "append" /\ ~AtEmpty(t)'
    BY <1>5 DEF AtEmpty
  <2>3. call'[t].kind \in Kinds
    BY <1>3, <1>6
  <2> QED BY <2>1, <2>2, <2>3, InPlaceNext
<1>9. FinishRun(t)'
  <2>1. pc'[t] = "return" => call'[t].kind \notin {"finish", "blockingop"}
    BY <1>4, <1>5, <1>6 DEF Marked, Direct
  <2> QED BY <2>1 DEF FinishRun
<1>10. CASE batch[q].capture
  <2>   UNCHANGED <<cmd, batch>>
    BY <1>10 DEF AppendCommand
  <2>2. Confined(t) /\ Ids' = Ids
    <3>1. \A p \in Queues \ {q} : batch'[p] = batch[p]
      OBVIOUS
    <3>2. Confined(t)
      BY <1>1, <1>6, <1>7, <3>1, LockConfines
    <3> QED BY <3>2 DEF Ids
  <2>3. \A p \in Queues : batch'[p].capture => ActiveEmpty(batch'[p])
    BY DEF CallsInPlace
  <2> QED BY <1>8, <1>9, <2>2, <2>3, CallsStep
<1>11. CASE ~batch[q].capture
  <2> DEFINE new == [q |-> q, kind |-> k, waits |-> call[t].waits,
                     gen |-> IF k \in Direct THEN NoGen ELSE batch[q].gen,
                     list |-> IF k \in Direct THEN None ELSE batch[q].active]
  <2>1. cmd' = Append(cmd, new)
    BY <1>11 DEF AppendCommand
  <2>2. new \in Command /\ new.q = q /\ new.kind = k
    <3>   call[t] \in ApiCall /\ batch[q] \in BatchManager
      BY DEF Base, TypeOK
    <3>2. call[t].kind \in AllKinds /\ call[t].waits \in SUBSET Nat
      BY DEF ApiCall
    <3>3. batch[q].gen \in Int /\ batch[q].active \in Lists \cup {None} /\ NoGen \in Int
      BY SMTT(20) DEF NoGen, BatchManager
    <3>4. new.gen \in Int /\ new.list \in Lists \cup {None}
      BY <3>3
    <3> QED BY <1>1, <3>2, <3>4 DEF Command
  <2>3. /\ \A p \in Queues \ {q} : batch'[p] = batch[p]
        /\ batch'[q].capture = batch[q].capture
    BY SMTT(20), <1>11 DEF AppendCommand, Base, TypeOK, BatchManager
  <2>4. \A p \in Queues : batch'[p].capture => ActiveEmpty(batch'[p])
    BY <1>11, <2>3 DEF CallsInPlace
  <2> HIDE DEF new
  <2>   /\ Confined(t)
        /\ \A c \in Ids' : c \notin Ids => cmd'[c] = new
    <3>1. \A p \in Queues \ {q} : batch'[p] = batch[p]
      BY <2>3
    <3>2. UNCHANGED <<lock, done>>
      BY <1>1
    <3>3. Alone(t)
      BY <1>6, <1>7 DEF Alone
    <3>4. new \in Command /\ new.q = q /\ q \in AllQueues /\ lock[q] = t
      BY <1>1, <2>2
    <3> HIDE DEF k, l
    <3> QED BY <2>1, <3>1, <3>2, <3>3, <3>4, AppendConfines
  <2>6. \A c \in Ids' : c \notin Ids => cmd'[c].kind \in Kinds
    BY <1>3, <2>2
  <2> QED BY <1>8, <1>9, <2>4, <2>6, CallsStep
<1> QED BY <1>10, <1>11

\* Once the immediate list is drained a call that finishes the queue may return.
LEMMA SynchronizeCalls ==
  ASSUME Base, Core, Ledger, CallsInPlace, FinishRuns,
         NEW t \in Threads, NEW q \in Queues, Synchronize(t, q)
  PROVE  CallsInPlace' /\ FinishRuns'
<1>   /\ pc[t] = "sync" /\ lock[q] = t /\ q \in AllQueues /\ imm[q] = <<>>
      /\ pc' = [pc EXCEPT ![t] = after[t]]
      /\ after' = [after EXCEPT ![t] = "idle"]
      /\ batch' = [batch EXCEPT ![q] = Finished(batch[q])]
      /\ UNCHANGED <<lock, cmd, done, call>>
  BY SMTT(30), Z3T(30) DEF Synchronize, Goto, AllQueues
<1>2. after[t] # "sync"
  BY DEF Base, LockDiscipline
<1>3. pc'[t] = after[t] /\ Resume(t)' = after[t] /\ Resume(t) = after[t]
  BY <1>2 DEF Base, TypeOK, Resume
<1>4. \A p \in Queues \ {q} : batch'[p] = batch[p]
  BY DEF Base, TypeOK
<1>5. ActiveEmpty(batch'[q])
  BY DEF Base, TypeOK, Finished, ActiveEmpty
<1>6. \A p \in Queues : batch'[p].capture => ActiveEmpty(batch'[p])
  BY <1>4, <1>5 DEF CallsInPlace
<1>7. Confined(t)
  <2>1. \E c : call' = [call EXCEPT ![t] = c]
    BY CallKept
  <2>2. (\E l : pc' = [pc EXCEPT ![t] = l]) /\ (\E l : after' = [after EXCEPT ![t] = l])
    OBVIOUS
  <2> QED BY <1>4, <2>1, <2>2, LockConfines
<1>8. CallInPlace(t)'
  <2>   CallInPlace(t)
    BY DEF CallsInPlace
  <2>2. Resume(t)' \in {"append", "post", "capture", "return"} =>
          call'[t].q \in AllQueues /\ lock'[call'[t].q] = t /\ call'[t].todo = {}
    BY ZenonT(40), <1>3 DEF CallInPlace
  <2>3. Resume(t)' = "append" => call'[t].kind \in Marked \cup Direct \cup {"hosttask"}
    BY ZenonT(40), <1>3 DEF CallInPlace
  <2>4. call'[t].kind \in Kinds
    BY DEF CallInPlace
  <2>5. \A p \in Queues : lock'[p] = t => ActiveEmpty(batch'[p])
    BY ZenonT(40), <1>5 DEF Base, LockDiscipline, AllQueues
  <2> QED BY <2>2, <2>3, <2>4, <2>5, InPlaceNext
<1>9. FinishRun(t)'
  <2> SUFFICES ASSUME pc'[t] = "return", NEW c \in Ids' \ HostTasks',
                      cmd'[c].q = call'[t].q
               PROVE  c \in done'
    BY DEF FinishRun
  <2>1. c \in Ids \ HostTasks /\ cmd[c].q = call[t].q
    BY ZenonT(40) DEF Ids, HostTasks
  <2>2. call[t].q = q
    BY SMTT(30), Z3T(30), <1>3, OwnQueue
  <2> QED BY ZenonT(40), <2>1, <2>2, SyncDrains
<1>10. Ids' = Ids
  BY DEF Ids
<1> QED BY <1>6, <1>7, <1>8, <1>9, <1>10, CallsStep

\* Setting and clearing the capture flag keeps the order.
LEMMA CaptureOrder ==
  ASSUME Base, Core, Ledger, CallsInPlace, FinishRuns,
         NEW t \in Threads, NEW q \in Queues,
         SetGraphCapture(t, q) \/ EndGraphCapture(t, q)
  PROVE  Ledger' /\ CallsInPlace' /\ FinishRuns'
<1>1. q \in AllQueues
  BY DEF AllQueues
<1>2. /\ pc' = [pc EXCEPT ![t] = "return"]
      /\ \E b \in BOOLEAN : batch' = [batch EXCEPT ![q].capture = b]
      /\ UNCHANGED <<listCmds, imm, cmd, done, kernels, call, after>>
  BY DEF SetGraphCapture, EndGraphCapture, Enter, Goto
<1>3. pc'[t] = "return" /\ Resume(t)' = "return" /\ Ids' = Ids
  BY <1>2 DEF Base, TypeOK, Resume, Ids
<1>4. /\ pc[t] \in {"capture", "waitlist"}
      /\ \/ lock' = lock /\ lock[q] = t
         \/ lock' = [lock EXCEPT ![q] = t] /\ lock[q] = None
  BY DEF SetGraphCapture, EndGraphCapture, Enter
<1>5. /\ \E l : pc' = [pc EXCEPT ![t] = l]
      /\ \E l : after' = [after EXCEPT ![t] = l]
      /\ \E c : call' = [call EXCEPT ![t] = c]
  BY <1>2, CallKept, AfterKept
<1>6. AtLock(t, q)
  <2>1. pc[t] # "sync" /\ UNCHANGED <<cmd, done, kernels>>
    BY <1>2, <1>4
  <2> QED BY <1>4, <1>5, <2>1, AtLockHeld
<1>7. /\ \A p \in Queues : /\ batch'[p].active = batch[p].active
                           /\ batch'[p].run = batch[p].run
                           /\ batch'[p].gen = batch[p].gen
                           /\ batch'[p].ops = batch[p].ops
      /\ \A p \in Queues \ {q} : batch'[p] = batch[p]
  BY SMTT(20), <1>2 DEF Base, TypeOK, BatchManager
<1>8. Ledger'
  <2>1. \A p \in Queues : InSync(p) => InSync(p)'
    BY <1>6 DEF AtLock
  <2> QED BY <1>2, <1>7, <2>1, LedgerKeep, ListOwner DEF Ledger
<1>9. Confined(t)
  <2>1. UNCHANGED <<cmd, done>>
    BY <1>2
  <2> QED BY <1>1, <1>4, <1>5, <1>7, <2>1, LockConfines
<1>10. ~AtEmpty(t)' /\ Resume(t)' # "append"
  BY <1>3 DEF AtEmpty
<1>11. CASE SetGraphCapture(t, q)
  <2>   /\ pc[t] = "capture" /\ lock[q] = t /\ lock' = lock
        /\ batch' = [batch EXCEPT ![q].capture = TRUE]
    BY <1>11 DEF SetGraphCapture
  <2>2. AtEmpty(t) /\ Resume(t) = "capture"
    BY DEF AtEmpty, Resume
  <2>3. ActiveEmpty(batch[q])
    BY SMTT(30), Z3T(30), <2>2 DEF CallsInPlace, CallInPlace
  <2>4. \A p \in Queues : batch'[p].capture => ActiveEmpty(batch'[p])
    BY <1>7, <2>3 DEF CallsInPlace, ActiveEmpty
  <2>5. call[t].q = q /\ call[t].todo = {} /\ call[t].kind \in Kinds
    BY <1>1, <2>2, OwnQueue
  <2>6. CallInPlace(t)'
    <3>1. call'[t].q \in AllQueues /\ lock'[call'[t].q] = t /\ call'[t].todo = {}
          /\ call'[t].kind \in Kinds
      BY <1>1, <1>2, <2>5
    <3> QED BY <1>10, <3>1, InPlaceNext
  <2>7. batch'[q].capture /\ call'[t].q = q
    BY SMTT(30), Z3T(30), <1>2, <2>5 DEF Base, TypeOK, BatchManager
  <2>8. FinishRun(t)'
    BY <2>7 DEF FinishRun
  <2> QED BY <1>3, <1>8, <1>9, <2>4, <2>6, <2>8, CallsStep
<1>12. CASE EndGraphCapture(t, q)
  <2>   /\ pc[t] = "waitlist" /\ call[t].kind = "endcapture" /\ call[t].q = q
        /\ call[t].todo = {} /\ lock' = [lock EXCEPT ![q] = t]
        /\ batch' = [batch EXCEPT ![q].capture = FALSE]
    BY <1>12 DEF EndGraphCapture, Enter
  <2>2. \A p \in Queues : batch'[p].capture => batch[p].capture
    BY SMTT(30), Z3T(30) DEF Base, TypeOK, BatchManager
  <2>3. \A p \in Queues : batch'[p].capture => ActiveEmpty(batch'[p])
    BY <1>7, <2>2 DEF CallsInPlace, ActiveEmpty
  <2>4. call[t].kind \in Kinds
    BY DEF CallsInPlace, CallInPlace
  <2>5. CallInPlace(t)'
    <3>1. call'[t].q \in AllQueues /\ lock'[call'[t].q] = t /\ call'[t].todo = {}
          /\ call'[t].kind \in Kinds
      BY <1>1, <1>2, <2>4 DEF Base, TypeOK
    <3> QED BY <1>10, <3>1, InPlaceNext
  <2>6. call'[t].kind = "endcapture"
    BY <1>2
  <2>7. FinishRun(t)'
    BY <2>6 DEF FinishRun
  <2> QED BY <1>3, <1>8, <1>9, <2>3, <2>5, <2>7, CallsStep
<1> QED BY <1>11, <1>12

\* Starting a call, giving a lock back and leaving a call keep the order.
LEMMA OtherOrder ==
  ASSUME Base, Core, Ledger, CallsInPlace, FinishRuns,
         NEW t \in Threads, NEW q,
         \/ \E k \in Kinds, W \in SUBSET events : Call(t, k, q, W)
         \/ EventHostSynchronize(t)
         \/ q \in AllQueues /\ Release(t, q)
         \/ q \in AllQueues /\ Return(t, q)
  PROVE  Ledger' /\ CallsInPlace' /\ FinishRuns'
<1>1. UNCHANGED <<batch, listCmds, imm, cmd, done, kernels, after>> /\ pc[t] # "sync"
  BY DEF Call, EventHostSynchronize, Release, Return
<1>2. PICK l \in {"idle", "waitlist"} : pc' = [pc EXCEPT ![t] = l]
  BY DEF Call, EventHostSynchronize, Release, Return, Goto
<1>3. \/ lock' = lock
      \/ lock' = [lock EXCEPT ![q] = None] /\ lock[q] = t /\ q \in AllQueues
  BY DEF Call, EventHostSynchronize, Release, Return
<1>4. /\ \E c : call' = [call EXCEPT ![t] = c]
      /\ pc'[t] # "idle" => call'[t].kind \in Kinds
  <2>1. ASSUME NEW k \in Kinds, NEW W, Call(t, k, q, W)
        PROVE  (\E c : call' = [call EXCEPT ![t] = c]) /\ call'[t].kind \in Kinds
    <3>   call' = [call EXCEPT ![t] = [kind |-> k, q |-> q, waits |-> W, id |-> 0,
                                       todo |-> HandedOver(k, q, W)]]
      BY <2>1 DEF Call
    <3>2. call'[t].kind = k
      BY DEF Base, TypeOK
    <3> QED BY ZenonT(40), <3>2
  <2>2. CASE EventHostSynchronize(t) \/ Return(t, q)
    <3>   call' = [call EXCEPT ![t] = NoCall] /\ pc' = [pc EXCEPT ![t] = "idle"]
      BY <2>2 DEF EventHostSynchronize, Return, Goto
    <3>2. pc'[t] = "idle"
      BY DEF Base, TypeOK
    <3> QED BY <3>2
  <2>3. CASE Release(t, q)
    <3>   call' = call /\ pc[t] = "release"
      BY <2>3 DEF Release
    <3>2. call[t].kind \in Kinds
      BY DEF CallsInPlace, CallInPlace
    <3> QED BY <3>2, CallKept
  <2> QED BY <2>1, <2>2, <2>3
<1>5. /\ pc'[t] = l /\ Resume(t)' = l /\ Ids' = Ids
      /\ \A u \in Threads \ {t} : pc'[u] = pc[u]
  BY <1>1, <1>2 DEF Base, TypeOK, Resume, Ids
<1>6. \A p \in Queues : InSync(p) => InSync(p)'
  <2> SUFFICES ASSUME NEW p \in Queues, NEW u \in Threads, lock[p] = u, pc[u] = "sync"
               PROVE  lock'[p] = u /\ pc'[u] = "sync"
    BY ZenonT(40) DEF InSync
  <2>   u # t
    BY <1>1
  <2>2. lock'[p] = lock[p]
    BY <1>3 DEF Base, TypeOK, AllQueues
  <2> QED BY <1>5, <2>2
<1>7. Ledger'
  BY <1>1, <1>6, LedgerKeep, ListOwner DEF Ledger
<1>8. (\E x : pc' = [pc EXCEPT ![t] = x]) /\ (\E x : after' = [after EXCEPT ![t] = x])
  BY <1>1, <1>2, AfterKept
<1>9. \A p \in Queues \ {q} : batch'[p] = batch[p]
  BY <1>1
<1>10. Confined(t)
  <2>   UNCHANGED <<cmd, done>> /\ UNCHANGED <<batch, cmd, done>>
    BY <1>1
  <2>2. CASE lock' = lock
    BY <1>4, <1>8, <2>2, QuietConfines
  <2>3. CASE lock' = [lock EXCEPT ![q] = None] /\ lock[q] = t /\ q \in AllQueues
    BY <1>4, <1>8, <1>9, <2>3, LockConfines
  <2> QED BY <1>3, <2>2, <2>3
<1>    Resume(t)' \notin {"append", "post", "capture", "return"} /\ ~AtEmpty(t)'
       /\ pc'[t] # "return" /\ Resume(t)' # "append"
  BY <1>5 DEF AtEmpty
<1>12. CallInPlace(t)'
  BY <1>4, InPlaceNext
<1>13. FinishRun(t)'
  BY DEF FinishRun
<1>14. \A p \in Queues : batch'[p].capture => ActiveEmpty(batch'[p])
  BY <1>1 DEF CallsInPlace
<1> QED BY ZenonT(40), <1>5, <1>7, <1>10, <1>12, <1>13, <1>14, CallsStep

\* A step of the device leaves the calls where they are.
LEMMA ExecuteCalls ==
  ASSUME Base, CallsInPlace, FinishRuns, NEW q \in AllQueues, Execute(q)
  PROVE  CallsInPlace' /\ FinishRuns'
<1>   /\ UNCHANGED <<lock, batch, cmd, pc, call, after>>
      /\ done \subseteq done'
  BY DEF Execute
<1>   Ids' = Ids /\ HostTasks' = HostTasks
  BY DEF Ids, HostTasks
<1>3. CallsInPlace'
  BY DEF CallsInPlace, CallInPlace, Resume, AtEmpty
<1>4. FinishRuns'
  BY DEF FinishRuns, FinishRun
<1> QED BY <1>3, <1>4

\* The calls on an immediate queue stay in place.
LEMMA ImmCalls ==
  ASSUME Base, Core, Ledger, CallsInPlace, FinishRuns,
         NEW t \in Threads, NEW q \in ImmQueues,
         \/ ImmEnqueue(t, q) \/ ImmAppend(t, q) \/ ImmFinish(t, q)
         \/ ImmSynchronize(t, q)
  PROVE  CallsInPlace' /\ FinishRuns'
<1>1. /\ q \in AllQueues /\ q \notin Queues
      /\ UNCHANGED <<batch, done>>
  BY QueuesAssumption DEF AllQueues, ImmEnqueue, ImmAppend, ImmFinish, ImmSynchronize,
                          Enter
<1>2. /\ \A p \in Queues : batch'[p].capture => ActiveEmpty(batch'[p])
      /\ \A p \in Queues \ {q} : batch'[p] = batch[p]
  BY <1>1 DEF CallsInPlace
<1>3. CASE ImmEnqueue(t, q) \/ ImmFinish(t, q)
  <2>   /\ pc[t] = "waitlist" /\ call[t].q = q /\ call[t].todo = {}
        /\ lock[q] = None /\ lock' = [lock EXCEPT ![q] = t]
        /\ UNCHANGED <<cmd, call>>
    BY <1>3 DEF ImmEnqueue, ImmFinish, Enter
  <2>2. \/ /\ call[t].kind \in {"op", "blockingop", "cmdbuf"}
           /\ pc' = [pc EXCEPT ![t] = "append"] /\ after' = after
        \/ /\ pc' = [pc EXCEPT ![t] = "sync"]
           /\ after' = [after EXCEPT ![t] = "return"]
    BY <1>3 DEF ImmEnqueue, ImmFinish, Enter, Goto
  <2>3. Alone(t)
    BY ZenonT(40), <2>2, CallKept, AfterKept DEF Alone
  <2>4. \/ /\ call[t].kind \in {"op", "blockingop", "cmdbuf"}
           /\ pc'[t] = "append" /\ Resume(t)' = "append"
        \/ pc'[t] = "sync" /\ Resume(t)' = "return"
    BY <2>2 DEF Base, TypeOK, Resume
  <2>5. Confined(t)
    <3>1. UNCHANGED <<cmd, done>>
      BY <1>1
    <3> QED BY <1>1, <1>2, <2>3, <3>1, LockConfines DEF Alone
  <2>6. CallInPlace(t)'
    <3>1. call'[t].q \in AllQueues /\ lock'[call'[t].q] = t /\ call'[t].todo = {}
      BY <1>1 DEF Base, TypeOK
    <3>2. Resume(t)' = "append" => call'[t].kind \in Marked \cup Direct \cup {"hosttask"}
      BY <2>4 DEF Marked, Direct
    <3>3. call'[t].kind \in Kinds
      BY DEF CallsInPlace, CallInPlace
    <3>4. \A p \in Queues : lock'[p] # t
      <4>1. \A p \in Queues : lock[p] # t /\ lock'[p] = lock[p]
        BY <1>1 DEF Base, TypeOK, LockDiscipline, InLock, AllQueues
      <4> QED BY <4>1
    <3> QED BY <3>1, <3>2, <3>3, <3>4, InPlaceNext
  <2>7. FinishRun(t)'
    BY <2>4 DEF FinishRun
  <2>8. Ids' = Ids
    BY DEF Ids
  <2> QED BY <1>2, <2>5, <2>6, <2>7, <2>8, CallsStep
<1>4. CASE ImmAppend(t, q)
  <2> DEFINE new == [q |-> q, kind |-> call[t].kind, waits |-> call[t].waits,
                     gen |-> NoGen, list |-> None]
             c1 == [call[t] EXCEPT !.id = Len(cmd) + 1]
             l == IF call[t].kind = "blockingop" THEN "sync" ELSE "return"
             a == IF call[t].kind = "blockingop" THEN "return" ELSE after[t]
  <2>1. /\ pc[t] = "append" /\ lock[q] = t /\ lock' = lock
        /\ cmd' = Append(cmd, new)
        /\ call' = [call EXCEPT ![t] = c1]
        /\ pc' = [pc EXCEPT ![t] = l]
        /\ after' = [after EXCEPT ![t] = a]
    BY <1>4 DEF ImmAppend, Goto
  <2>2. Resume(t) = "append"
    BY <2>1 DEF Resume
  <2>3. /\ call[t].q = q /\ call[t].todo = {} /\ call[t].kind \in Kinds
        /\ \A p \in AllQueues : lock[p] = t => p = q
    BY <1>1, <2>1, <2>2, OwnQueue
  <2>4. call[t].kind \in Marked \cup Direct \cup {"hosttask"}
    BY <2>2 DEF CallsInPlace, CallInPlace
  <2>5. /\ call'[t].q = q /\ call'[t].todo = {} /\ call'[t].kind = call[t].kind
    <3>1. call[t] \in ApiCall /\ call'[t] = c1
      BY <2>1 DEF Base, TypeOK
    <3> QED BY <2>3, <3>1 DEF ApiCall
  <2>6. pc'[t] = l /\ Resume(t)' = "return"
    BY <2>1 DEF Base, TypeOK, Resume
  <2>7. new \in Command /\ new.q = q /\ new.kind = call[t].kind
    <3>1. call[t] \in ApiCall
      BY DEF Base, TypeOK
    <3>2. call[t].kind \in AllKinds /\ call[t].waits \in SUBSET Nat /\ NoGen \in Int
      BY SMTT(20), <3>1 DEF ApiCall, NoGen
    <3> QED BY <1>1, <3>2 DEF Command
  <2>8. Alone(t)
    BY <2>1 DEF Alone
  <2>9. CallInPlace(t)'
    <3>1. /\ call'[t].q \in AllQueues /\ lock'[call'[t].q] = t /\ call'[t].todo = {}
          /\ call'[t].kind \in Kinds
      BY <1>1, <2>1, <2>3, <2>5
    <3>2. ~AtEmpty(t)' /\ Resume(t)' # "append"
      BY SMTT(30), Z3T(30), <2>6 DEF AtEmpty
    <3> QED BY <3>1, <3>2, InPlaceNext
  <2>10. FinishRun(t)'
    <3>1. pc'[t] = "return" => call'[t].kind \notin {"finish", "blockingop"}
      BY <2>4, <2>5, <2>6 DEF Marked, Direct
    <3> QED BY <3>1 DEF FinishRun
  <2> HIDE DEF new, c1, l, a
  <2>    /\ Confined(t)
         /\ \A c \in Ids' : c \notin Ids => cmd'[c] = new
    <3>1. UNCHANGED <<lock, done>>
      BY SMTT(30), Z3T(30), <1>1, <2>1
    <3> QED BY <1>1, <1>2, <2>1, <2>7, <2>8, <3>1, AppendConfines
  <2>12. \A c \in Ids' : c \notin Ids => cmd'[c].kind \in Kinds
    BY ZenonT(40), <2>3, <2>7
  <2> QED BY <1>2, <2>9, <2>10, <2>12, CallsStep
<1>5. CASE ImmSynchronize(t, q)
  <2>   /\ pc[t] = "sync" /\ lock[q] = t /\ imm[q] = <<>>
        /\ pc' = [pc EXCEPT ![t] = after[t]]
        /\ after' = [after EXCEPT ![t] = "idle"]
        /\ UNCHANGED <<lock, cmd, call>>
    BY <1>5 DEF ImmSynchronize, Goto
  <2>2. after[t] # "sync"
    BY <1>1 DEF Base, LockDiscipline
  <2>3. pc'[t] = after[t] /\ Resume(t)' = after[t] /\ Resume(t) = after[t]
    BY <2>2 DEF Base, TypeOK, Resume
  <2>4. Alone(t)
    BY CallKept DEF Alone
  <2>5. Confined(t)
    <3>1. UNCHANGED <<cmd, done>>
      BY <1>1
    <3> QED BY ZenonT(40), <1>1, <1>2, <2>4, <3>1, LockConfines DEF Alone
  <2>6. CallInPlace(t)
    BY DEF CallsInPlace
  <2>7. CallInPlace(t)'
    <3>1. Resume(t)' \in {"append", "post", "capture", "return"} =>
            call'[t].q \in AllQueues /\ lock'[call'[t].q] = t /\ call'[t].todo = {}
      BY <2>3, <2>6 DEF CallInPlace
    <3>2. Resume(t)' = "append" => call'[t].kind \in Marked \cup Direct \cup {"hosttask"}
      BY <2>3, <2>6 DEF CallInPlace
    <3>3. call'[t].kind \in Kinds
      BY <2>6 DEF CallInPlace
    <3>4. \A p \in Queues : lock'[p] # t
      BY ZenonT(40), <1>1 DEF Base, LockDiscipline, AllQueues
    <3> QED BY <3>1, <3>2, <3>3, <3>4, InPlaceNext
  <2>8. FinishRun(t)'
    <3> SUFFICES ASSUME pc'[t] = "return", NEW c \in Ids', cmd'[c].q = call'[t].q
                 PROVE  c \in done'
      BY DEF FinishRun
    <3>1. c \in Ids /\ cmd[c].q = call[t].q
      BY ZenonT(40) DEF Ids
    <3>2. Resume(t) \in {"append", "post", "capture", "return"}
      BY <2>3
    <3>3. call[t].q = q
      BY <1>1, <3>2, OwnQueue
    <3> QED BY <1>1, <3>1, <3>3, ImmDrained
  <2>9. Ids' = Ids
    BY DEF Ids
  <2> QED BY <1>2, <2>5, <2>7, <2>8, <2>9, CallsStep
<1> QED BY <1>3, <1>4, <1>5

-----------------------------------------------------------------------------
\* The theorems

\* A new queue has no command anywhere.

LEMMA InitLInv == Init => LInv
<1> SUFFICES ASSUME Init PROVE LInv
  OBVIOUS
<1>1. PICK a \in [Queues -> Lists] :
        batch = [q \in Queues |-> [gen |-> 0, ops |-> 0, active |-> a[q],
                                   run |-> {}, capture |-> FALSE]]
  BY DEF Init
<1>2. /\ listCmds = [l \in Lists |-> <<>>]
      /\ imm = [q \in AllQueues |-> <<>>]
      /\ cmd = <<>> /\ done = {}
      /\ lock = [q \in AllQueues |-> None]
      /\ pc = [t \in Threads |-> "idle"]
  BY DEF Init
<1>   Ids = {} /\ HostTasks = {}
  BY <1>2 DEF Ids, HostTasks
<1>   /\ \A q \in Queues : /\ batch[q].active \in Lists
                           /\ listCmds[batch[q].active] = <<>>
                           /\ ~batch[q].capture
      /\ \A q \in AllQueues : imm[q] = <<>>
  BY <1>1, <1>2
<1>5. Submitted = {}
  BY <1>2, InSeqEmpty DEF Submitted
<1>6. Placed /\ ActiveUnsubmitted
  BY <1>5, InSeqEmpty DEF Placed, ActiveUnsubmitted
<1>7. Sequenced
  BY <1>5, InOrderEmpty DEF Sequenced
<1>   \A t \in Threads : pc[t] = "idle" /\ Resume(t) = "idle" /\ ~AtEmpty(t)
  BY <1>2 DEF Resume, AtEmpty
<1>9. CallsInPlace
  BY DEF CallsInPlace, CallInPlace
<1>10. RunsInOrder /\ PendingCommandsOwned /\ FinishRuns
  BY DEF RunsInOrder, PendingCommandsOwned, FinishRuns, FinishRun
<1> QED BY <1>6, <1>7, <1>9, <1>10 DEF LInv

\* Every step keeps the order of the commands and the calls in place.
LEMMA NextLInv == IInv /\ IInv' /\ LInv /\ [Next]_vars => LInv'
<1> SUFFICES ASSUME IInv, IInv', LInv, [Next]_vars PROVE LInv'
  OBVIOUS
<1> DEFINE Kept == Ledger' /\ CallsInPlace' /\ FinishRuns'
<1>   Base /\ Base' /\ Core /\ Ledger /\ CallsInPlace /\ FinishRuns
  BY DEF IInv, LInv, Base, Core, Ledger
<1> SUFFICES Kept
  BY DEF LInv, Ledger
<1>1. ASSUME NEW t \in Threads, NEW k \in Kinds, NEW q \in AllQueues,
             NEW W \in SUBSET events, Call(t, k, q, W)
      PROVE  Kept
  BY <1>1, OtherOrder
<1>2. ASSUME NEW t \in Threads, NEW e \in call[t].todo, OnEventWaitListUse(t, e)
      PROVE  Kept
  BY <1>2, OnEventWaitListUseOrder
<1>3. ASSUME NEW t \in Threads, NEW q \in Queues, Entry(t, q)
      PROVE  Kept
  BY <1>3, EntryOrder
<1>4. ASSUME NEW t \in Threads, NEW q \in Queues, AppendCommand(t, q)
      PROVE  Kept
  BY <1>4, AppendCommandLedger, AppendCommandCalls
<1>5. ASSUME NEW t \in Threads, NEW q \in Queues, AfterAppend(t, q)
      PROVE  Kept
  BY <1>5, AfterAppendOrder
<1>6. ASSUME NEW t \in Threads, NEW q \in Queues, Synchronize(t, q)
      PROVE  Kept
  BY <1>6, SynchronizeLedger, SynchronizeCalls
<1>7. ASSUME NEW t \in Threads, NEW q \in Queues,
             SetGraphCapture(t, q) \/ EndGraphCapture(t, q)
      PROVE  Kept
  BY <1>7, CaptureOrder
<1>8. ASSUME NEW t \in Threads, NEW q \in AllQueues, Release(t, q) \/ Return(t, q)
      PROVE  Kept
  BY <1>8, OtherOrder
<1>9. ASSUME NEW t \in Threads, NEW q \in ImmQueues,
             \/ ImmEnqueue(t, q) \/ ImmAppend(t, q) \/ ImmFinish(t, q)
             \/ ImmSynchronize(t, q)
      PROVE  Kept
  BY <1>9, ImmLedger, ImmCalls
<1>10. ASSUME NEW q \in AllQueues, Execute(q)
       PROVE  Kept
  BY <1>10, ExecuteLedger, ExecuteCalls
<1>11. CASE UNCHANGED vars
  <2>   UNCHANGED <<lock, batch, listCmds, imm, cmd, done, kernels, pc, call, after>>
    BY <1>11 DEF vars
  <2>2. Ids' = Ids /\ HostTasks' = HostTasks
    BY DEF Ids, HostTasks
  <2>3. CallsInPlace' /\ FinishRuns'
    BY ZenonT(40), <2>2
       DEF CallsInPlace, CallInPlace, Resume, AtEmpty, FinishRuns, FinishRun
  <2>4. Ledger'
    <3>1. \A p \in Queues : InSync(p) => InSync(p)'
      BY DEF InSync
    <3> QED BY <3>1, LedgerKeep, ListOwner DEF Ledger
  <2> QED BY <2>3, <2>4
<1>12. ASSUME NEW t \in Threads, EventHostSynchronize(t) PROVE Kept
  BY <1>12, OtherOrder
<1> HIDE DEF Kept
<1>13. ASSUME NEW t \in Threads, Step(t) PROVE Kept
  <2>1. ASSUME NEW q \in Queues, Release(t, q) PROVE Kept
    BY <1>8, <2>1 DEF AllQueues
  <2> QED BY <1>2, <1>3, <1>4, <1>5, <1>6, <1>7, <1>8, <1>9, <1>12, <1>13, <2>1
             DEF Step, Entry
<1> QED BY <1>1, <1>10, <1>11, <1>13 DEF Next, Quiescent

-----------------------------------------------------------------------------
\* Wait lists

\* Nothing that was submitted is forgotten: to submit appends to the immediate
\* list, and what leaves that list has run.

LEMMA MovedSubmits ==
  ASSUME Base, NEW t, NEW q \in Queues, NEW next, done' = done,
         FinishUnlocked(t, q, next) \/ RenewBatch(t, q, next)
         \/ imm' = imm
  PROVE  Submitted \subseteq Submitted'
<1>1. Submit(q) \/ imm' = imm
  BY DEF FinishUnlocked, RenewBatch
<1>2. CASE Submit(q)
  BY <1>2, SubmitSubmitted
<1>3. CASE imm' = imm
  BY <1>3 DEF Submitted
<1> QED BY <1>1, <1>2, <1>3

LEMMA AppendSubmits ==
  ASSUME Base, NEW q \in AllQueues, NEW x \in Nat, done' = done,
         imm' = [imm EXCEPT ![q] = Append(imm[q], x)]
  PROVE  Submitted \subseteq Submitted'
<1>   imm \in [AllQueues -> Seq(Nat)]
  BY DEF Base, TypeOK
<1>2. InSeq(Append(imm[q], x)) = InSeq(imm[q]) \cup {x}
  BY AppendId
<1>3. \A p \in AllQueues : InSeq(imm[p]) \subseteq InSeq(imm'[p])
  BY <1>2
<1> QED BY <1>3 DEF Submitted

\* A call that waits on the same events stays covered.
LEMMA CoveredStays ==
  ASSUME NEW t, CallCovered(t), Submitted \subseteq Submitted',
         Ids \subseteq Ids', \A c \in Ids : cmd'[c] = cmd[c],
         call'[t].q = call[t].q, call'[t].waits = call[t].waits,
         call'[t].todo = call[t].todo
  PROVE  CallCovered(t)'
BY DEF CallCovered

\* WaitsCovered survives a step that forgets no submission and no command, if the
\* calls and the new commands wait on what they should.
LEMMA WaitsStep ==
  ASSUME WaitsCovered, Submitted \subseteq Submitted',
         Ids \subseteq Ids', \A c \in Ids : cmd'[c] = cmd[c],
         \A t \in Threads : CallCovered(t)',
         \A c \in Ids' \ Ids : cmd'[c].q \in Queues =>
           \A e \in cmd'[c].waits :
             e \in Ids /\ e < c /\ (e \in Submitted \/ cmd[e].q = cmd'[c].q)
  PROVE  WaitsCovered'
<1>1. ASSUME NEW c \in Ids', cmd'[c].q \in Queues, NEW e \in cmd'[c].waits
      PROVE  e \in Ids' /\ e < c /\ (e \in Submitted' \/ cmd'[e].q = cmd'[c].q)
  <2>1. CASE c \in Ids
    BY SMTT(20), <1>1, <2>1 DEF WaitsCovered
  <2>2. CASE c \notin Ids
    BY <1>1, <2>2
  <2> QED BY <2>1, <2>2
<1> QED BY <1>1 DEF WaitsCovered

\* The calls that do not move stay covered.
LEMMA WaitsKept ==
  ASSUME WaitsCovered, Submitted \subseteq Submitted', UNCHANGED <<cmd, call>>
  PROVE  WaitsCovered'
<1>1. Ids' = Ids
  BY DEF Ids
<1> QED BY <1>1 DEF WaitsCovered, CallCovered

\* onEventWaitListUse leaves the event it is given submitted.
LEMMA HandedOverSubmitted ==
  ASSUME Base, Core, Ledger, CallsInPlace, HostTasks = {},
         NEW t \in Threads, NEW e \in call[t].todo, OnEventWaitListUse(t, e)
  PROVE  /\ Submitted \subseteq Submitted'
         /\ e \in Submitted'
<1> DEFINE q == cmd[e].q
<1>1. q \in Queues /\ e \in Ids /\ cmd[e].gen # NoGen
  BY OnEventWaitListUseBase DEF Base, Known
<1>2. done' = done
  BY DEF OnEventWaitListUse
<1>3. CASE cmd[e].gen = batch[q].gen
  <2>1. RenewBatch(t, q, "release")
    BY <1>3 DEF OnEventWaitListUse
  <2>   e \in InSeq(listCmds[batch[q].active])
    BY <1>1, <1>3 DEF Core, GenerationTruth
  <2>   ~ActiveEmpty(batch[q])
    BY ZenonT(40), <1>1 DEF Ledger, ActiveUnsubmitted
  <2>4. ~batch[q].capture
    BY <1>1 DEF CallsInPlace
  <2>5. Submit(q)
    BY <2>1, <2>4 DEF RenewBatch, FinishUnlocked
  <2> QED BY <1>1, <1>2, <2>5, SubmitSubmitted
<1>4. CASE cmd[e].gen # batch[q].gen
  <2>1. imm' = imm
    BY <1>4 DEF OnEventWaitListUse
  <2>2. Submitted' = Submitted
    BY <1>2, <2>1 DEF Submitted
  <2>3. cmd[e].gen <= batch[q].gen /\ (cmd[e].gen < batch[q].gen => e \in Submitted)
    BY <1>1 DEF Core, GenerationTruth
  <2>4. cmd[e].gen \in Int /\ batch[q].gen \in Int
    <3>1. cmd[e].gen \in Int
      BY ZenonT(40), <1>1, CommandOf DEF Base
    <3>2. batch[q].gen \in Int
      <4>1. batch[q] \in BatchManager
        BY <1>1 DEF Base, TypeOK
      <4> QED BY SMTT(20), <4>1 DEF BatchManager
    <3> QED BY <3>1, <3>2
  <2>5. cmd[e].gen < batch[q].gen
    BY <1>4, <2>3, <2>4
  <2> QED BY <2>2, <2>3, <2>5
<1> QED BY <1>3, <1>4

\* The wait list of a call: an event without a generation is submitted already,
\* one of another queue is handed over.
LEMMA CallWaits ==
  ASSUME Base, Ledger, WaitsCovered, NEW t \in Threads, NEW k \in Kinds,
         NEW q \in AllQueues, NEW W \in SUBSET events, Call(t, k, q, W)
  PROVE  WaitsCovered'
<1> DEFINE c1 == [kind |-> k, q |-> q, waits |-> W, id |-> 0,
                  todo |-> HandedOver(k, q, W)]
<1>1. call' = [call EXCEPT ![t] = c1] /\ UNCHANGED <<imm, cmd, done>>
  BY DEF Call
<1>2. Submitted' = Submitted /\ Ids' = Ids
  BY <1>1 DEF Submitted, Ids
<1>3. call'[t] = c1 /\ \A u \in Threads \ {t} : call'[u] = call[u]
  BY <1>1 DEF Base, TypeOK
<1>4. ASSUME q \in Queues, NEW e \in W
      PROVE  e \in Ids /\ (e \in HandedOver(k, q, W) \cup Submitted \/ cmd[e].q = q)
  <2>   e \in Ids
    BY DEF Base, TypeOK
  <2>2. cmd[e].gen = NoGen => e \in Submitted
    BY DEF Ledger, Placed
  <2> QED BY <1>4, <2>2 DEF HandedOver
<1>5. CallCovered(t)'
  <2>1. call'[t].q = q /\ call'[t].waits = W /\ call'[t].todo = HandedOver(k, q, W)
    <3>1. c1.q = q /\ c1.waits = W /\ c1.todo = HandedOver(k, q, W)
      OBVIOUS
    <3> HIDE DEF c1
    <3> QED BY <1>3, <3>1
  <2> QED BY ZenonT(40), <1>1, <1>2, <1>4, <2>1 DEF CallCovered
<1>6. \A u \in Threads \ {t} : CallCovered(u)'
  <2>1. ASSUME NEW u \in Threads \ {t} PROVE CallCovered(u)'
    <3>1. CallCovered(u) /\ call'[u] = call[u]
      BY <1>3 DEF WaitsCovered
    <3> QED BY <1>1, <1>2, <3>1, CoveredStays
  <2> QED BY <2>1
<1>7. \A u \in Threads : CallCovered(u)'
  BY <1>5, <1>6
<1> QED BY <1>1, <1>2, <1>7, WaitsStep

\* An event leaves the list of those to be handed over once it is submitted.
LEMMA OnEventWaitListUseWaits ==
  ASSUME Base, Core, Ledger, CallsInPlace, HostTasks = {}, WaitsCovered,
         NEW t \in Threads, NEW e \in call[t].todo, OnEventWaitListUse(t, e)
  PROVE  WaitsCovered'
<1> DEFINE c1 == [call[t] EXCEPT !.todo = call[t].todo \ {e}]
<1>1. call' = [call EXCEPT ![t] = c1] /\ cmd' = cmd
  BY DEF OnEventWaitListUse
<1>2. Ids' = Ids
  BY <1>1 DEF Ids
<1>3. call'[t] = c1 /\ \A u \in Threads \ {t} : call'[u] = call[u]
  BY <1>1 DEF Base, TypeOK
<1>4. /\ call'[t].q = call[t].q /\ call'[t].waits = call[t].waits
      /\ call'[t].todo = call[t].todo \ {e}
  <2>1. call[t] \in ApiCall
    BY DEF Base, TypeOK
  <2> QED BY <1>3, <2>1 DEF ApiCall
<1>   Submitted \subseteq Submitted' /\ e \in Submitted'
  BY HandedOverSubmitted
<1>6. CallCovered(t)'
  BY <1>1, <1>2, <1>4 DEF WaitsCovered, CallCovered
<1>7. \A u \in Threads \ {t} : CallCovered(u)'
  <2>1. ASSUME NEW u \in Threads \ {t} PROVE CallCovered(u)'
    <3>1. CallCovered(u) /\ call'[u] = call[u]
      BY <1>3 DEF WaitsCovered
    <3> QED BY <1>1, <1>2, <3>1, CoveredStays
  <2> QED BY <2>1
<1>8. \A u \in Threads : CallCovered(u)'
  BY <1>6, <1>7
<1> QED BY <1>1, <1>2, <1>8, WaitsStep

\* A new command waits on what its call waits on.
LEMMA AppendWaits ==
  ASSUME Base, CallsInPlace, WaitsCovered, NEW t \in Threads, NEW q \in AllQueues,
         pc[t] = "append", lock[q] = t, NEW new \in Command, new.q = q,
         new.waits = call[t].waits, cmd' = Append(cmd, new),
         NEW i, call' = [call EXCEPT ![t] = [call[t] EXCEPT !.id = i]],
         Submitted \subseteq Submitted'
  PROVE  WaitsCovered'
<1>1. /\ Ids' = Ids \cup {Len(cmd) + 1}
      /\ \A c \in Ids : cmd'[c] = cmd[c] /\ c < Len(cmd) + 1
      /\ cmd'[Len(cmd) + 1] = new
  BY NewInLedger
<1>2. Resume(t) \in {"append", "post", "capture", "return"}
  BY DEF Resume
<1>3. call[t].q = q /\ call[t].todo = {}
  BY <1>2, OwnQueue
<1>4. \A u \in Threads : /\ call'[u].q = call[u].q
                         /\ call'[u].waits = call[u].waits
                         /\ call'[u].todo = call[u].todo
  BY DEF Base, TypeOK, ApiCall
<1>5. \A u \in Threads : CallCovered(u)'
  <2>1. ASSUME NEW u \in Threads PROVE CallCovered(u)'
    <3>1. CallCovered(u)
      BY DEF WaitsCovered
    <3>2. Ids \subseteq Ids' /\ \A c \in Ids : cmd'[c] = cmd[c]
      BY <1>1
    <3> QED BY <1>4, <3>1, <3>2, CoveredStays
  <2> QED BY <2>1
<1>6. ASSUME NEW c \in Ids' \ Ids, cmd'[c].q \in Queues, NEW e \in cmd'[c].waits
      PROVE  e \in Ids /\ e < c /\ (e \in Submitted \/ cmd[e].q = cmd'[c].q)
  <2>   c = Len(cmd) + 1 /\ q \in Queues /\ e \in call[t].waits /\ cmd'[c].q = q
    BY <1>1, <1>6
  <2>2. CallCovered(t)
    BY DEF WaitsCovered
  <2>3. e \in Ids /\ (e \in Submitted \/ cmd[e].q = q)
    BY <1>3, <2>2 DEF CallCovered
  <2> QED BY <1>1, <2>3
<1>7. Ids \subseteq Ids' /\ \A c \in Ids : cmd'[c] = cmd[c]
  BY <1>1
<1> QED BY <1>5, <1>6, <1>7, WaitsStep

\* The two appends.
LEMMA AppendCommandWaits ==
  ASSUME Base, CallsInPlace, WaitsCovered, NEW t \in Threads,
         \/ \E q \in Queues : AppendCommand(t, q)
         \/ \E q \in ImmQueues : ImmAppend(t, q)
  PROVE  WaitsCovered'
<1>0. call[t] \in ApiCall /\ Len(cmd) + 1 \in Nat
  BY SMTT(20) DEF Base, TypeOK
<1>1. call[t].kind \in AllKinds /\ call[t].waits \in SUBSET Nat /\ NoGen \in Int
  BY SMTT(20), <1>0 DEF ApiCall, NoGen
<1>2. ASSUME NEW q \in Queues, AppendCommand(t, q) PROVE WaitsCovered'
  <2> DEFINE k == call[t].kind
             new == [q |-> q, kind |-> k, waits |-> call[t].waits,
                     gen |-> IF k \in Direct THEN NoGen ELSE batch[q].gen,
                     list |-> IF k \in Direct THEN None ELSE batch[q].active]
  <2>1. pc[t] = "append" /\ lock[q] = t /\ done' = done /\ q \in AllQueues
    BY <1>2 DEF AppendCommand, AllQueues
  <2>2. CASE batch[q].capture
    <3>   UNCHANGED <<cmd, imm, call>>
      BY <1>2, <2>2 DEF AppendCommand
    <3>2. Submitted' = Submitted
      BY <2>1 DEF Submitted
    <3> QED BY <3>2, WaitsKept
  <2>3. CASE ~batch[q].capture
    <3>1. /\ cmd' = Append(cmd, new)
          /\ call' = [call EXCEPT ![t] = [call[t] EXCEPT !.id = Len(cmd) + 1]]
      BY <1>2, <2>3 DEF AppendCommand
    <3>11. imm' = imm \/ imm' = [imm EXCEPT ![q] = Append(imm[q], Len(cmd) + 1)]
      BY <1>2, <2>3 DEF AppendCommand
    <3>2. new \in Command /\ new.q = q /\ new.waits = call[t].waits
      <4>1. batch[q] \in BatchManager
        BY DEF Base, TypeOK
      <4>2. batch[q].gen \in Int /\ batch[q].active \in Lists
        BY SMTT(20), <4>1 DEF BatchManager
      <4>3. new.gen = IF k \in Direct THEN NoGen ELSE batch[q].gen
        OBVIOUS
      <4>4. new.list = IF k \in Direct THEN None ELSE batch[q].active
        OBVIOUS
      <4>5. new.gen \in Int /\ new.list \in Lists \cup {None}
        <5> HIDE DEF new
        <5> QED BY <1>1, <4>2, <4>3, <4>4
      <4> QED BY <1>1, <2>1, <4>5 DEF Command
    <3>3. Submitted \subseteq Submitted'
      <4>1. CASE imm' = imm
        BY <2>1, <4>1 DEF Submitted
      <4>2. CASE imm' = [imm EXCEPT ![q] = Append(imm[q], Len(cmd) + 1)]
        BY <1>0, <2>1, <4>2, AppendSubmits
      <4> QED BY <3>11, <4>1, <4>2
    <3> HIDE DEF new, k
    <3> QED BY ZenonT(40), <2>1, <3>1, <3>2, <3>3, AppendWaits
  <2> QED BY <2>2, <2>3
<1>3. ASSUME NEW q \in ImmQueues, ImmAppend(t, q) PROVE WaitsCovered'
  <2> DEFINE new == [q |-> q, kind |-> call[t].kind, waits |-> call[t].waits,
                     gen |-> NoGen, list |-> None]
  <2>   /\ pc[t] = "append" /\ lock[q] = t /\ done' = done /\ q \in AllQueues
        /\ cmd' = Append(cmd, new)
        /\ call' = [call EXCEPT ![t] = [call[t] EXCEPT !.id = Len(cmd) + 1]]
        /\ imm' = [imm EXCEPT ![q] = Append(imm[q], Len(cmd) + 1)]
    BY <1>3 DEF ImmAppend, AllQueues
  <2>2. new \in Command /\ new.q = q /\ new.waits = call[t].waits
    BY <1>1 DEF Command
  <2>3. Submitted \subseteq Submitted'
    BY ZenonT(40), <1>0, AppendSubmits
  <2> HIDE DEF new
  <2> QED BY <2>2, <2>3, AppendWaits
<1> QED BY <1>2, <1>3

\* A call that is over waits on nothing.
LEMMA LeaveWaits ==
  ASSUME Base, WaitsCovered, NEW t \in Threads,
         call' = [call EXCEPT ![t] = NoCall], UNCHANGED <<imm, cmd, done>>
  PROVE  WaitsCovered'
<1>1. Submitted' = Submitted /\ Ids' = Ids
  BY DEF Submitted, Ids
<1>2. call'[t].q = None /\ \A u \in Threads \ {t} : call'[u] = call[u]
  BY DEF Base, TypeOK, NoCall
<1>3. CallCovered(t)'
  BY <1>2, NoneAssumption DEF CallCovered
<1>4. \A u \in Threads \ {t} : CallCovered(u)'
  <2>1. ASSUME NEW u \in Threads \ {t} PROVE CallCovered(u)'
    <3>1. CallCovered(u) /\ call'[u] = call[u]
      BY <1>2 DEF WaitsCovered
    <3> QED BY SMTT(30), Z3T(30), <1>1, <3>1, CoveredStays
  <2> QED BY <2>1
<1>5. \A u \in Threads : CallCovered(u)'
  BY ZenonT(40), <1>3, <1>4
<1> QED BY <1>1, <1>5, WaitsStep

\* Every step keeps the waits covered, where there are no host tasks.
LEMMA NextWaits ==
  ASSUME "hosttask" \notin Kinds
  PROVE  IInv /\ LInv /\ WaitsCovered /\ [Next]_vars => WaitsCovered'
<1> SUFFICES ASSUME IInv, LInv, WaitsCovered, [Next]_vars PROVE WaitsCovered'
  OBVIOUS
<1>0. Base /\ Core /\ Ledger /\ CallsInPlace /\ FinishRuns
  BY DEF IInv, LInv, Base, Core, Ledger
<1>1. HostTasks = {}
  BY <1>0 DEF CallsInPlace, HostTasks
<1>2. ASSUME NEW t \in Threads, NEW k \in Kinds, NEW q \in AllQueues,
             NEW W \in SUBSET events, Call(t, k, q, W)
      PROVE  WaitsCovered'
  BY <1>0, <1>2, CallWaits
<1>3. ASSUME NEW t \in Threads, NEW e \in call[t].todo, OnEventWaitListUse(t, e)
      PROVE  WaitsCovered'
  BY <1>0, <1>1, <1>3, OnEventWaitListUseWaits
<1>4. ASSUME NEW t \in Threads, NEW q \in Queues, Entry(t, q) \/ AfterAppend(t, q)
      PROVE  WaitsCovered'
  <2>   UNCHANGED <<cmd, call, done>>
    BY <1>4 DEF Entry, MarkIssued, EnqueueHostTask, EnqueueCommandBuffer, QueueFlush,
                QueueFinish, BeginGraphCapture, AfterAppend, Enter
  <2>2. \E next : FinishUnlocked(t, q, next) \/ RenewBatch(t, q, next) \/ imm' = imm
    BY <1>4 DEF Entry, MarkIssued, EnqueueHostTask, EnqueueCommandBuffer, QueueFlush,
                QueueFinish, BeginGraphCapture, AfterAppend
  <2>3. Submitted \subseteq Submitted'
    BY <1>0, <2>2, MovedSubmits
  <2> QED BY <2>3, WaitsKept
<1>5. ASSUME NEW t \in Threads,
             \/ \E q \in Queues : AppendCommand(t, q)
             \/ \E q \in ImmQueues : ImmAppend(t, q)
      PROVE  WaitsCovered'
  BY <1>0, <1>5, AppendCommandWaits
<1>6. ASSUME NEW t \in Threads,
             \/ \E q \in Queues : Synchronize(t, q) \/ SetGraphCapture(t, q)
                                  \/ EndGraphCapture(t, q) \/ Release(t, q)
             \/ \E q \in ImmQueues : ImmEnqueue(t, q) \/ ImmFinish(t, q)
                                     \/ ImmSynchronize(t, q)
      PROVE  WaitsCovered'
  <2>   UNCHANGED <<imm, cmd, call, done>>
    BY <1>6 DEF Synchronize, SetGraphCapture, EndGraphCapture, Release,
                       ImmEnqueue, ImmFinish, ImmSynchronize, Enter
  <2>2. Submitted' = Submitted
    BY DEF Submitted
  <2> QED BY <2>2, WaitsKept
<1>7. ASSUME NEW t \in Threads,
             EventHostSynchronize(t) \/ \E q \in AllQueues : Return(t, q)
      PROVE  WaitsCovered'
  <2>1. call' = [call EXCEPT ![t] = NoCall] /\ UNCHANGED <<imm, cmd, done>>
    BY <1>7 DEF EventHostSynchronize, Return
  <2> QED BY <1>0, <2>1, LeaveWaits
<1>8. ASSUME NEW q \in AllQueues, Execute(q) PROVE WaitsCovered'
  <2>   UNCHANGED <<cmd, call>> /\ done' = done \cup {Head(imm[q])}
    BY <1>8 DEF Execute
  <2>2. /\ InSeq(imm[q]) = {Head(imm[q])} \cup InSeq(imm'[q])
        /\ \A p \in AllQueues \ {q} : imm'[p] = imm[p]
    BY <1>0, <1>8, ExecuteBase
  <2>3. Submitted \subseteq Submitted'
    BY SMTT(20), <2>2 DEF Submitted
  <2> QED BY <2>3, WaitsKept
<1>9. CASE UNCHANGED vars
  <2>   UNCHANGED <<imm, cmd, call, done>>
    BY <1>9 DEF vars
  <2>2. Submitted' = Submitted
    BY DEF Submitted
  <2> QED BY <2>2, WaitsKept
<1>10. ASSUME NEW t \in Threads, Step(t) PROVE WaitsCovered'
  BY <1>3, <1>4, <1>5, <1>6, <1>7, <1>10 DEF Step, Entry
<1> QED BY <1>2, <1>8, <1>9, <1>10 DEF Next, Quiescent

\* What a command of a batched queue waits on has been submitted before it.
BatchedWaitsSubmitted ==
  \A q \in Queues : \A c \in InSeq(imm[q]) : cmd[c].waits \subseteq Submitted

LEMMA CoveredSubmitted ==
  ASSUME "hosttask" \notin Kinds
  PROVE  IInv /\ LInv /\ WaitsCovered => BatchedWaitsSubmitted
<1> SUFFICES ASSUME IInv, LInv, WaitsCovered,
                    NEW q \in Queues, NEW c \in InSeq(imm[q]), NEW e \in cmd[c].waits,
                    e \notin Submitted
             PROVE  FALSE
  BY DEF BatchedWaitsSubmitted
<1>1. q \in AllQueues /\ Base
  BY DEF AllQueues, IInv, Base
<1>2. HostTasks = {}
  BY DEF LInv, CallsInPlace, HostTasks
<1>   c \in Submitted /\ c \in Ids /\ cmd[c].q = q
  BY ZenonT(40), <1>1, IdsKnown DEF LInv, Placed, Submitted
<1>   e \in Ids /\ e < c /\ cmd[e].q = cmd[c].q
  BY DEF WaitsCovered
<1>5. c < e
  BY ZenonT(40), <1>2 DEF LInv, Sequenced
<1>6. Ids \subseteq Nat
  BY <1>1, IdsKnown
<1> QED BY <1>5, <1>6

-----------------------------------------------------------------------------
\* The order of commands

\* The order holds in every reachable state.

LEMMA SpecLInv == Spec => []LInv
<1> QED BY InitLInv, NextLInv, SpecIInv, PTL DEF Spec

\* An in-order queue runs its commands in the order of the calls that enqueued
\* them, across active batches, immediate lists and graph captures; only a host
\* task may be overtaken.
THEOREM QueuesRunInOrder == Spec => []RunsInOrder
<1>1. LInv => RunsInOrder
  BY DEF LInv
<1> QED BY <1>1, SpecLInv, PTL

\* A regular command list is reset or reused, and a kernel released, only when
\* the device is through with the commands that need it.
THEOREM PendingCommandsStayOwned == Spec => []PendingCommandsOwned
<1>1. LInv => PendingCommandsOwned
  BY DEF LInv
<1> QED BY <1>1, SpecLInv, PTL

\* urQueueFinish and the blocking reads and writes return only when all that was
\* enqueued before has run, but for host tasks.
THEOREM FinishRunsAll == Spec => []FinishRuns
<1>1. LInv => FinishRuns
  BY DEF LInv
<1> QED BY <1>1, SpecLInv, PTL

\* Where the application enqueues no host task they drain the queue.
THEOREM FinishDrainsQueue ==
  ASSUME "hosttask" \notin Kinds
  PROVE  Spec => []FinishDrains
<1>1. LInv => FinishDrains
  <2> SUFFICES ASSUME LInv PROVE FinishDrains
    OBVIOUS
  <2>1. HostTasks = {}
    BY DEF LInv, CallsInPlace, HostTasks
  <2> QED BY <2>1 DEF LInv, FinishRuns, FinishRun, FinishDrains
<1> QED BY <1>1, SpecLInv, PTL

\* Where the application enqueues no host task, no command of a batched queue
\* reaches the device before what it waits on, whichever queues, batched or
\* immediate, made these events: the promise of wait_list_view.
THEOREM BatchedQueuesSubmitWaits ==
  ASSUME "hosttask" \notin Kinds
  PROVE  Spec => []BatchedWaitsSubmitted
<1>1. Init => WaitsCovered
  <2> SUFFICES ASSUME Init PROVE WaitsCovered
    OBVIOUS
  <2>1. Ids = {} /\ \A t \in Threads : call[t].q = None
    BY SMTT(20) DEF Init, NoCall, Ids
  <2> QED BY <2>1, NoneAssumption DEF WaitsCovered, CallCovered
<1> QED BY <1>1, NextWaits, CoveredSubmitted, SpecIInv, SpecLInv, PTL DEF Spec

\* Without immediate queues, which hand over no event, that is so of every
\* command.
THEOREM WaitsSubmittedFirst ==
  ASSUME "hosttask" \notin Kinds, ImmQueues = {}
  PROVE  Spec => []WaitsSubmitted
<1>1. BatchedWaitsSubmitted => WaitsSubmitted
  BY DEF BatchedWaitsSubmitted, WaitsSubmitted, AllQueues
<1> QED BY <1>1, BatchedQueuesSubmitWaits, PTL

-----------------------------------------------------------------------------
\* The slots of runBatches: no step but renewBatchUnlocked adds a list, and that
\* one only below the limit.

\* What a step may do to the lists that queue p keeps for reuse.

RunChange(p) ==
  \/ batch'[p].run = batch[p].run
  \/ batch'[p].run = {}
  \/ /\ ~UsedListsLimit(batch[p])
     /\ batch'[p].run = batch[p].run \cup {batch[p].active}

\* queueFinishUnlocked and renewBatchUnlocked change one queue's lists, and that
\* one by RunChange.
LEMMA RenewRunChange ==
  ASSUME batch \in [Queues -> BatchManager], NEW t, NEW q \in Queues, NEW next,
         FinishUnlocked(t, q, next) \/ RenewBatch(t, q, next)
  PROVE  \A p \in Queues : RunChange(p)
<1>1. CASE batch' = batch
  BY <1>1 DEF RunChange
<1>2. CASE ~UsedListsLimit(batch[q]) /\ RenewBatch(t, q, next)
  <2>1. PICK l : batch' = [batch EXCEPT ![q] = Renewed(batch[q], l)]
    BY <1>2 DEF RenewBatch
  <2>   batch'[q] = Renewed(batch[q], l) /\ \A p \in Queues \ {q} : batch'[p] = batch[p]
    BY <2>1
  <2>3. batch'[q].run = batch[q].run \cup {batch[q].active}
    BY SMTT(20) DEF Renewed
  <2> QED BY <1>2, <2>3 DEF RunChange
<1> QED BY ZenonT(40), <1>1, <1>2 DEF RenewBatch, FinishUnlocked

\* A step that sets another field of a batch leaves its used lists alone.
LEMMA SameRun ==
  ASSUME batch \in [Queues -> BatchManager], NEW q \in Queues,
         \/ batch' = batch
         \/ \E v \in BOOLEAN : batch' = [batch EXCEPT ![q].capture = v]
         \/ batch' = [batch EXCEPT ![q].ops = batch[q].ops + 1]
  PROVE  \A p \in Queues : batch'[p].run = batch[p].run
BY SMTT(20) DEF BatchManager

\* Every step changes the lists of a queue by RunChange.
LEMMA NextRunChange ==
  ASSUME TypeOK, [Next]_vars
  PROVE  \A p \in Queues : RunChange(p)
<1>0. batch \in [Queues -> BatchManager]
  BY DEF TypeOK
<1>1. CASE batch' = batch
  BY <1>1 DEF RunChange
<1>2. ASSUME NEW t, NEW q \in Queues, NEW next,
             FinishUnlocked(t, q, next) \/ RenewBatch(t, q, next)
      PROVE  \A p \in Queues : RunChange(p)
  BY <1>0, <1>2, RenewRunChange
<1>3. ASSUME NEW t \in Threads, NEW q \in Queues, Synchronize(t, q)
      PROVE  \A p \in Queues : RunChange(p)
  <2>1. batch' = [batch EXCEPT ![q] = Finished(batch[q])]
    BY <1>3 DEF Synchronize
  <2>   batch'[q] = Finished(batch[q]) /\ \A p \in Queues \ {q} : batch'[p] = batch[p]
    BY <1>0, <2>1
  <2>3. batch'[q].run = {}
    BY FinishedFields
  <2> QED BY <2>3 DEF RunChange
<1>4. ASSUME NEW t \in Threads, NEW q \in Queues,
             \/ AppendCommand(t, q)
             \/ SetGraphCapture(t, q)
             \/ EndGraphCapture(t, q)
      PROVE  \A p \in Queues : RunChange(p)
  <2>1. \/ batch' = batch
        \/ \E v \in BOOLEAN : batch' = [batch EXCEPT ![q].capture = v]
        \/ batch' = [batch EXCEPT ![q].ops = batch[q].ops + 1]
    BY <1>4 DEF AppendCommand, SetGraphCapture, EndGraphCapture
  <2>2. \A p \in Queues : batch'[p].run = batch[p].run
    BY <1>0, <2>1, SameRun
  <2> QED BY <2>2 DEF RunChange
<1>5. ASSUME NEW t \in Threads, NEW q \in Queues, Entry(t, q)
      PROVE  \A p \in Queues : RunChange(p)
  <2>1. \/ batch' = batch
        \/ \E next : FinishUnlocked(t, q, next) \/ RenewBatch(t, q, next)
    BY <1>5 DEF Entry, MarkIssued, EnqueueHostTask, EnqueueCommandBuffer,
                QueueFlush, QueueFinish, BeginGraphCapture
  <2> QED BY <1>1, <1>2, <2>1
<1>6. ASSUME NEW t \in Threads, NEW e \in call[t].todo, OnEventWaitListUse(t, e)
      PROVE  \A p \in Queues : RunChange(p)
  <2>1. CASE batch' = batch
    BY <1>1, <2>1
  <2>2. CASE RenewBatch(t, cmd[e].q, "release")
    <3>1. CASE cmd[e].q \in Queues
      BY <1>2, <2>2, <3>1
    <3>2. CASE cmd[e].q \notin Queues
      <4>1. batch' = batch
        BY <1>0, <2>2, <3>2 DEF RenewBatch, FinishUnlocked
      <4> QED BY <1>1, <4>1
    <3> QED BY <3>1, <3>2
  <2> QED BY <1>6, <2>1, <2>2 DEF OnEventWaitListUse
<1>7. ASSUME NEW t \in Threads, NEW q \in Queues, AfterAppend(t, q)
      PROVE  \A p \in Queues : RunChange(p)
  BY <1>2, <1>7 DEF AfterAppend
<1>8. ASSUME NEW t \in Threads, Step(t)
      PROVE  \A p \in Queues : RunChange(p)
  <2>1. \/ batch' = batch
        \/ \E e \in call[t].todo : OnEventWaitListUse(t, e)
        \/ \E q \in Queues :
             \/ Entry(t, q) \/ AfterAppend(t, q) \/ Synchronize(t, q)
             \/ AppendCommand(t, q) \/ SetGraphCapture(t, q) \/ EndGraphCapture(t, q)
    BY ZenonT(40), <1>8 DEF Step, Entry, EventHostSynchronize, Release, Return, Enter,
                ImmEnqueue, ImmAppend, ImmFinish, ImmSynchronize
  <2> QED BY <1>1, <1>3, <1>4, <1>5, <1>6, <1>7, <2>1
<1>9. batch' = batch \/ \E t \in Threads : Step(t)
  BY ZenonT(40) DEF Next, Call, Execute, Quiescent, vars
<1> QED BY <1>1, <1>8, <1>9

\* The library's facts on finite sets, and that its cardinality is ours.
FST == INSTANCE FiniteSetTheorems

LEMMA SameFinite == \A S : FST!IsFiniteSet(S) <=> IsFiniteSet(S)
  BY DEF FST!IsFiniteSet, IsFiniteSet

LEMMA SameCardinality == \A S : FST!Cardinality(S) = Cardinality(S)
  BY DEF FST!Cardinality, Cardinality

\* What a vector of Slots elements can hold.
Fits(S) == IsFiniteSet(S) /\ Cardinality(S) <= Slots

LEMMA FitsEmpty == Fits({})
<1>1. IsFiniteSet({}) /\ Cardinality({}) = 0
  BY ZenonT(40), FST!FS_EmptySet, SameFinite, SameCardinality
<1>2. 0 <= Slots
  BY ZenonT(40), SlotsAssumption, NatFromZero
<1>3. IsFiniteSet({}) /\ Cardinality({}) <= Slots
  BY ZenonT(40), <1>1, <1>2
<1> QED BY ZenonT(40), <1>3 DEF Fits

\* A list is added only to a set that has room.
LEMMA FitsAdd ==
  ASSUME NEW b, NEW x, Fits(b.run), ~UsedListsLimit(b), x \notin b.run
  PROVE  Fits(b.run \cup {x})
<1>1. IsFiniteSet(b.run) /\ ~(Slots <= Cardinality(b.run))
  BY ZenonT(40) DEF Fits, UsedListsLimit
<1>2. Cardinality(b.run) \in Nat
  BY ZenonT(40), <1>1, FST!FS_CardinalityType, SameFinite, SameCardinality
<1>3. /\ IsFiniteSet(b.run \cup {x})
      /\ Cardinality(b.run \cup {x}) = Cardinality(b.run) + 1
  BY ZenonT(40), <1>1, FST!FS_AddElement, SameFinite, SameCardinality
<1>4. Cardinality(b.run) + 1 <= Slots
  BY ZenonT(40), <1>1, <1>2, SlotsAssumption, RoomForOne
<1>5. Cardinality(b.run \cup {x}) <= Slots
  BY ZenonT(40), <1>3, <1>4
<1> QED BY ZenonT(40), <1>3, <1>5 DEF Fits

LEMMA RunsStep ==
  ASSUME IInv, RunsWithinSlots, [Next]_vars
  PROVE  RunsWithinSlots'
<1> SUFFICES ASSUME NEW q \in Queues
             PROVE  Fits(batch'[q].run)
  BY ZenonT(40) DEF RunsWithinSlots, Fits
<1>1. Fits(batch[q].run)
  BY ZenonT(40) DEF RunsWithinSlots, Fits
<1>2. batch[q].active \notin batch[q].run
  BY ZenonT(40) DEF IInv, ListsApart
<1>3. RunChange(q)
  BY ZenonT(40), NextRunChange DEF IInv
<1>4. CASE batch'[q].run = batch[q].run
  BY ZenonT(40), <1>1, <1>4
<1>5. CASE batch'[q].run = {}
  BY ZenonT(40), <1>5, FitsEmpty
<1>6. CASE /\ ~UsedListsLimit(batch[q])
           /\ batch'[q].run = batch[q].run \cup {batch[q].active}
  <2>1. Fits(batch[q].run \cup {batch[q].active})
    BY ZenonT(40), <1>1, <1>2, <1>6, FitsAdd
  <2> QED BY ZenonT(40), <1>6, <2>1
<1> QED BY ZenonT(40), <1>3, <1>4, <1>5, <1>6 DEF RunChange

\* A new queue keeps no list.
LEMMA InitRuns == Init => RunsWithinSlots
<1>1. ASSUME Init, NEW q \in Queues PROVE batch[q].run = {}
  BY SMTT(20), <1>1 DEF Init
<1> QED BY ZenonT(40), <1>1, FitsEmpty DEF RunsWithinSlots, Fits

\* No regular list is shared by two queues or kept twice by one, and runBatches
\* never outgrows initialSlotsForBatches: the vector reserved in the constructor
\* of batch_manager is never reallocated.
THEOREM ListsStayDisjoint == Spec => []ListsDisjoint
<1>1. IInv /\ RunsWithinSlots /\ [Next]_vars => RunsWithinSlots'
  BY RunsStep
<1>2. IInv /\ RunsWithinSlots => ListsDisjoint
  BY DEF IInv, ListsDisjoint
<1> QED BY <1>1, <1>2, InitRuns, SpecIInv, PTL DEF Spec

=============================================================================
