------------------------- MODULE BatchedQueueProofs -------------------------
(***************************************************************************)
(* Proofs about BatchedQueue for any number of threads, queues, lists and  *)
(* commands, and any limits, first part: the lemmas on its operators, and  *)
(* that each action preserves the types of the variables, what the queues  *)
(* know of the commands, the discipline of the locks and the bookkeeping   *)
(* of generations and lists.                                               *)
(***************************************************************************)
EXTENDS BatchedQueue, TLAPS

\* The provers of the leaves that name none
USE SMTT(15), Zenon, Z3T(15)

\* The elements of a sequence under the operations the queue uses.
LEMMA InSeqEmpty == InSeq(<<>>) = {}
BY DEF InSeq

\* Appending adds the new element.
LEMMA InSeqAppend ==
  ASSUME NEW S, NEW s \in Seq(S), NEW x \in S
  PROVE  InSeq(Append(s, x)) = InSeq(s) \cup {x}
<1>1. /\ Append(s, x) \in Seq(S)
      /\ Len(Append(s, x)) = Len(s) + 1
      /\ \A i \in 1 .. Len(s) : Append(s, x)[i] = s[i]
      /\ Append(s, x)[Len(s) + 1] = x
  OBVIOUS
<1>2. Len(s) \in Nat
  OBVIOUS
<1>3. ASSUME NEW y PROVE y \in InSeq(Append(s, x)) <=> y \in InSeq(s) \cup {x}
  BY <1>1, <1>2 DEF InSeq
<1> QED BY <1>3

\* The same for sequences of identifiers.
LEMMA AppendId ==
  ASSUME NEW s \in Seq(Nat), NEW x \in Nat
  PROVE  Append(s, x) \in Seq(Nat) /\ InSeq(Append(s, x)) = InSeq(s) \cup {x}
<1>1. Append(s, x) \in Seq(Nat)
  OBVIOUS
<1>2. InSeq(Append(s, x)) = InSeq(s) \cup {x}
  BY InSeqAppend
<1> QED BY <1>1, <1>2

LEMMA NotBoth ==
  ASSUME NEW m \in Nat, NEW n \in Nat, m < n
  PROVE  ~(n < m)
OBVIOUS

\* No generation a batch reaches is the mark of a command outside the batches.
LEMMA NoGenFacts ==
  NoGen \in Int /\ \A n \in Nat : n # NoGen
BY DEF NoGen

LEMMA NatFromZero == \A n \in Nat : 0 <= n
OBVIOUS

LEMMA RoomForOne ==
  ASSUME NEW m \in Nat, NEW n \in Nat, ~(m <= n)
  PROVE  n + 1 <= m
OBVIOUS

LEMMA CommandCount == ASSUME cmd \in Seq(Command) PROVE Len(cmd) \in Nat
OBVIOUS

LEMMA NotZero == \A n \in Nat : n + 1 # 0
OBVIOUS

LEMMA BelowNext ==
  ASSUME NEW n \in Nat
  PROVE  \A c \in 1 .. n : c < n + 1
OBVIOUS

\* What is at most one generation is below the next one.
LEMMA NextGen ==
  ASSUME NEW g \in Int, NEW n \in Nat, g <= n
  PROVE  g <= n + 1 /\ g # n + 1 /\ (g < n \/ g = n)
OBVIOUS

\* The fields of a renewed batch.
IsRenewed(x, b, l) ==
  /\ x.gen = b.gen + 1 /\ x.ops = 0
  /\ x.active = l /\ x.run = b.run \cup {b.active}

LEMMA RenewedFields ==
  ASSUME NEW b, NEW l
  PROVE  IsRenewed(Renewed(b, l), b, l)
BY DEF Renewed, IsRenewed

\* A concatenation has the elements of both parts.
LEMMA InSeqConcat ==
  ASSUME NEW S, NEW s \in Seq(S), NEW u \in Seq(S)
  PROVE  InSeq(s \o u) = InSeq(s) \cup InSeq(u)
<1>   /\ Len(s \o u) = Len(s) + Len(u)
      /\ \A i \in 1 .. Len(s) + Len(u) :
           (s \o u)[i] = IF i <= Len(s) THEN s[i] ELSE u[i - Len(s)]
  OBVIOUS
<1>   Len(s) \in Nat /\ Len(u) \in Nat
  OBVIOUS
<1>3. InSeq(s \o u) \subseteq InSeq(s) \cup InSeq(u)
  BY DEF InSeq
<1>4. InSeq(s) \subseteq InSeq(s \o u)
  BY DEF InSeq
<1>5. ASSUME NEW i \in 1 .. Len(u) PROVE u[i] \in InSeq(s \o u)
  <2>   i + Len(s) \in 1 .. Len(s) + Len(u)
    OBVIOUS
  <2>2. (s \o u)[i + Len(s)] = u[i]
    OBVIOUS
  <2> QED BY <2>2 DEF InSeq
<1>6. InSeq(u) \subseteq InSeq(s \o u)
  BY <1>5 DEF InSeq
<1> QED BY <1>3, <1>4, <1>6

\* A nonempty sequence consists of its head and the elements of its tail.
LEMMA InSeqTail ==
  ASSUME NEW S, NEW s \in Seq(S), s # <<>>
  PROVE  /\ Head(s) \in S
         /\ Tail(s) \in Seq(S)
         /\ InSeq(s) = {Head(s)} \cup InSeq(Tail(s))
<1>   /\ Tail(s) \in Seq(S)
      /\ Head(s) \in S
      /\ Len(Tail(s)) = Len(s) - 1
      /\ \A i \in 1 .. Len(Tail(s)) : Tail(s)[i] = s[i + 1]
      /\ Head(s) = s[1]
  OBVIOUS
<1>2. Len(s) \in Nat /\ Len(s) # 0
  OBVIOUS
<1>3. {Head(s)} \cup InSeq(Tail(s)) \subseteq InSeq(s)
  BY <1>2 DEF InSeq
<1>4. ASSUME NEW i \in 1 .. Len(s) PROVE s[i] \in {Head(s)} \cup InSeq(Tail(s))
  <2>1. CASE i = 1
    BY <2>1
  <2>2. CASE i # 1
    <3>1. i - 1 \in 1 .. Len(Tail(s)) /\ Tail(s)[i - 1] = s[i]
      BY <1>2, <2>2
    <3> QED BY <3>1 DEF InSeq
  <2> QED BY <2>1, <2>2
<1> QED BY <1>3, <1>4 DEF InSeq

-----------------------------------------------------------------------------
\* Types

\* What a step of t inside the lock of q does to the lists when it submits,
\* renews or finishes the batch and goes on at "next".

Moved(t, q, next) ==
  /\ batch' \in [Queues -> BatchManager]
  /\ listCmds' \in [Lists -> Seq(Nat)]
  /\ imm' \in [AllQueues -> Seq(Nat)]
  /\ \A l \in Lists : InSeq(listCmds'[l]) \subseteq Ids
  /\ \A p \in AllQueues : InSeq(imm'[p]) \subseteq Ids
  /\ \/ pc' = [pc EXCEPT ![t] = next] /\ after' = after
     \/ /\ pc' = [pc EXCEPT ![t] = "sync"]
        /\ after' = [after EXCEPT ![t] = next]

\* A submission appends known commands to the immediate list.
LEMMA SubmitType ==
  ASSUME TypeOK, Known, NEW q \in Queues, Submit(q)
  PROVE  /\ imm' \in [AllQueues -> Seq(Nat)]
         /\ \A p \in AllQueues : InSeq(imm'[p]) \subseteq Ids
         /\ \A p \in AllQueues \ {q} : imm'[p] = imm[p]
         /\ InSeq(imm'[q]) = InSeq(imm[q]) \cup InSeq(listCmds[batch[q].active])
<1> DEFINE a == batch[q].active
<1>1. a \in Lists /\ q \in AllQueues
  BY DEF TypeOK, AllQueues, BatchManager
<1>2. imm[q] \in Seq(Nat) /\ listCmds[a] \in Seq(Nat)
  BY <1>1 DEF TypeOK
<1>3. imm[q] \o listCmds[a] \in Seq(Nat)
  BY <1>2
<1>4. imm' = [imm EXCEPT ![q] = imm[q] \o listCmds[a]]
  BY DEF Submit
<1>5. imm' \in [AllQueues -> Seq(Nat)]
  BY <1>1, <1>3, <1>4 DEF TypeOK
<1>6. imm'[q] = imm[q] \o listCmds[a]
  BY Zenon, <1>1, <1>4 DEF TypeOK
<1>7. \A p \in AllQueues \ {q} : imm'[p] = imm[p]
  BY <1>4 DEF TypeOK
<1>8. InSeq(imm'[q]) = InSeq(imm[q]) \cup InSeq(listCmds[a])
  BY <1>2, <1>6, InSeqConcat
<1>9. \A p \in AllQueues : InSeq(imm'[p]) \subseteq Ids
  BY <1>1, <1>7, <1>8 DEF Known
<1> QED BY Zenon, <1>5, <1>7, <1>8, <1>9

\* queueFinishUnlocked keeps the types.
LEMMA FinishUnlockedType ==
  ASSUME TypeOK, Known, NEW t \in Threads, NEW q \in Queues,
         NEW next \in Labels \ {"sync"}, FinishUnlocked(t, q, next)
  PROVE  Moved(t, q, next)
<1>1. UNCHANGED <<batch, listCmds>>
  BY DEF FinishUnlocked
<1>2. CASE batch[q].capture
  BY <1>1, <1>2 DEF FinishUnlocked, Moved, Goto, TypeOK, Known
<1>3. CASE ~batch[q].capture
  <2>1. /\ pc' = [pc EXCEPT ![t] = "sync"]
        /\ after' = [after EXCEPT ![t] = next]
    BY <1>3 DEF FinishUnlocked, Goto
  <2>2. /\ imm' \in [AllQueues -> Seq(Nat)]
        /\ \A p \in AllQueues : InSeq(imm'[p]) \subseteq Ids
    <3>1. CASE UNCHANGED imm
      BY <3>1 DEF TypeOK, Known
    <3>2. CASE Submit(q)
      BY <3>2, SubmitType
    <3> QED BY <1>3, <3>1, <3>2 DEF FinishUnlocked
  <2> QED BY <1>1, <2>1, <2>2 DEF Moved, TypeOK, Known
<1> QED BY <1>2, <1>3

\* renewBatchUnlocked keeps the types.
LEMMA RenewBatchType ==
  ASSUME TypeOK, Known, NEW t \in Threads, NEW q \in Queues,
         NEW next \in Labels \ {"sync"}, RenewBatch(t, q, next)
  PROVE  Moved(t, q, next)
<1>1. CASE UsedListsLimit(batch[q])
  BY <1>1, FinishUnlockedType DEF RenewBatch
<1>2. CASE ~UsedListsLimit(batch[q])
  <2>1. PICK l \in FreeLists :
          /\ batch' = [batch EXCEPT ![q] = Renewed(batch[q], l)]
          /\ listCmds' = [listCmds EXCEPT ![l] = <<>>]
    BY <1>2 DEF RenewBatch
  <2>2. l \in Lists
    BY DEF FreeLists
  <2>3. Submit(q) /\ Goto(t, next) /\ UNCHANGED after
    BY <1>2 DEF RenewBatch
  <2>4. Renewed(batch[q], l) \in BatchManager
    BY <2>2 DEF Renewed, TypeOK, BatchManager
  <2>5. batch' \in [Queues -> BatchManager]
    BY <2>1, <2>4 DEF TypeOK
  <2>6. <<>> \in Seq(Nat)
    OBVIOUS
  <2>7. /\ listCmds' \in [Lists -> Seq(Nat)]
        /\ \A k \in Lists : InSeq(listCmds'[k]) \subseteq Ids
    BY <2>1, <2>2, <2>6, InSeqEmpty DEF TypeOK, Known
  <2>8. /\ imm' \in [AllQueues -> Seq(Nat)]
        /\ \A p \in AllQueues : InSeq(imm'[p]) \subseteq Ids
    BY <2>3, SubmitType
  <2> QED BY <2>3, <2>5, <2>7, <2>8 DEF Moved, Goto, TypeOK
<1> QED BY <1>1, <1>2

\* The part of the inductive invariant that holds by itself.
Base == TypeOK /\ Known /\ LockDiscipline

\* The lock discipline survives a step of t that stays inside or enters.
LEMMA LockStep ==
  ASSUME TypeOK, LockDiscipline, NEW t \in Threads, NEW l \in InLock,
         pc' = [pc EXCEPT ![t] = l],
         \/ after' = after /\ l # "sync"
         \/ \E next \in InLock \ {"sync"} : after' = [after EXCEPT ![t] = next],
         \/ lock' = lock /\ pc[t] \in InLock
         \/ \E q \in AllQueues : /\ lock' = [lock EXCEPT ![q] = t]
                                /\ pc[t] = "waitlist"
  PROVE  LockDiscipline'
<1> SUFFICES ASSUME NEW u \in Threads
             PROVE  /\ \A p, q \in AllQueues : lock'[p] = u /\ lock'[q] = u => p = q
                    /\ \A q \in AllQueues : lock'[q] = u => pc'[u] \in InLock
                    /\ pc'[u] = "sync" => after'[u] \in InLock \ {"sync"}
  BY DEF LockDiscipline
<1>   /\ pc'[u] = IF u = t THEN l ELSE pc[u]
      /\ pc'[u] = "sync" => after'[u] \in InLock \ {"sync"}
  BY DEF TypeOK, LockDiscipline
<1>2. CASE lock' = lock /\ pc[t] \in InLock
  BY <1>2 DEF LockDiscipline
<1>3. ASSUME NEW q \in AllQueues, lock' = [lock EXCEPT ![q] = t],
             pc[t] = "waitlist"
      PROVE  /\ \A a, b \in AllQueues : lock'[a] = u /\ lock'[b] = u => a = b
             /\ \A a \in AllQueues : lock'[a] = u => pc'[u] \in InLock
  <2>1. \A a \in AllQueues : lock'[a] = IF a = q THEN t ELSE lock[a]
    BY <1>3 DEF TypeOK
  <2>2. \A a \in AllQueues : lock[a] # t
    BY <1>3 DEF LockDiscipline, InLock
  <2> QED BY <2>1, <2>2 DEF LockDiscipline
<1> QED BY <1>2, <1>3

\* A step inside the lock of q, or one that takes it, that leaves the commands
\* alone.
LEMMA MovedBase ==
  ASSUME Base, NEW t \in Threads, NEW q \in Queues,
         NEW next \in InLock \ {"sync"}, Moved(t, q, next),
         UNCHANGED <<cmd, done, events, kernels, call, calls>>,
         \/ lock' = lock /\ pc[t] \in InLock
         \/ lock' = [lock EXCEPT ![q] = t] /\ pc[t] = "waitlist"
  PROVE  Base'
<1>   /\ q \in AllQueues
      /\ InLock \subseteq Labels
      /\ "sync" \in InLock
  BY DEF AllQueues, InLock, Labels
<1>2. lock' \in [AllQueues -> Threads \cup {None}]
  BY Zenon DEF Base, TypeOK
<1>3. /\ pc' \in [Threads -> Labels]
      /\ after' \in [Threads -> Labels]
  BY ZenonT(40) DEF Base, TypeOK, Moved
<1>4. TypeOK'
  BY <1>2, <1>3 DEF Base, TypeOK, Moved, Ids
<1>5. Known'
  BY DEF Base, Known, Moved, Ids
<1>6. LockDiscipline'
  <2>1. CASE pc' = [pc EXCEPT ![t] = next] /\ after' = after
    BY Zenon, <2>1, LockStep DEF Base
  <2>2. CASE /\ pc' = [pc EXCEPT ![t] = "sync"]
             /\ after' = [after EXCEPT ![t] = next]
    BY Zenon, <2>2, LockStep DEF Base
  <2> QED BY <2>1, <2>2 DEF Moved
<1> QED BY <1>4, <1>5, <1>6 DEF Base

\* A batch that is left alone has moved to "next".
LEMMA StayMoved ==
  ASSUME Base, NEW t \in Threads, NEW q \in Queues,
         NEW next \in Labels \ {"sync"}, Goto(t, next),
         UNCHANGED <<batch, listCmds, imm, after>>
  PROVE  Moved(t, q, next)
BY DEF Base, Moved, Goto, TypeOK, Known

\* A call on a batched queue enters with its lock: each of the entry actions
\* leaves the batch alone, submits, renews or finishes it.
Entry(t, q) ==
  \/ MarkIssued(t, q)
  \/ EnqueueHostTask(t, q)
  \/ EnqueueCommandBuffer(t, q)
  \/ QueueFlush(t, q)
  \/ QueueFinish(t, q)
  \/ BeginGraphCapture(t, q)

\* The lock is taken and the batch moved.
LEMMA EntryMoved ==
  ASSUME Base, NEW t \in Threads, NEW q \in Queues, Entry(t, q)
  PROVE  /\ \E k : Enter(t, q, k)
         /\ \E next \in {"append", "return", "capture"} : Moved(t, q, next)
<1> USE DEF Base
<1>   {"append", "return", "capture"} \subseteq Labels \ {"sync"}
  BY DEF Labels
<1>1. CASE MarkIssued(t, q)
  <2>1. Moved(t, q, "append")
    BY <1>1, StayMoved, FinishUnlockedType DEF MarkIssued
  <2> QED BY <1>1, <2>1 DEF MarkIssued
<1>2. CASE EnqueueHostTask(t, q)
  BY <1>2, StayMoved DEF EnqueueHostTask
<1>3. CASE EnqueueCommandBuffer(t, q)
  <2>1. Moved(t, q, "append")
    BY <1>3, StayMoved, RenewBatchType DEF EnqueueCommandBuffer
  <2> QED BY <1>3, <2>1 DEF EnqueueCommandBuffer
<1>4. CASE QueueFlush(t, q)
  <2>1. Moved(t, q, "return")
    BY <1>4, StayMoved, RenewBatchType DEF QueueFlush
  <2> QED BY <1>4, <2>1 DEF QueueFlush
<1>5. CASE QueueFinish(t, q)
  <2>1. Moved(t, q, "return")
    BY <1>5, FinishUnlockedType DEF QueueFinish
  <2> QED BY <1>5, <2>1 DEF QueueFinish
<1>6. CASE BeginGraphCapture(t, q)
  <2>1. Moved(t, q, "capture")
    BY <1>6, StayMoved, RenewBatchType DEF BeginGraphCapture
  <2> QED BY <1>6, <2>1 DEF BeginGraphCapture
<1> QED BY <1>1, <1>2, <1>3, <1>4, <1>5, <1>6 DEF Entry

\* Entering a call keeps Base.
LEMMA EntryBase ==
  ASSUME Base, NEW t \in Threads, NEW q \in Queues, Entry(t, q)
  PROVE  Base'
<1>1. PICK next \in {"append", "return", "capture"} : Moved(t, q, next)
  BY EntryMoved
<1>2. PICK k : Enter(t, q, k)
  BY EntryMoved
<1>3. next \in InLock \ {"sync"}
  BY DEF InLock, Labels
<1>4. /\ UNCHANGED <<cmd, done, events, kernels, call, calls>>
      /\ lock' = [lock EXCEPT ![q] = t] /\ pc[t] = "waitlist"
  BY <1>2 DEF Enter
<1> QED BY Zenon, <1>1, <1>3, <1>4, MovedBase

\* Renewing or finishing after the append keeps Base.
LEMMA AfterAppendBase ==
  ASSUME Base, NEW t \in Threads, NEW q \in Queues, AfterAppend(t, q)
  PROVE  Base' /\ Moved(t, q, "return")
<1>   "return" \in InLock \ {"sync"} /\ "return" \in Labels \ {"sync"}
      /\ "post" \in InLock
  BY DEF InLock, Labels
<1>2. Moved(t, q, "return")
  BY RenewBatchType, FinishUnlockedType DEF Base, AfterAppend
<1>3. lock' = lock /\ pc[t] \in InLock
  BY DEF AfterAppend
<1>4. UNCHANGED <<cmd, done, events, kernels, call, calls>>
  BY DEF AfterAppend
<1> QED BY <1>2, <1>3, <1>4, MovedBase

\* The start of a call keeps Base.
LEMMA CallBase ==
  ASSUME Base, NEW t \in Threads, NEW k \in Kinds, NEW q \in AllQueues,
         NEW W \in SUBSET events, Call(t, k, q, W)
  PROVE  Base'
<1> DEFINE c == [kind |-> k, q |-> q, waits |-> W, id |-> 0,
                 todo |-> HandedOver(k, q, W)]
<1>   /\ call' = [call EXCEPT ![t] = c]
      /\ pc' = [pc EXCEPT ![t] = "waitlist"]
      /\ calls' = calls + 1 /\ calls < MaxCalls
      /\ UNCHANGED <<lock, batch, listCmds, imm, cmd, done, events, kernels, after>>
      /\ pc[t] = "idle"
  BY DEF Call, Goto
<1>2. W \subseteq Ids /\ Ids \subseteq Nat
  BY DEF Base, TypeOK, Ids
<1>3. c.todo \subseteq {e \in Ids : cmd[e].gen # NoGen}
  BY Zenon, <1>2 DEF HandedOver
<1>4. c \in ApiCall
  BY Zenon, <1>2, <1>3, KindsAssumption DEF ApiCall
<1>5. call' \in [Threads -> ApiCall] /\ pc' \in [Threads -> Labels]
  BY <1>4 DEF Base, TypeOK, Labels
<1>6. calls' \in 0 .. MaxCalls
  BY BoundsAssumption DEF Base, TypeOK
<1>7. TypeOK'
  BY <1>5, <1>6 DEF Base, TypeOK, Ids
<1>8. Known'
  BY <1>3 DEF Base, TypeOK, Known, Ids
<1>9. LockDiscipline'
  BY DEF Base, TypeOK, LockDiscipline, InLock
<1> QED BY <1>7, <1>8, <1>9 DEF Base

\* The flush of a wait list's event keeps Base.
LEMMA OnEventWaitListUseBase ==
  ASSUME Base, NEW t \in Threads, NEW e \in call[t].todo, OnEventWaitListUse(t, e)
  PROVE  /\ Base'
         /\ cmd[e].q \in Queues
<1> DEFINE q == cmd[e].q
           c == [call[t] EXCEPT !.todo = call[t].todo \ {e}]
<1>1. /\ e \in Ids /\ cmd[e].gen # NoGen /\ q \in Queues /\ q \in AllQueues
  BY DEF Base, Known, AllQueues
<1>2. /\ pc[t] = "waitlist"
      /\ call' = [call EXCEPT ![t] = c]
      /\ UNCHANGED <<cmd, done, events, kernels, calls>>
  BY DEF OnEventWaitListUse
<1>3. /\ c \in ApiCall /\ c.id = call[t].id /\ c.todo \subseteq call[t].todo
  BY Zenon DEF Base, TypeOK, ApiCall
<1>4. /\ call' \in [Threads -> ApiCall]
      /\ \A u \in Threads : /\ call'[u].id = call[u].id
                             /\ call'[u].todo \subseteq call[u].todo
  BY <1>2, <1>3 DEF Base, TypeOK
<1>5. CASE UNCHANGED <<lock, batch, listCmds, imm, pc, after>>
  <2>1. TypeOK'
    BY <1>2, <1>4, <1>5 DEF Base, TypeOK, Ids
  <2>2. Known'
    BY <1>2, <1>4, <1>5 DEF Base, Known, Ids
  <2>3. LockDiscipline'
    BY <1>5 DEF Base, LockDiscipline
  <2> QED BY <1>1, <2>1, <2>2, <2>3 DEF Base
<1>6. CASE lock' = [lock EXCEPT ![q] = t] /\ RenewBatch(t, q, "release")
  <2>1. /\ "release" \in InLock \ {"sync"} /\ "release" \in Labels \ {"sync"}
        /\ "sync" \in InLock /\ InLock \subseteq Labels
    BY DEF InLock, Labels
  <2>   Moved(t, q, "release")
    BY <1>1, <1>6, <2>1, RenewBatchType DEF Base
  <2>3. lock' \in [AllQueues -> Threads \cup {None}]
    BY <1>1, <1>6 DEF Base, TypeOK
  <2>4. /\ pc' \in [Threads -> Labels]
        /\ after' \in [Threads -> Labels]
    BY Zenon, <2>1 DEF Base, TypeOK, Moved
  <2>5. TypeOK'
    BY <1>2, <1>4, <2>3, <2>4 DEF Base, TypeOK, Moved, Ids
  <2>6. Known'
    BY <1>2, <1>4 DEF Base, Known, Moved, Ids
  <2>7. LockDiscipline'
    <3>1. CASE pc' = [pc EXCEPT ![t] = "release"] /\ after' = after
      BY Zenon, <1>1, <1>2, <1>6, <2>1, <3>1, LockStep DEF Base
    <3>2. CASE /\ pc' = [pc EXCEPT ![t] = "sync"]
               /\ after' = [after EXCEPT ![t] = "release"]
      BY Zenon, <1>1, <1>2, <1>6, <2>1, <3>2, LockStep DEF Base
    <3> QED BY <3>1, <3>2 DEF Moved
  <2> QED BY <1>1, <2>5, <2>6, <2>7 DEF Base
<1> QED BY <1>5, <1>6 DEF OnEventWaitListUse

\* Giving the lock of q back and leaving the region keeps the discipline.
LEMMA UnlockStep ==
  ASSUME TypeOK, LockDiscipline, NEW t \in Threads, NEW q \in AllQueues,
         NEW l \in {"idle", "waitlist"}, lock[q] = t,
         pc' = [pc EXCEPT ![t] = l], after' = after,
         lock' = [lock EXCEPT ![q] = None]
  PROVE  LockDiscipline'
<1>1. \A u \in Threads : pc'[u] = IF u = t THEN l ELSE pc[u]
  BY DEF TypeOK
<1>   \A p \in AllQueues : lock'[p] = IF p = q THEN None ELSE lock[p]
  BY DEF TypeOK
<1>3. \A p \in AllQueues : lock'[p] # t
  BY NoneAssumption DEF LockDiscipline
<1> QED BY <1>1, <1>3, NoneAssumption DEF LockDiscipline

\* Leaving onEventWaitListUse keeps Base.
LEMMA ReleaseBase ==
  ASSUME Base, NEW t \in Threads, NEW q \in Queues, Release(t, q)
  PROVE  Base'
<1>   /\ q \in AllQueues /\ lock[q] = t
      /\ lock' = [lock EXCEPT ![q] = None]
      /\ pc' = [pc EXCEPT ![t] = "waitlist"]
      /\ UNCHANGED <<batch, listCmds, imm, cmd, done, events, kernels, call,
                     after, calls>>
  BY DEF Release, Goto, AllQueues
<1>2. TypeOK'
  BY DEF Base, TypeOK, Ids, Labels
<1>3. Known'
  BY DEF Base, Known, Ids
<1>4. LockDiscipline'
  BY Zenon, UnlockStep DEF Base
<1> QED BY <1>2, <1>3, <1>4 DEF Base

\* The return of a call keeps Base.
LEMMA ReturnBase ==
  ASSUME Base, NEW t \in Threads, NEW q \in AllQueues, Return(t, q)
  PROVE  Base'
<1>   /\ lock[q] = t
      /\ lock' = [lock EXCEPT ![q] = None]
      /\ pc' = [pc EXCEPT ![t] = "idle"]
      /\ call' = [call EXCEPT ![t] = NoCall]
      /\ events' = events \cup ({call[t].id} \ {0})
      /\ UNCHANGED <<batch, listCmds, imm, cmd, done, kernels, after, calls>>
  BY DEF Return, Goto
<1>2. NoCall \in ApiCall /\ NoCall.id = 0 /\ NoCall.todo = {}
  BY Zenon DEF NoCall, ApiCall, AllKinds
<1>3. call' \in [Threads -> ApiCall]
  BY <1>2 DEF Base, TypeOK
<1>4. \A u \in Threads : call'[u] = IF u = t THEN NoCall ELSE call[u]
  BY DEF Base, TypeOK
<1>5. events' \subseteq Ids
  BY DEF Base, TypeOK, Known
<1>6. /\ lock' \in [AllQueues -> Threads \cup {None}]
      /\ pc' \in [Threads -> Labels]
  BY DEF Base, TypeOK, Labels
<1>7. TypeOK'
  BY <1>3, <1>5, <1>6 DEF Base, TypeOK, Ids
<1>8. Known'
  BY <1>2, <1>4 DEF Base, Known, Ids
<1>9. LockDiscipline'
  BY Zenon, UnlockStep DEF Base
<1> QED BY <1>7, <1>8, <1>9 DEF Base

\* The end of urEventWait keeps Base.
LEMMA EventHostSynchronizeBase ==
  ASSUME Base, NEW t \in Threads, EventHostSynchronize(t)
  PROVE  Base'
<1>   /\ pc[t] = "waitlist"
      /\ pc' = [pc EXCEPT ![t] = "idle"]
      /\ call' = [call EXCEPT ![t] = NoCall]
      /\ UNCHANGED <<lock, batch, listCmds, imm, cmd, done, events, kernels,
                     after, calls>>
  BY Zenon DEF EventHostSynchronize, Goto
<1>2. NoCall \in ApiCall /\ NoCall.id = 0 /\ NoCall.todo = {}
  BY Zenon DEF NoCall, ApiCall, AllKinds
<1>3. call' \in [Threads -> ApiCall] /\ pc' \in [Threads -> Labels]
  BY <1>2 DEF Base, TypeOK, Labels
<1>4. \A u \in Threads : call'[u] = IF u = t THEN NoCall ELSE call[u]
  BY Zenon DEF Base, TypeOK
<1>5. TypeOK'
  BY <1>3 DEF Base, TypeOK, Ids
<1>6. Known'
  BY <1>2, <1>4 DEF Base, Known, Ids
<1>7. LockDiscipline'
  BY DEF Base, TypeOK, LockDiscipline, InLock
<1> QED BY <1>5, <1>6, <1>7 DEF Base

\* The type of a command.
LEMMA CommandOf ==
  ASSUME TypeOK, NEW c \in Ids
  PROVE  cmd[c] \in Command /\ cmd[c].gen \in Int
<1>1. cmd \in [1 .. Len(cmd) -> Command]
  BY DEF TypeOK
<1> QED BY <1>1 DEF Ids, Command

LEMMA CommandFields ==
  ASSUME TypeOK, NEW c \in Ids
  PROVE  cmd[c].q \in AllQueues /\ cmd[c].list \in Lists \cup {None}
BY CommandOf DEF Command

\* A new command gets the next identifier; the others keep theirs.
LEMMA NewCommand ==
  ASSUME TypeOK, NEW new \in Command, cmd' = Append(cmd, new)
  PROVE  /\ cmd' \in Seq(Command)
         /\ Len(cmd) + 1 \in Nat \ {0}
         /\ Len(cmd) + 1 \notin Ids
         /\ Ids' = Ids \cup {Len(cmd) + 1}
         /\ Ids \subseteq Nat
         /\ \A c \in Ids : cmd'[c] = cmd[c]
         /\ cmd'[Len(cmd) + 1] = new
<1>   cmd \in Seq(Command)
  BY DEF TypeOK
<1>2. Len(cmd) \in Nat
  OBVIOUS
<1>3. /\ cmd' \in Seq(Command)
      /\ Len(cmd') = Len(cmd) + 1
      /\ \A c \in 1 .. Len(cmd) : cmd'[c] = cmd[c]
      /\ cmd'[Len(cmd) + 1] = new
  OBVIOUS
<1> QED BY <1>2, <1>3 DEF Ids

\* What every append does to the state that Base speaks of.
LEMMA AppendBase ==
  ASSUME Base, NEW t \in Threads, NEW new \in Command,
         new.gen # NoGen => new.q \in Queues,
         pc[t] \in InLock, lock' = lock,
         NEW l \in InLock, pc' = [pc EXCEPT ![t] = l],
         \/ after' = after /\ l # "sync"
         \/ \E next \in InLock \ {"sync"} : after' = [after EXCEPT ![t] = next],
         cmd' = Append(cmd, new),
         call' = [call EXCEPT ![t].id = Len(cmd) + 1],
         \/ imm' = imm
         \/ \E q \in AllQueues : imm' = [imm EXCEPT ![q] = Append(imm[q], Len(cmd) + 1)],
         \/ listCmds' = listCmds
         \/ \E k \in Lists :
              listCmds' = [listCmds EXCEPT ![k] = Append(listCmds[k], Len(cmd) + 1)],
         batch' \in [Queues -> BatchManager],
         kernels' \in [AllQueues -> SUBSET Nat],
         UNCHANGED <<done, events, calls>>
  PROVE  Base'
<1> DEFINE id == Len(cmd) + 1
           c == [call[t] EXCEPT !.id = id]
<1>1. /\ cmd' \in Seq(Command)
      /\ id \in Nat \ {0}
      /\ Ids' = Ids \cup {id}
      /\ \A d \in Ids : cmd'[d] = cmd[d]
      /\ cmd'[id] = new
  BY Zenon, NewCommand DEF Base
<1>2. InLock \subseteq Labels
  BY DEF InLock
<1>3. /\ imm' \in [AllQueues -> Seq(Nat)]
      /\ \A q \in AllQueues : InSeq(imm'[q]) \subseteq Ids'
  <2>1. CASE imm' = imm
    BY <1>1, <2>1 DEF Base, TypeOK, Known
  <2>2. ASSUME NEW q \in AllQueues, imm' = [imm EXCEPT ![q] = Append(imm[q], id)]
        PROVE  /\ imm' \in [AllQueues -> Seq(Nat)]
               /\ \A p \in AllQueues : InSeq(imm'[p]) \subseteq Ids'
    <3>1. imm[q] \in Seq(Nat)
      BY DEF Base, TypeOK
    <3>0. id \in Nat
      BY <1>1
    <3>   /\ Append(imm[q], id) \in Seq(Nat)
          /\ InSeq(Append(imm[q], id)) = InSeq(imm[q]) \cup {id}
      <4> HIDE DEF id
      <4> QED BY <3>0, <3>1, AppendId
    <3>3. \A p \in AllQueues : imm'[p] = IF p = q THEN Append(imm[q], id) ELSE imm[p]
      BY <2>2 DEF Base, TypeOK
    <3>4. imm' \in [AllQueues -> Seq(Nat)]
      BY <2>2 DEF Base, TypeOK
    <3> QED BY Zenon, <1>1, <3>3, <3>4 DEF Base, Known
  <2> QED BY <2>1, <2>2
<1>4. /\ listCmds' \in [Lists -> Seq(Nat)]
      /\ \A k \in Lists : InSeq(listCmds'[k]) \subseteq Ids'
  <2>1. CASE listCmds' = listCmds
    BY <1>1, <2>1 DEF Base, TypeOK, Known
  <2>2. ASSUME NEW k \in Lists,
               listCmds' = [listCmds EXCEPT ![k] = Append(listCmds[k], id)]
        PROVE  /\ listCmds' \in [Lists -> Seq(Nat)]
               /\ \A m \in Lists : InSeq(listCmds'[m]) \subseteq Ids'
    <3>1. listCmds[k] \in Seq(Nat)
      BY DEF Base, TypeOK
    <3>   /\ Append(listCmds[k], id) \in Seq(Nat)
          /\ InSeq(Append(listCmds[k], id)) = InSeq(listCmds[k]) \cup {id}
      <4>1. id \in Nat
        BY <1>1
      <4> HIDE DEF id
      <4> QED BY <3>1, <4>1, AppendId
    <3>3. \A m \in Lists :
            listCmds'[m] = IF m = k THEN Append(listCmds[k], id) ELSE listCmds[m]
      BY <2>2 DEF Base, TypeOK
    <3>4. listCmds' \in [Lists -> Seq(Nat)]
      BY <2>2 DEF Base, TypeOK
    <3> QED BY Zenon, <1>1, <3>3, <3>4 DEF Base, Known
  <2> QED BY <2>1, <2>2
<1>5. /\ c \in ApiCall /\ c.id = id /\ c.todo = call[t].todo
      /\ call' = [call EXCEPT ![t] = c]
  <2>1. id \in Nat /\ call[t] \in ApiCall
    BY <1>1 DEF Base, TypeOK
  <2>2. c \in ApiCall /\ c.id = id /\ c.todo = call[t].todo
    <3> HIDE DEF id
    <3> QED BY Zenon, <2>1 DEF ApiCall
  <2>3. call' = [call EXCEPT ![t] = c]
    OBVIOUS
  <2> QED BY <2>2, <2>3
<1>6. call' \in [Threads -> ApiCall]
  BY <1>5 DEF Base, TypeOK
<1>7. \A u \in Threads : /\ call'[u].id \in {id, call[u].id}
                         /\ call'[u].todo = call[u].todo
  BY <1>5 DEF Base, TypeOK
<1>8. /\ pc' \in [Threads -> Labels]
      /\ after' \in [Threads -> Labels]
  BY Zenon, <1>2 DEF Base, TypeOK
<1>9. TypeOK'
  <2>1. done' \subseteq Ids' /\ events' \subseteq Ids'
    BY <1>1 DEF Base, TypeOK
  <2> QED BY <1>1, <1>3, <1>4, <1>6, <1>8, <2>1 DEF Base, TypeOK
<1>10. Known'
  <2>1. \A d \in Ids' : cmd'[d].gen # NoGen => cmd'[d].q \in Queues
    BY Zenon, <1>1 DEF Base, Known
  <2>2. ASSUME NEW u \in Threads
        PROVE  /\ call'[u].id \in Ids' \cup {0}
               /\ call'[u].todo \subseteq {d \in Ids' : cmd'[d].gen # NoGen}
    <3>   /\ call[u].id \in Ids \cup {0}
          /\ call[u].todo \subseteq {d \in Ids : cmd[d].gen # NoGen}
      BY DEF Base, Known
    <3>2. \A d \in Ids : d \in Ids' /\ cmd'[d] = cmd[d]
      BY Zenon, <1>1
    <3>3. call'[u].todo \subseteq {d \in Ids' : cmd'[d].gen # NoGen}
      BY Zenon, <1>7, <3>2
    <3>4. call'[u].id \in Ids' \cup {0}
      BY <1>1, <1>7
    <3> QED BY Zenon, <3>3, <3>4
  <2> QED BY Zenon, <1>3, <1>4, <2>1, <2>2 DEF Known
<1>11. LockDiscipline'
  BY Zenon, LockStep DEF Base
<1> QED BY <1>9, <1>10, <1>11 DEF Base

\* The retained kernels stay sets of identifiers.
LEMMA RetainedType ==
  ASSUME TypeOK, NEW q \in AllQueues, NEW k, NEW id \in Nat
  PROVE  Retained(q, k, id) \in [AllQueues -> SUBSET Nat]
<1>   kernels \in [AllQueues -> SUBSET Nat]
  BY DEF TypeOK
<1>2. kernels[q] \cup {id} \in SUBSET Nat
  OBVIOUS
<1>3. [kernels EXCEPT ![q] = kernels[q] \cup {id}] \in [AllQueues -> SUBSET Nat]
  BY <1>2
<1> QED BY <1>3 DEF Retained

\* The append to the active batch or the immediate list keeps Base.
LEMMA AppendCommandBase ==
  ASSUME Base, NEW t \in Threads, NEW q \in Queues, AppendCommand(t, q)
  PROVE  Base'
<1> DEFINE k == call[t].kind
           b == batch[q]
           id == Len(cmd) + 1
           new == [q |-> q, kind |-> k, waits |-> call[t].waits,
                   gen |-> IF k \in Direct THEN NoGen ELSE b.gen,
                   list |-> IF k \in Direct THEN None ELSE b.active]
           l == IF k \in {"blockingop", "barrier"} THEN "post" ELSE "return"
<1>1. /\ pc[t] = "append" /\ lock[q] = t
      /\ pc' = [pc EXCEPT ![t] = l]
      /\ UNCHANGED <<lock, done, events, after, calls>>
  BY DEF AppendCommand, Goto
<1>2. /\ l \in InLock \ {"sync"} /\ pc[t] \in InLock /\ InLock \subseteq Labels
      /\ q \in AllQueues
  BY <1>1 DEF InLock, Labels, AllQueues
<1>3. /\ call[t] \in ApiCall /\ b \in BatchManager
      /\ b.active \in Lists /\ b.gen \in Nat
  BY DEF Base, TypeOK, BatchManager
<1>4. new \in Command /\ (new.gen # NoGen => new.q \in Queues)
  BY <1>2, <1>3 DEF Command, ApiCall, NoGen
<1>5. CASE b.capture
  <2>   UNCHANGED <<cmd, imm, listCmds, batch, kernels, call>>
    BY <1>5 DEF AppendCommand
  <2>2. TypeOK'
    BY <1>1, <1>2 DEF Base, TypeOK, Ids
  <2>3. Known'
    BY DEF Base, Known, Ids
  <2>4. LockDiscipline'
    BY Zenon, <1>1, <1>2, LockStep DEF Base
  <2> QED BY <2>2, <2>3, <2>4 DEF Base
<1>6. CASE ~b.capture
  <2>1. /\ cmd' = Append(cmd, new)
        /\ call' = [call EXCEPT ![t].id = id]
    BY <1>6 DEF AppendCommand
  <2>2. \/ imm' = imm
        \/ \E p \in AllQueues : imm' = [imm EXCEPT ![p] = Append(imm[p], id)]
    BY <1>2, <1>6 DEF AppendCommand
  <2>3. \/ listCmds' = listCmds
        \/ \E m \in Lists :
             listCmds' = [listCmds EXCEPT ![m] = Append(listCmds[m], id)]
    BY Zenon, <1>3, <1>6 DEF AppendCommand
  <2>4. batch' \in [Queues -> BatchManager]
    <3>1. batch' = batch \/ batch' = [batch EXCEPT ![q].ops = @ + 1]
      BY <1>6 DEF AppendCommand
    <3>2. [b EXCEPT !.ops = b.ops + 1] \in BatchManager
      BY <1>3 DEF BatchManager
    <3> QED BY Zenon, <3>1, <3>2 DEF Base, TypeOK
  <2>5. kernels' \in [AllQueues -> SUBSET Nat]
    <3>1. id \in Nat
      BY <1>4, <2>1, NewCommand DEF Base
    <3>2. kernels' = kernels \/ kernels' = Retained(q, k, id)
      BY <1>6 DEF AppendCommand
    <3> HIDE DEF id
    <3> QED BY <1>2, <3>1, <3>2, RetainedType DEF Base, TypeOK
  <2> HIDE DEF new, l
  <2> QED BY Zenon, <1>1, <1>2, <1>4, <2>1, <2>2, <2>3, <2>4, <2>5, AppendBase
<1> QED BY <1>5, <1>6

\* An append of an immediate queue keeps Base.
LEMMA ImmAppendBase ==
  ASSUME Base, NEW t \in Threads, NEW q \in ImmQueues, ImmAppend(t, q)
  PROVE  Base'
<1> DEFINE id == Len(cmd) + 1
           k == call[t].kind
           new == [q |-> q, kind |-> k, waits |-> call[t].waits, gen |-> NoGen,
                   list |-> None]
           l == IF k = "blockingop" THEN "sync" ELSE "return"
<1>   /\ pc[t] = "append" /\ lock[q] = t
      /\ pc' = [pc EXCEPT ![t] = l]
      /\ cmd' = Append(cmd, new)
      /\ call' = [call EXCEPT ![t].id = id]
      /\ imm' = [imm EXCEPT ![q] = Append(imm[q], id)]
      /\ kernels' = Retained(q, k, id)
      /\ UNCHANGED <<lock, batch, listCmds, done, events, calls>>
  BY DEF ImmAppend, Goto
<1>2. /\ l \in InLock /\ pc[t] \in InLock /\ "return" \in InLock \ {"sync"}
      /\ q \in AllQueues
  BY DEF InLock, Labels, AllQueues
<1>3. /\ call[t] \in ApiCall /\ batch' \in [Queues -> BatchManager]
  BY DEF Base, TypeOK
<1>4. new \in Command /\ ~(new.gen # NoGen)
  BY <1>2, <1>3 DEF Command, ApiCall, NoGen
<1>5. \/ after' = after /\ l # "sync"
      \/ \E next \in InLock \ {"sync"} : after' = [after EXCEPT ![t] = next]
  <2>   after' = [after EXCEPT ![t] = IF k = "blockingop" THEN "return" ELSE after[t]]
    BY DEF ImmAppend
  <2>2. CASE k = "blockingop"
    BY Zenon, <1>2, <2>2
  <2>3. CASE k # "blockingop"
    BY <2>3 DEF Base, TypeOK
  <2> QED BY Zenon, <2>2, <2>3
<1>6. kernels' \in [AllQueues -> SUBSET Nat]
  <2>1. id \in Nat
    BY <1>4, NewCommand DEF Base
  <2> HIDE DEF id
  <2> QED BY <1>2, <2>1, RetainedType DEF Base
<1> HIDE DEF new, l
<1> QED BY Zenon, <1>2, <1>3, <1>4, <1>5, <1>6, AppendBase

\* A step inside the lock of q that changes batch, lists and kernels only.
LEMMA LocalBase ==
  ASSUME Base, NEW t \in Threads, pc[t] \in InLock, lock' = lock,
         NEW l \in InLock \ {"sync"}, pc' = [pc EXCEPT ![t] = l],
         after' \in {after, [after EXCEPT ![t] = "idle"]},
         batch' \in [Queues -> BatchManager],
         listCmds' \in [Lists -> Seq(Nat)],
         \A k \in Lists : InSeq(listCmds'[k]) \subseteq Ids,
         kernels' \in [AllQueues -> SUBSET Nat],
         UNCHANGED <<imm, cmd, done, events, call, calls>>
  PROVE  Base'
<1>1. /\ pc' \in [Threads -> Labels]
      /\ after' \in [Threads -> Labels]
  BY Zenon DEF Base, TypeOK, InLock, Labels
<1>2. TypeOK'
  BY <1>1 DEF Base, TypeOK, Ids
<1>3. Known'
  BY DEF Base, Known, Ids
<1>4. \A u \in Threads : /\ pc'[u] = IF u = t THEN l ELSE pc[u]
                         /\ u # t => after'[u] = after[u]
  BY DEF Base, TypeOK
<1>5. LockDiscipline'
  BY <1>4 DEF Base, LockDiscipline
<1> QED BY <1>2, <1>3, <1>5 DEF Base

\* The end of a wait for the device keeps Base.
LEMMA SynchronizeBase ==
  ASSUME Base, NEW t \in Threads, NEW q \in Queues, Synchronize(t, q)
  PROVE  Base'
<1> DEFINE b == batch[q]
<1>1. /\ pc[t] = "sync" /\ lock[q] = t /\ lock' = lock
      /\ pc' = [pc EXCEPT ![t] = after[t]]
      /\ after' = [after EXCEPT ![t] = "idle"]
      /\ kernels' = [kernels EXCEPT ![q] = {}]
      /\ batch' = [batch EXCEPT ![q] = Finished(b)]
      /\ UNCHANGED <<imm, cmd, done, events, call, calls>>
  BY DEF Synchronize, Goto
<1>2. /\ after[t] \in InLock \ {"sync"} /\ pc[t] \in InLock
  BY <1>1 DEF Base, LockDiscipline, InLock, Labels
<1>3. b \in BatchManager /\ b.active \in Lists
  BY DEF Base, TypeOK, BatchManager
<1>4. Finished(b) \in BatchManager
  BY <1>3 DEF Finished, BatchManager
<1>5. batch' \in [Queues -> BatchManager]
  BY <1>1, <1>4 DEF Base, TypeOK
<1>6. kernels' \in [AllQueues -> SUBSET Nat]
  BY Zenon, <1>1 DEF Base, TypeOK
<1>7. /\ listCmds' \in [Lists -> Seq(Nat)]
      /\ \A k \in Lists : InSeq(listCmds'[k]) \subseteq Ids
  <2>1. <<>> \in Seq(Nat)
    OBVIOUS
  <2>2. listCmds' = listCmds \/ listCmds' = [listCmds EXCEPT ![b.active] = <<>>]
    BY Zenon DEF Synchronize
  <2> QED BY Zenon, <1>3, <2>1, <2>2, InSeqEmpty DEF Base, TypeOK, Known
<1> QED BY Zenon, <1>1, <1>2, <1>5, <1>6, <1>7, LocalBase

\* Beginning and ending a graph capture keep Base.
LEMMA SetGraphCaptureBase ==
  ASSUME Base, NEW t \in Threads, NEW q \in Queues, SetGraphCapture(t, q)
  PROVE  Base'
<1>1. /\ pc[t] \in InLock /\ "return" \in InLock \ {"sync"}
  BY DEF SetGraphCapture, InLock, Labels
<1>2. batch' \in [Queues -> BatchManager]
  BY ZenonT(40) DEF Base, TypeOK, BatchManager, SetGraphCapture
<1> QED BY Zenon, <1>1, <1>2, LocalBase DEF SetGraphCapture, Goto, Base, TypeOK, Known

\* ... and so does ending one.
LEMMA EndGraphCaptureBase ==
  ASSUME Base, NEW t \in Threads, NEW q \in Queues, EndGraphCapture(t, q)
  PROVE  Base'
<1>1. batch' \in [Queues -> BatchManager]
  BY ZenonT(40) DEF Base, TypeOK, BatchManager, EndGraphCapture
<1>2. Moved(t, q, "return")
  BY <1>1 DEF Moved, EndGraphCapture, Goto, Base, TypeOK, Known
<1>3. /\ UNCHANGED <<cmd, done, events, kernels, call, calls>>
      /\ lock' = [lock EXCEPT ![q] = t] /\ pc[t] = "waitlist"
  BY DEF EndGraphCapture, Enter
<1>4. "return" \in InLock \ {"sync"}
  BY DEF InLock, Labels
<1> QED BY Zenon, <1>2, <1>3, <1>4, MovedBase

\* The other steps of an immediate queue keep Base.
LEMMA ImmEnterBase ==
  ASSUME Base, NEW t \in Threads, NEW q \in ImmQueues,
         ImmEnqueue(t, q) \/ ImmFinish(t, q)
  PROVE  Base'
<1>   /\ pc[t] = "waitlist" /\ q \in AllQueues
      /\ lock' = [lock EXCEPT ![q] = t]
      /\ UNCHANGED <<batch, listCmds, imm, cmd, done, events, kernels, call, calls>>
  BY DEF ImmEnqueue, ImmFinish, Enter, AllQueues
<1>2. /\ {"append", "return", "sync"} \subseteq InLock /\ InLock \subseteq Labels
  BY DEF InLock, Labels
<1>3. \/ pc' = [pc EXCEPT ![t] = "append"] /\ after' = after
      \/ /\ pc' = [pc EXCEPT ![t] = "sync"]
         /\ after' = [after EXCEPT ![t] = "return"]
  BY DEF ImmEnqueue, ImmFinish, Goto
<1>4. /\ pc' \in [Threads -> Labels] /\ after' \in [Threads -> Labels]
      /\ lock' \in [AllQueues -> Threads \cup {None}]
  BY Zenon, <1>2, <1>3 DEF Base, TypeOK
<1>5. TypeOK'
  BY <1>4 DEF Base, TypeOK, Ids
<1>6. Known'
  BY Zenon DEF Base, Known, Ids
<1>7. LockDiscipline'
  <2>1. CASE pc' = [pc EXCEPT ![t] = "append"] /\ after' = after
    BY Zenon, <1>2, <2>1, LockStep DEF Base
  <2>2. CASE /\ pc' = [pc EXCEPT ![t] = "sync"]
             /\ after' = [after EXCEPT ![t] = "return"]
    BY Zenon, <1>2, <2>2, LockStep DEF Base
  <2> QED BY <1>3, <2>1, <2>2
<1> QED BY <1>5, <1>6, <1>7 DEF Base

\* The end of a wait on an immediate list keeps Base.
LEMMA ImmSynchronizeBase ==
  ASSUME Base, NEW t \in Threads, NEW q \in ImmQueues, ImmSynchronize(t, q)
  PROVE  Base'
<1>   /\ pc[t] = "sync" /\ lock' = lock
      /\ pc' = [pc EXCEPT ![t] = after[t]]
      /\ after' = [after EXCEPT ![t] = "idle"]
      /\ UNCHANGED <<batch, listCmds, imm, cmd, done, events, call, calls>>
  BY Zenon DEF ImmSynchronize, Goto
<1>2. /\ after[t] \in InLock \ {"sync"} /\ pc[t] \in InLock
  BY DEF Base, LockDiscipline, InLock, Labels
<1>3. kernels' \in [AllQueues -> SUBSET Nat]
  BY Zenon DEF ImmSynchronize, Base, TypeOK
<1> QED BY Zenon, <1>2, <1>3, LocalBase DEF Base, TypeOK, Known

\* A step of the device keeps Base.
LEMMA ExecuteBase ==
  ASSUME Base, NEW q \in AllQueues, Execute(q)
  PROVE  /\ Base'
         /\ InSeq(imm[q]) = {Head(imm[q])} \cup InSeq(imm'[q])
         /\ \A p \in AllQueues \ {q} : imm'[p] = imm[p]
<1>   /\ imm[q] # <<>>
      /\ done' = done \cup {Head(imm[q])}
      /\ imm' = [imm EXCEPT ![q] = Tail(imm[q])]
      /\ UNCHANGED <<lock, batch, listCmds, cmd, events, kernels, pc, call,
                     after, calls>>
  BY DEF Execute
<1>   /\ imm[q] \in Seq(Nat)
      /\ InSeq(imm[q]) = {Head(imm[q])} \cup InSeq(Tail(imm[q]))
      /\ Tail(imm[q]) \in Seq(Nat)
  BY InSeqTail DEF Base, TypeOK
<1>   /\ imm' \in [AllQueues -> Seq(Nat)]
      /\ imm'[q] = Tail(imm[q])
      /\ \A p \in AllQueues \ {q} : imm'[p] = imm[p]
  BY Zenon DEF Base, TypeOK
<1>4. done' \subseteq Ids
  BY DEF Base, TypeOK, Known
<1>5. TypeOK'
  BY <1>4 DEF Base, TypeOK, Ids
<1>6. Known'
  BY DEF Base, Known, Ids
<1>7. LockDiscipline'
  BY DEF Base, LockDiscipline
<1> QED BY <1>5, <1>6, <1>7 DEF Base

-----------------------------------------------------------------------------
\* What the bookkeeping of generations and the order of commands both rest on

\* The part of the inductive invariant that rests on Base.

Core == SubmittedAtSync /\ ListsApart /\ GenerationTruth

\* What a submission adds to the submitted commands.
LEMMA SubmitSubmitted ==
  ASSUME Base, NEW q \in Queues, Submit(q), done' = done
  PROVE  Submitted' = Submitted \cup InSeq(listCmds[batch[q].active])
<1>1. q \in AllQueues
  BY DEF AllQueues
<1>2. /\ \A p \in AllQueues \ {q} : imm'[p] = imm[p]
      /\ InSeq(imm'[q]) = InSeq(imm[q]) \cup InSeq(listCmds[batch[q].active])
  BY Zenon, SubmitType DEF Base
<1>3. \A c : c \in Submitted' <=> c \in done' \/ \E p \in AllQueues : c \in InSeq(imm'[p])
  BY DEF Submitted
<1>4. \A c : c \in Submitted <=> c \in done \/ \E p \in AllQueues : c \in InSeq(imm[p])
  BY DEF Submitted
<1>5. \A c : c \in Submitted' <=> c \in Submitted \cup InSeq(listCmds[batch[q].active])
  BY <1>1, <1>2, <1>3, <1>4
<1> QED BY <1>5

\* The list recorded in by another queue is neither q's active list nor free.
LEMMA OtherActive ==
  ASSUME Base, Core, NEW q \in Queues, NEW p \in Queues \ {q}
  PROVE  /\ batch[p].active \in Lists
         /\ batch[p].active # batch[q].active
         /\ batch[p].active \notin batch[q].run
         /\ batch[p].active \notin FreeLists
         /\ batch[p].run \cap FreeLists = {}
BY DEF Base, TypeOK, BatchManager, Core, ListsApart, FreeLists

-----------------------------------------------------------------------------
\* Generations and lists

\* Nobody but t starts to wait for the device on a batched queue.

SyncOnly(t, q) ==
  \A u \in Threads, p \in Queues :
    lock'[p] = u /\ pc'[u] = "sync" =>
      \/ lock[p] = u /\ pc[u] = "sync" /\ p # q
      \/ u = t /\ p = q

\* Steps that leave the batches and their lists alone and submit at most more.
LEMMA CoreKeep ==
  ASSUME Base, Core, UNCHANGED <<batch, listCmds>>, Submitted \subseteq Submitted',
         \A c \in Ids' : cmd'[c].gen # NoGen => c \in Ids /\ cmd'[c] = cmd[c],
         \A u \in Threads, p \in Queues :
           lock'[p] = u /\ pc'[u] = "sync" => lock[p] = u /\ pc[u] = "sync"
  PROVE  Core'
<1>1. ListsApart'
  BY DEF Core, ListsApart
<1>2. SubmittedAtSync'
  BY DEF Core, SubmittedAtSync, ActiveEmpty
<1>3. GenerationTruth'
  BY DEF Core, GenerationTruth
<1> QED BY <1>1, <1>2, <1>3 DEF Core

\* Finishing a batch up to the wait keeps Core.
LEMMA FinishUnlockedCore ==
  ASSUME Base, Core, NEW t \in Threads, NEW q \in Queues, NEW next,
         FinishUnlocked(t, q, next), next # "sync",
         UNCHANGED <<cmd, done>>, SyncOnly(t, q)
  PROVE  Core'
<1>1. UNCHANGED <<batch, listCmds, cmd, done>>
  BY Zenon DEF FinishUnlocked
<1>2. Submitted \subseteq Submitted'
  <2>1. CASE imm' = imm
    BY <1>1, <2>1 DEF Submitted
  <2>2. CASE Submit(q)
    BY <1>1, <2>2, SubmitSubmitted
  <2> QED BY <2>1, <2>2 DEF FinishUnlocked
<1>3. ListsApart'
  BY <1>1 DEF Core, ListsApart
<1>4. GenerationTruth'
  BY Zenon, <1>1, <1>2 DEF Core, GenerationTruth, Ids
<1>5. SubmittedAtSync'
  <2> SUFFICES ASSUME NEW u \in Threads, NEW p \in Queues,
                      lock'[p] = u, pc'[u] = "sync", ~ActiveEmpty(batch'[p])
               PROVE  InSeq(listCmds'[batch'[p].active]) \subseteq Submitted'
    BY DEF SubmittedAtSync
  <2>1. CASE lock[p] = u /\ pc[u] = "sync"
    BY <1>1, <1>2, <2>1 DEF Core, SubmittedAtSync
  <2>2. CASE u = t /\ p = q
    <3>1. pc'[t] = "sync"
      BY <2>2
    <3>2. CASE batch[q].capture
      <4>1. pc'[t] = next
        BY <3>2 DEF FinishUnlocked, Goto, Base, TypeOK
      <4> QED BY <3>1, <4>1
    <3>3. CASE ~batch[q].capture
      <4>1. Submit(q)
        BY <1>1, <2>2, <3>3 DEF FinishUnlocked
      <4> QED BY <1>1, <2>2, <4>1, SubmitSubmitted
    <3> QED BY <3>2, <3>3
  <2> QED BY <2>1, <2>2 DEF SyncOnly
<1> QED BY <1>3, <1>4, <1>5 DEF Core

\* Renewing a batch keeps Core: the commands of the old generation are submitted
\* in the step that makes the next one current.
LEMMA RenewBatchCore ==
  ASSUME Base, Core, NEW t \in Threads, NEW q \in Queues, NEW next,
         RenewBatch(t, q, next), next # "sync",
         UNCHANGED <<cmd, done>>, SyncOnly(t, q)
  PROVE  Core'
<1>1. CASE UsedListsLimit(batch[q])
  BY <1>1, FinishUnlockedCore DEF RenewBatch
<1>2. CASE ~UsedListsLimit(batch[q])
  <2> DEFINE b == batch[q]
  <2>1. PICK l \in FreeLists :
          /\ batch' = [batch EXCEPT ![q] = Renewed(b, l)]
          /\ listCmds' = [listCmds EXCEPT ![l] = <<>>]
    BY <1>2 DEF RenewBatch
  <2>2. Submit(q) /\ pc' = [pc EXCEPT ![t] = next]
    BY <1>2 DEF RenewBatch, Goto
  <2>3. Submitted' = Submitted \cup InSeq(listCmds[b.active])
    BY <2>2, SubmitSubmitted
  <2>4. l \in Lists /\ l # b.active /\ l \notin b.run
    BY DEF FreeLists
  <2>5. /\ b \in BatchManager /\ b.active \in Lists /\ b.gen \in Nat
        /\ b.run \subseteq Lists
    BY DEF Base, TypeOK, BatchManager
  <2>6. /\ batch'[q] = Renewed(b, l)
        /\ \A p \in Queues \ {q} : batch'[p] = batch[p]
    BY Zenon, <2>1 DEF Base, TypeOK
  <2>7. /\ batch'[q].gen = b.gen + 1 /\ batch'[q].ops = 0
        /\ batch'[q].active = l /\ batch'[q].run = b.run \cup {b.active}
    <3>1. IsRenewed(batch'[q], b, l)
      BY Zenon, <2>6, RenewedFields
    <3> QED BY Zenon, <3>1 DEF IsRenewed
  <2>8. \A k \in Lists \ {l} : listCmds'[k] = listCmds[k]
    BY <2>1 DEF Base, TypeOK
  <2>9. \A p \in Queues \ {q} :
          /\ batch'[p] = batch[p]
          /\ listCmds'[batch'[p].active] = listCmds[batch[p].active]
    BY <2>6, <2>8, OtherActive
  <2>13. ListsApart'
    <3>2. \A p \in Queues \ {q} :
            (batch[p].run \cup {batch[p].active})
              \cap (b.run \cup {b.active} \cup {l}) = {}
      <4>1. \A p \in Queues \ {q} : l \notin batch[p].run \cup {batch[p].active}
        BY DEF FreeLists
      <4> QED BY <4>1 DEF Core, ListsApart
    <3>3. batch'[q].active \notin batch'[q].run
      BY <2>4, <2>7
    <3>4. ASSUME NEW p \in Queues, NEW r \in Queues \ {p}
          PROVE  (batch'[p].run \cup {batch'[p].active})
                   \cap (batch'[r].run \cup {batch'[r].active}) = {}
      <4>1. CASE p = q
        BY Zenon, <2>6, <2>7, <3>2, <4>1
      <4>2. CASE r = q
        BY Zenon, <2>6, <2>7, <3>2, <4>2
      <4>3. CASE p # q /\ r # q
        BY <2>6, <4>3 DEF Core, ListsApart
      <4> QED BY Zenon, <4>1, <4>2, <4>3
    <3>5. ASSUME NEW p \in Queues
          PROVE  batch'[p].active \notin batch'[p].run
      BY <2>6, <3>3 DEF Core, ListsApart
    <3> QED BY <3>4, <3>5 DEF ListsApart
  <2>14. GenerationTruth'
    <3> SUFFICES ASSUME NEW c \in Ids, cmd[c].gen # NoGen
                 PROVE  /\ cmd[c].gen <= batch'[cmd[c].q].gen
                        /\ cmd[c].gen < batch'[cmd[c].q].gen => c \in Submitted'
                        /\ cmd[c].gen = batch'[cmd[c].q].gen
                             => c \in InSeq(listCmds'[batch'[cmd[c].q].active])
      BY Zenon DEF GenerationTruth, Ids
    <3>   /\ cmd[c].q \in Queues
          /\ cmd[c].gen <= batch[cmd[c].q].gen
          /\ cmd[c].gen < batch[cmd[c].q].gen => c \in Submitted
          /\ cmd[c].gen = batch[cmd[c].q].gen
               => c \in InSeq(listCmds[batch[cmd[c].q].active])
      BY Zenon DEF Base, Known, Core, GenerationTruth
    <3>2. CASE cmd[c].q = q
      <4>1. cmd[c].gen \in Int
        BY Zenon, CommandOf DEF Base
      <4>2. batch'[cmd[c].q].gen = b.gen + 1 /\ cmd[c].gen <= b.gen
        BY Zenon, <2>7, <3>2
      <4>3. /\ cmd[c].gen <= b.gen + 1 /\ cmd[c].gen # b.gen + 1
            /\ cmd[c].gen < b.gen \/ cmd[c].gen = b.gen
        BY Zenon, <2>5, <4>1, <4>2, NextGen
      <4>4. c \in Submitted'
        BY Zenon, <2>3, <3>2, <4>3
      <4> QED BY Zenon, <4>2, <4>3, <4>4
    <3>3. CASE cmd[c].q # q
      BY Zenon, <2>3, <2>9, <3>3
    <3> QED BY Zenon, <3>2, <3>3
  <2>15. SubmittedAtSync'
    <3> SUFFICES ASSUME NEW u \in Threads, NEW p \in Queues,
                        lock'[p] = u, pc'[u] = "sync", ~ActiveEmpty(batch'[p])
                 PROVE  InSeq(listCmds'[batch'[p].active]) \subseteq Submitted'
      BY DEF SubmittedAtSync
    <3>1. CASE p = q
      BY <2>7, <3>1 DEF ActiveEmpty
    <3>2. CASE p # q
      BY <2>3, <2>9, <3>2 DEF SyncOnly, Core, SubmittedAtSync
    <3> QED BY <3>1, <3>2
  <2> QED BY <2>13, <2>14, <2>15 DEF Core
<1> QED BY <1>1, <1>2

\* A step of t that holds the lock of q, or takes it, starts no other wait.
LEMMA SyncOnlyHeld ==
  ASSUME Base, Base', NEW t \in Threads, NEW q \in Queues,
         \E l \in Labels : pc' = [pc EXCEPT ![t] = l],
         lock'[q] = t, \A p \in Queues \ {q} : lock'[p] = lock[p]
  PROVE  SyncOnly(t, q)
<1> SUFFICES ASSUME NEW u \in Threads, NEW p \in Queues,
                    lock'[p] = u, pc'[u] = "sync"
             PROVE  \/ lock[p] = u /\ pc[u] = "sync" /\ p # q
                    \/ u = t /\ p = q
  BY DEF SyncOnly
<1>1. Queues \subseteq AllQueues
  BY Zenon DEF AllQueues
<1>2. CASE u = t
  BY <1>1, <1>2 DEF Base, LockDiscipline
<1>3. CASE u # t
  <2>1. pc'[u] = pc[u]
    BY <1>3 DEF Base, TypeOK
  <2> QED BY <1>3, <2>1
<1> QED BY <1>2, <1>3

\* Entering a call keeps Core.
LEMMA EntryCore ==
  ASSUME Base, Base', Core, NEW t \in Threads, NEW q \in Queues, Entry(t, q)
  PROVE  Core'
<1>1. PICK k : Enter(t, q, k)
  BY EntryMoved
<1>2. /\ UNCHANGED <<cmd, done>>
      /\ lock' = [lock EXCEPT ![q] = t] /\ q \in AllQueues
  BY <1>1 DEF Enter, AllQueues
<1>3. lock'[q] = t /\ \A p \in Queues \ {q} : lock'[p] = lock[p]
  BY <1>2 DEF Base, TypeOK, AllQueues
<1>4. PICK next \in {"append", "return", "capture"} : Moved(t, q, next)
  BY EntryMoved
<1>5. \E l \in Labels : pc' = [pc EXCEPT ![t] = l]
  BY <1>4 DEF Moved, Labels
<1>6. SyncOnly(t, q)
  BY Zenon, <1>3, <1>5, SyncOnlyHeld
<1>7. \/ \E n \in {"append", "return", "capture"} :
           FinishUnlocked(t, q, n) \/ RenewBatch(t, q, n) \/ 
           (Goto(t, n) /\ UNCHANGED <<batch, listCmds, imm, after>>)
  BY DEF Entry, MarkIssued, EnqueueHostTask, EnqueueCommandBuffer, QueueFlush,
         QueueFinish, BeginGraphCapture
<1>8. ASSUME NEW n \in {"append", "return", "capture"}, Goto(t, n),
             UNCHANGED <<batch, listCmds, imm, after>>
      PROVE  Core'
  <2>1. Submitted' = Submitted
    BY <1>2, <1>8 DEF Submitted
  <2>2. pc'[t] # "sync"
    BY ZenonT(40), <1>8 DEF Goto, Base, TypeOK
  <2>3. \A u \in Threads, p \in Queues :
          lock'[p] = u /\ pc'[u] = "sync" => lock[p] = u /\ pc[u] = "sync"
    BY Zenon, <1>6, <2>2 DEF SyncOnly
  <2> QED BY Zenon, <1>2, <1>8, <2>1, <2>3, CoreKeep DEF Ids
<1> QED BY <1>2, <1>6, <1>7, <1>8, FinishUnlockedCore, RenewBatchCore

\* Renewing or finishing after the append keeps Core.
LEMMA AfterAppendCore ==
  ASSUME Base, Base', Core, NEW t \in Threads, NEW q \in Queues, AfterAppend(t, q)
  PROVE  Core'
<1>   /\ UNCHANGED <<cmd, done, lock>> /\ lock'[q] = t
  BY DEF AfterAppend
<1>2. \E l \in Labels : pc' = [pc EXCEPT ![t] = l]
  BY AfterAppendBase DEF Moved, Labels
<1>3. SyncOnly(t, q)
  BY Zenon, <1>2, SyncOnlyHeld
<1>4. FinishUnlocked(t, q, "return") \/ RenewBatch(t, q, "return")
  BY DEF AfterAppend
<1> QED BY <1>3, <1>4, FinishUnlockedCore, RenewBatchCore

\* The flush of a wait list's event keeps Core.
LEMMA OnEventWaitListUseCore ==
  ASSUME Base, Base', Core, NEW t \in Threads, NEW e \in call[t].todo,
         OnEventWaitListUse(t, e)
  PROVE  Core'
<1> DEFINE q == cmd[e].q
<1>1. q \in Queues /\ q \in AllQueues
  BY OnEventWaitListUseBase DEF AllQueues
<1>2. UNCHANGED <<cmd, done>>
  BY DEF OnEventWaitListUse
<1>3. CASE UNCHANGED <<lock, batch, listCmds, imm, pc, after>>
  <2>1. Submitted' = Submitted
    BY <1>2, <1>3 DEF Submitted
  <2> QED BY <1>2, <1>3, <2>1, CoreKeep DEF Ids
<1>4. CASE lock' = [lock EXCEPT ![q] = t] /\ RenewBatch(t, q, "release")
  <2>1. lock'[q] = t /\ \A p \in Queues \ {q} : lock'[p] = lock[p]
    BY Zenon, <1>1, <1>4 DEF Base, TypeOK, AllQueues
  <2>2. Moved(t, q, "release")
    BY Zenon, <1>1, <1>4, RenewBatchType DEF Base, Labels
  <2>3. \E l \in Labels : pc' = [pc EXCEPT ![t] = l]
    BY <2>2 DEF Moved, Labels
  <2>4. SyncOnly(t, q)
    BY Zenon, <1>1, <2>1, <2>3, SyncOnlyHeld
  <2> QED BY <1>1, <1>2, <1>4, <2>4, RenewBatchCore
<1> QED BY <1>3, <1>4 DEF OnEventWaitListUse

\* An append keeps Core: a command of the current generation is in the active
\* list.
LEMMA AppendCommandCore ==
  ASSUME Base, Core, NEW t \in Threads, NEW q \in Queues, AppendCommand(t, q)
  PROVE  Core'
<1> DEFINE k == call[t].kind
           b == batch[q]
           id == Len(cmd) + 1
           new == [q |-> q, kind |-> k, waits |-> call[t].waits,
                   gen |-> IF k \in Direct THEN NoGen ELSE b.gen,
                   list |-> IF k \in Direct THEN None ELSE b.active]
           l == IF k \in {"blockingop", "barrier"} THEN "post" ELSE "return"
<1>1. /\ lock[q] = t /\ pc' = [pc EXCEPT ![t] = l] /\ l # "sync"
      /\ UNCHANGED <<lock, done>>
  BY DEF AppendCommand, Goto
<1>2. \A u \in Threads, p \in Queues :
        lock'[p] = u /\ pc'[u] = "sync" => lock[p] = u /\ pc[u] = "sync" /\ p # q
  BY <1>1 DEF Base, TypeOK
<1>3. CASE b.capture
  <2>   UNCHANGED <<cmd, imm, listCmds, batch>>
    BY <1>3 DEF AppendCommand
  <2>2. Submitted' = Submitted
    BY <1>1 DEF Submitted
  <2> QED BY <1>2, <2>2, CoreKeep DEF Ids
<1>4. CASE ~b.capture
  <2>1. cmd' = Append(cmd, new)
    BY <1>4 DEF AppendCommand
  <2>2. /\ call[t] \in ApiCall /\ b \in BatchManager
        /\ b.active \in Lists /\ b.gen \in Nat /\ q \in AllQueues
    BY DEF Base, TypeOK, BatchManager, AllQueues
  <2>3. new \in Command
    BY <2>2 DEF Command, ApiCall, NoGen
  <2>4. /\ id \in Nat \ {0} /\ id \notin Ids
        /\ Ids' = Ids \cup {id}
        /\ \A c \in Ids : cmd'[c] = cmd[c]
        /\ cmd'[id] = new
    <3> HIDE DEF new
    <3> QED BY Zenon, <2>1, <2>3, NewCommand DEF Base
  <2>5. CASE k \in Direct
    <3>1. /\ imm' = [imm EXCEPT ![q] = Append(imm[q], id)]
          /\ UNCHANGED <<batch, listCmds>>
      BY <1>4, <2>5 DEF AppendCommand
    <3>2. imm[q] \in Seq(Nat) /\ id \in Nat
      BY Zenon, <2>2, <2>4 DEF Base, TypeOK
    <3>3. InSeq(Append(imm[q], id)) = InSeq(imm[q]) \cup {id}
      <4> HIDE DEF id
      <4> QED BY <3>2, AppendId
    <3>4. \A p \in AllQueues : InSeq(imm[p]) \subseteq InSeq(imm'[p])
      BY <3>1, <3>3 DEF Base, TypeOK
    <3>5. Submitted \subseteq Submitted'
      BY <1>1, <3>4 DEF Submitted
    <3>6. new.gen = NoGen
      BY <2>5
    <3> HIDE DEF new, id
    <3> QED BY <1>2, <2>4, <3>1, <3>5, <3>6, CoreKeep
  <2>6. CASE k \notin Direct
    <3>1. /\ listCmds' = [listCmds EXCEPT ![b.active] = Append(listCmds[b.active], id)]
          /\ batch' \in {batch, [batch EXCEPT ![q].ops = @ + 1]}
          /\ UNCHANGED imm
      BY <1>4, <2>6 DEF AppendCommand
    <3>2. Submitted' = Submitted
      BY <1>1, <3>1 DEF Submitted
    <3>3. /\ \A p \in Queues \ {q} : batch'[p] = batch[p]
          /\ batch'[q].gen = b.gen /\ batch'[q].active = b.active
          /\ batch'[q].run = b.run
      BY Zenon, <2>2, <3>1 DEF Base, TypeOK, BatchManager
    <3>4. InSeq(listCmds'[b.active]) = InSeq(listCmds[b.active]) \cup {id}
      <4>1. listCmds[b.active] \in Seq(Nat) /\ id \in Nat
        BY Zenon, <2>2, <2>4 DEF Base, TypeOK
      <4>2. listCmds'[b.active] = Append(listCmds[b.active], id)
        BY Zenon, <2>2, <3>1 DEF Base, TypeOK
      <4> HIDE DEF id
      <4> QED BY Zenon, <4>1, <4>2, AppendId
    <3>5. \A p \in Queues \ {q} :
            listCmds'[batch'[p].active] = listCmds[batch[p].active]
      <4>1. \A m \in Lists \ {b.active} : listCmds'[m] = listCmds[m]
        BY Zenon, <3>1 DEF Base, TypeOK
      <4> QED BY <3>3, <4>1, OtherActive
    <3>6. ListsApart'
      <4>1. \A p \in Queues : /\ batch'[p].active = batch[p].active
                              /\ batch'[p].run = batch[p].run
        BY <3>3
      <4> QED BY <4>1 DEF Core, ListsApart
    <3>7. SubmittedAtSync'
      <4> SUFFICES ASSUME NEW u \in Threads, NEW p \in Queues,
                          lock'[p] = u, pc'[u] = "sync", ~ActiveEmpty(batch'[p])
                   PROVE  InSeq(listCmds'[batch'[p].active]) \subseteq Submitted'
        BY DEF SubmittedAtSync
      <4>1. lock[p] = u /\ pc[u] = "sync" /\ p # q
        BY <1>2
      <4> QED BY <3>2, <3>3, <3>5, <4>1 DEF Core, SubmittedAtSync
    <3>8. GenerationTruth'
      <4> SUFFICES ASSUME NEW c \in Ids', cmd'[c].gen # NoGen
                   PROVE  /\ cmd'[c].gen <= batch'[cmd'[c].q].gen
                          /\ cmd'[c].gen < batch'[cmd'[c].q].gen => c \in Submitted'
                          /\ cmd'[c].gen = batch'[cmd'[c].q].gen
                               => c \in InSeq(listCmds'[batch'[cmd'[c].q].active])
        BY DEF GenerationTruth
      <4>1. CASE c = id
        <5>1. cmd'[c].q = q /\ cmd'[c].gen = b.gen
          <6>1. cmd'[c] = new
            BY ZenonT(40), <2>4, <4>1
          <6>2. new.q = q /\ new.gen = b.gen
            BY Zenon, <2>6
          <6> HIDE DEF new
          <6> QED BY Zenon, <6>1, <6>2
        <5>2. c \in InSeq(listCmds'[b.active])
          BY <3>4, <4>1
        <5>3. batch'[q].gen = b.gen /\ batch'[q].active = b.active
          BY Zenon, <2>2, <3>3
        <5>4. b.gen <= b.gen /\ ~(b.gen < b.gen)
          BY SMT, Z3, <2>2
        <5> QED BY Zenon, <5>1, <5>2, <5>3, <5>4
      <4>2. CASE c \in Ids
        <5>   /\ cmd'[c] = cmd[c] /\ cmd[c].q \in Queues
              /\ cmd[c].gen <= batch[cmd[c].q].gen
              /\ cmd[c].gen < batch[cmd[c].q].gen => c \in Submitted
              /\ cmd[c].gen = batch[cmd[c].q].gen
                   => c \in InSeq(listCmds[batch[cmd[c].q].active])
          BY ZenonT(40), <2>4, <4>2 DEF Base, Known, Core, GenerationTruth
        <5>2. CASE cmd[c].q = q
          BY ZenonT(40), <3>2, <3>3, <3>4, <5>2
        <5>3. CASE cmd[c].q # q
          BY <3>2, <3>3, <3>5, <5>3
        <5> QED BY ZenonT(40), <5>2, <5>3
      <4> QED BY Zenon, <2>4, <4>1, <4>2
    <3> QED BY <3>6, <3>7, <3>8 DEF Core
  <2> QED BY <2>5, <2>6
<1> QED BY <1>3, <1>4

\* What batchFinish leaves of a batch.
LEMMA FinishedFields ==
  ASSUME NEW b
  PROVE  /\ Finished(b).gen = IF ActiveEmpty(b) THEN b.gen ELSE b.gen + 1
         /\ Finished(b).ops = 0 /\ Finished(b).run = {} /\ Finished(b).active = b.active
BY DEF Finished

\* The end of a wait keeps Core: what the reset list held has been submitted, so
\* the next generation may start.
LEMMA SynchronizeCore ==
  ASSUME Base, Core, NEW t \in Threads, NEW q \in Queues, Synchronize(t, q)
  PROVE  Core'
<1> DEFINE b == batch[q]
<1>1. /\ pc[t] = "sync" /\ lock[q] = t
      /\ pc' = [pc EXCEPT ![t] = after[t]]
      /\ listCmds' = IF ActiveEmpty(b) THEN listCmds
                     ELSE [listCmds EXCEPT ![b.active] = <<>>]
      /\ batch' = [batch EXCEPT ![q] = Finished(b)]
      /\ UNCHANGED <<lock, imm, cmd, done>>
  BY Zenon DEF Synchronize, Goto
<1>2. /\ b \in BatchManager /\ b.active \in Lists /\ b.gen \in Nat /\ b.ops \in Nat
  BY DEF Base, TypeOK, BatchManager
<1>3. Submitted' = Submitted
  BY <1>1 DEF Submitted
<1>4. /\ batch'[q] = Finished(b)
      /\ \A p \in Queues \ {q} : batch'[p] = batch[p]
  BY <1>1 DEF Base, TypeOK
<1>5. /\ batch'[q].gen = IF ActiveEmpty(b) THEN b.gen ELSE b.gen + 1
      /\ batch'[q].ops = 0 /\ batch'[q].run = {} /\ batch'[q].active = b.active
  BY ZenonT(40), <1>4, FinishedFields
<1>6. \A p \in Queues \ {q} :
        listCmds'[batch'[p].active] = listCmds[batch[p].active]
  <2>1. \A m \in Lists \ {b.active} : listCmds'[m] = listCmds[m]
    BY <1>1 DEF Base, TypeOK
  <2> QED BY <1>4, <2>1, OtherActive
<1>7. ~ActiveEmpty(b) => InSeq(listCmds[b.active]) \subseteq Submitted
  BY Zenon, <1>1 DEF Core, SubmittedAtSync
<1>8. ListsApart'
  <2>1. \A p \in Queues : /\ batch'[p].active = batch[p].active
                          /\ batch'[p].run \subseteq batch[p].run
    BY Zenon, <1>4, <1>5
  <2> QED BY <2>1 DEF Core, ListsApart
<1>9. SubmittedAtSync'
  <2> SUFFICES ASSUME NEW u \in Threads, NEW p \in Queues,
                      lock'[p] = u, pc'[u] = "sync", ~ActiveEmpty(batch'[p])
               PROVE  InSeq(listCmds'[batch'[p].active]) \subseteq Submitted'
    BY DEF SubmittedAtSync
  <2>   p # q
    BY Zenon, <1>5 DEF ActiveEmpty
  <2>2. u # t
    BY <1>1 DEF Base, LockDiscipline, AllQueues
  <2>3. pc[u] = "sync" /\ lock[p] = u
    BY <1>1, <2>2 DEF Base, TypeOK
  <2> QED BY <1>3, <1>4, <1>6, <2>3 DEF Core, SubmittedAtSync
<1>10. GenerationTruth'
  <2> SUFFICES ASSUME NEW c \in Ids, cmd[c].gen # NoGen
               PROVE  /\ cmd[c].gen <= batch'[cmd[c].q].gen
                      /\ cmd[c].gen < batch'[cmd[c].q].gen => c \in Submitted'
                      /\ cmd[c].gen = batch'[cmd[c].q].gen
                           => c \in InSeq(listCmds'[batch'[cmd[c].q].active])
    BY ZenonT(40), <1>1 DEF GenerationTruth, Ids
  <2>   /\ cmd[c].q \in Queues
        /\ cmd[c].gen <= batch[cmd[c].q].gen
        /\ cmd[c].gen < batch[cmd[c].q].gen => c \in Submitted
        /\ cmd[c].gen = batch[cmd[c].q].gen
             => c \in InSeq(listCmds[batch[cmd[c].q].active])
    BY Zenon DEF Base, Known, Core, GenerationTruth
  <2>2. cmd[c].gen \in Int
    BY CommandOf DEF Base
  <2>3. CASE cmd[c].q = q /\ ActiveEmpty(b)
    BY ZenonT(40), <1>1, <1>3, <1>5, <2>3
  <2>4. CASE cmd[c].q = q /\ ~ActiveEmpty(b)
    <3>1. batch'[cmd[c].q].gen = b.gen + 1 /\ cmd[c].gen <= b.gen
      BY Zenon, <1>5, <2>4
    <3>2. /\ cmd[c].gen <= b.gen + 1 /\ cmd[c].gen # b.gen + 1
          /\ cmd[c].gen < b.gen \/ cmd[c].gen = b.gen
      BY Zenon, <1>2, <2>2, <3>1, NextGen
    <3>3. c \in Submitted'
      BY Zenon, <1>3, <1>7, <2>4, <3>2
    <3> QED BY Zenon, <3>1, <3>2, <3>3
  <2>5. CASE cmd[c].q # q
    BY Zenon, <1>3, <1>4, <1>6, <2>5
  <2> QED BY Zenon, <2>3, <2>4, <2>5
<1> QED BY <1>8, <1>9, <1>10 DEF Core

\* Beginning and ending a capture keep Core.
LEMMA CaptureCore ==
  ASSUME Base, Core, NEW t \in Threads, NEW q \in Queues,
         SetGraphCapture(t, q) \/ EndGraphCapture(t, q)
  PROVE  Core'
<1>   /\ \E v \in BOOLEAN : batch' = [batch EXCEPT ![q].capture = v]
      /\ pc' = [pc EXCEPT ![t] = "return"]
      /\ lock' = lock \/ lock' = [lock EXCEPT ![q] = t]
      /\ UNCHANGED <<listCmds, imm, cmd, done>>
  BY Zenon DEF SetGraphCapture, EndGraphCapture, Enter, Goto
<1>2. Submitted' = Submitted
  BY DEF Submitted
<1>3. \A p \in Queues : /\ batch'[p].active = batch[p].active
                        /\ batch'[p].run = batch[p].run
                        /\ batch'[p].gen = batch[p].gen
                        /\ batch'[p].ops = batch[p].ops
  BY DEF Base, TypeOK, BatchManager
<1>4. \A u \in Threads, p \in Queues :
        lock'[p] = u /\ pc'[u] = "sync" => lock[p] = u /\ pc[u] = "sync"
  <2>1. \A u \in Threads : pc'[u] = "sync" => u # t /\ pc[u] = "sync"
    BY DEF Base, TypeOK
  <2>2. \A p \in Queues : lock'[p] # t => lock'[p] = lock[p]
    BY DEF Base, TypeOK, AllQueues
  <2> QED BY <2>1, <2>2
<1>5. ListsApart'
  BY <1>3 DEF Core, ListsApart
<1>6. SubmittedAtSync'
  BY <1>2, <1>3, <1>4 DEF Core, SubmittedAtSync, ActiveEmpty
<1>7. GenerationTruth'
  <2>1. \A c \in Ids : cmd[c].gen # NoGen => cmd[c].q \in Queues
    BY DEF Base, Known
  <2> QED BY <1>2, <1>3, <2>1 DEF Core, GenerationTruth, Ids
<1> QED BY <1>5, <1>6, <1>7 DEF Core

\* The steps that touch no batch keep Core.
LEMMA OtherCore ==
  ASSUME Base, Core, NEW t \in Threads, NEW q \in AllQueues,
         \/ \E k \in Kinds, W \in SUBSET events : Call(t, k, q, W)
         \/ EventHostSynchronize(t)
         \/ Release(t, q)
         \/ Return(t, q)
  PROVE  Core'
<1>   /\ UNCHANGED <<batch, listCmds, imm, cmd, done>>
      /\ \E l \in {"waitlist", "idle"} : pc' = [pc EXCEPT ![t] = l]
      /\ lock' = lock \/ lock' = [lock EXCEPT ![q] = None]
  BY DEF Call, EventHostSynchronize, Release, Return, Goto
<1>2. Submitted' = Submitted
  BY DEF Submitted
<1>3. \A u \in Threads : pc'[u] = "sync" => pc[u] = "sync"
  BY DEF Base, TypeOK
<1>4. \A p \in Queues, u \in Threads : lock'[p] = u => lock[p] = u
  BY NoneAssumption DEF Base, TypeOK, AllQueues
<1> QED BY Zenon, <1>2, <1>3, <1>4, CoreKeep DEF Ids

\* The steps of an immediate queue keep Core.
LEMMA ImmCore ==
  ASSUME Base, Base', Core, NEW t \in Threads, NEW q \in ImmQueues,
         \/ ImmEnqueue(t, q) \/ ImmAppend(t, q) \/ ImmFinish(t, q)
         \/ ImmSynchronize(t, q)
  PROVE  Core'
<1>   /\ UNCHANGED <<batch, listCmds, done>>
      /\ \E l : pc' = [pc EXCEPT ![t] = l]
      /\ \/ lock[q] = t /\ lock' = lock
         \/ lock' = [lock EXCEPT ![q] = t]
      /\ q \in AllQueues /\ Queues \subseteq AllQueues
  BY DEF ImmEnqueue, ImmAppend, ImmFinish, ImmSynchronize, Enter, Goto, AllQueues
<1>2. lock'[q] = t /\ \A p \in Queues : lock'[p] = lock[p]
  BY ZenonT(40), QueuesAssumption DEF Base, TypeOK
<1>3. \A p \in Queues : lock'[p] # t
  BY <1>2, QueuesAssumption DEF Base, LockDiscipline
<1>4. \A u \in Threads, p \in Queues :
        lock'[p] = u /\ pc'[u] = "sync" => lock[p] = u /\ pc[u] = "sync"
  BY Zenon, <1>2, <1>3 DEF Base, TypeOK
<1>5. CASE UNCHANGED <<imm, cmd>>
  <2>1. Submitted' = Submitted
    BY <1>5 DEF Submitted
  <2> QED BY <1>4, <1>5, <2>1, CoreKeep DEF Ids
<1>6. CASE ImmAppend(t, q)
  <2> DEFINE id == Len(cmd) + 1
             new == [q |-> q, kind |-> call[t].kind, waits |-> call[t].waits,
                     gen |-> NoGen, list |-> None]
  <2>1. /\ cmd' = Append(cmd, new)
        /\ imm' = [imm EXCEPT ![q] = Append(imm[q], id)]
    BY <1>6 DEF ImmAppend
  <2>2. new \in Command /\ new.gen = NoGen
    <3>1. call[t] \in ApiCall
      BY DEF Base, TypeOK
    <3>2. call[t].kind \in AllKinds /\ call[t].waits \in SUBSET Nat
      BY Zenon, <3>1 DEF ApiCall
    <3>3. NoGen \in Int
      BY DEF NoGen
    <3> QED BY Zenon, <3>2, <3>3 DEF Command
  <2>3. /\ id \in Nat
        /\ Ids' = Ids \cup {id}
        /\ \A c \in Ids : cmd'[c] = cmd[c]
        /\ cmd'[id] = new
    <3> HIDE DEF new
    <3> QED BY ZenonT(40), <2>1, <2>2, NewCommand DEF Base
  <2>4. InSeq(Append(imm[q], id)) = InSeq(imm[q]) \cup {id}
    <3>1. imm[q] \in Seq(Nat)
      BY Zenon DEF Base, TypeOK
    <3> HIDE DEF id
    <3> QED BY Zenon, <2>3, <3>1, AppendId
  <2>5. \A p \in AllQueues : InSeq(imm[p]) \subseteq InSeq(imm'[p])
    BY <2>1, <2>4 DEF Base, TypeOK
  <2>6. Submitted \subseteq Submitted'
    BY ZenonT(40), <2>5 DEF Submitted
  <2> HIDE DEF new, id
  <2> QED BY Zenon, <1>4, <2>2, <2>3, <2>6, CoreKeep
<1> QED BY Zenon, <1>5, <1>6 DEF ImmEnqueue, ImmFinish, ImmSynchronize, Enter

\* A step of the device keeps Core.
LEMMA ExecuteCore ==
  ASSUME Base, Core, NEW q \in AllQueues, Execute(q)
  PROVE  Core'
<1>   /\ done' = done \cup {Head(imm[q])}
      /\ UNCHANGED <<lock, batch, listCmds, cmd, pc>>
  BY DEF Execute
<1>2. /\ InSeq(imm[q]) = {Head(imm[q])} \cup InSeq(imm'[q])
      /\ \A p \in AllQueues \ {q} : imm'[p] = imm[p]
  BY Zenon, ExecuteBase
<1>3. Submitted \subseteq Submitted'
  BY <1>2 DEF Submitted
<1> QED BY Zenon, <1>3, CoreKeep DEF Ids

-----------------------------------------------------------------------------
\* The theorems

\* The constructor establishes the inductive invariant.

LEMMA InitIInv == Init => IInv
<1> SUFFICES ASSUME Init PROVE IInv
  OBVIOUS
<1>1. PICK a \in [Queues -> Lists] :
        /\ \A p, q \in Queues : a[p] = a[q] => p = q
        /\ batch = [q \in Queues |-> [gen |-> 0, ops |-> 0, active |-> a[q],
                                      run |-> {}, capture |-> FALSE]]
  BY Zenon DEF Init
<1>2. /\ lock = [q \in AllQueues |-> None]
      /\ listCmds = [l \in Lists |-> <<>>]
      /\ imm = [q \in AllQueues |-> <<>>]
      /\ cmd = <<>> /\ done = {} /\ events = {}
      /\ kernels = [q \in AllQueues |-> {}]
      /\ pc = [t \in Threads |-> "idle"]
      /\ call = [t \in Threads |-> NoCall]
      /\ after = [t \in Threads |-> "idle"]
      /\ calls = 0
  BY DEF Init
<1>3. <<>> \in Seq(Nat) /\ <<>> \in Seq(Command) /\ Len(<<>>) = 0
  OBVIOUS
<1>4. Ids = {}
  BY <1>2, <1>3 DEF Ids
<1>5. NoCall \in ApiCall /\ NoCall.id = 0 /\ NoCall.todo = {}
  BY Zenon DEF NoCall, ApiCall, AllKinds
<1>6. batch \in [Queues -> BatchManager]
  BY Zenon, <1>1 DEF BatchManager
<1>7. TypeOK
  BY <1>2, <1>3, <1>4, <1>5, <1>6, BoundsAssumption DEF TypeOK, Labels
<1>8. Known
  BY <1>2, <1>4, <1>5, InSeqEmpty DEF Known
<1>9. LockDiscipline
  BY Zenon, <1>2, NoneAssumption DEF LockDiscipline
<1>10. SubmittedAtSync
  BY <1>2, NoneAssumption DEF SubmittedAtSync, AllQueues
<1>11. ListsApart
  BY Zenon, <1>1 DEF ListsApart
<1>14. GenerationTruth
  BY Zenon, <1>4 DEF GenerationTruth
<1> QED BY <1>7, <1>8, <1>9, <1>10, <1>11, <1>14 DEF IInv

\* Every step of a call, and of the device, keeps the inductive invariant.
LEMMA NextIInv == IInv /\ [Next]_vars => IInv'
<1> SUFFICES ASSUME IInv, [Next]_vars PROVE IInv'
  OBVIOUS
<1>   Base /\ Core
  BY DEF IInv, Base, Core
<1> SUFFICES Base' /\ Core'
  BY DEF IInv, Base, Core
<1>1. ASSUME NEW t \in Threads, NEW k \in Kinds, NEW q \in AllQueues,
             NEW W \in SUBSET events, Call(t, k, q, W)
      PROVE  Base' /\ Core'
  BY <1>1, CallBase, OtherCore
<1>2. ASSUME NEW t \in Threads, NEW e \in call[t].todo, OnEventWaitListUse(t, e)
      PROVE  Base' /\ Core'
  BY <1>2, OnEventWaitListUseBase, OnEventWaitListUseCore
<1>3. ASSUME NEW t \in Threads, NEW q \in Queues, Entry(t, q)
      PROVE  Base' /\ Core'
  BY <1>3, EntryBase, EntryCore
<1>4. ASSUME NEW t \in Threads, NEW q \in Queues, AppendCommand(t, q)
      PROVE  Base' /\ Core'
  BY <1>4, AppendCommandBase, AppendCommandCore
<1>5. ASSUME NEW t \in Threads, NEW q \in Queues, AfterAppend(t, q)
      PROVE  Base' /\ Core'
  BY <1>5, AfterAppendBase, AfterAppendCore
<1>6. ASSUME NEW t \in Threads, NEW q \in Queues, Synchronize(t, q)
      PROVE  Base' /\ Core'
  BY <1>6, SynchronizeBase, SynchronizeCore
<1>7. ASSUME NEW t \in Threads, NEW q \in Queues,
             SetGraphCapture(t, q) \/ EndGraphCapture(t, q)
      PROVE  Base' /\ Core'
  BY <1>7, SetGraphCaptureBase, EndGraphCaptureBase, CaptureCore
<1>8. ASSUME NEW t \in Threads, NEW q \in Queues, Release(t, q)
      PROVE  Base' /\ Core'
  BY <1>8, ReleaseBase, OtherCore DEF AllQueues
<1>9. ASSUME NEW t \in Threads, NEW q \in AllQueues, Return(t, q)
      PROVE  Base' /\ Core'
  BY ZenonT(40), <1>9, ReturnBase, OtherCore
<1>10. ASSUME NEW t \in Threads, EventHostSynchronize(t)
       PROVE  Base' /\ Core'
  <2>1. Base'
    BY <1>10, EventHostSynchronizeBase
  <2>   /\ UNCHANGED <<lock, batch, listCmds, imm, cmd, done>>
        /\ pc' = [pc EXCEPT ![t] = "idle"]
    BY Zenon, <1>10 DEF EventHostSynchronize, Goto
  <2>3. Submitted' = Submitted
    BY DEF Submitted
  <2>4. \A u \in Threads : pc'[u] = "sync" => pc[u] = "sync"
    BY DEF Base, TypeOK
  <2> QED BY Zenon, <2>1, <2>3, <2>4, CoreKeep DEF Ids
<1>11. ASSUME NEW t \in Threads, NEW q \in ImmQueues,
              \/ ImmEnqueue(t, q) \/ ImmAppend(t, q) \/ ImmFinish(t, q)
              \/ ImmSynchronize(t, q)
       PROVE  Base' /\ Core'
  BY <1>11, ImmEnterBase, ImmAppendBase, ImmSynchronizeBase, ImmCore
<1>12. ASSUME NEW q \in AllQueues, Execute(q)
       PROVE  Base' /\ Core'
  BY Zenon, <1>12, ExecuteBase, ExecuteCore
<1>13. CASE UNCHANGED vars
  <2>1. Base'
    BY Zenon, <1>13 DEF vars, Base, TypeOK, Known, LockDiscipline, Ids
  <2>2. Submitted' = Submitted
    BY <1>13 DEF vars, Submitted
  <2> QED BY <1>13, <2>1, <2>2, CoreKeep DEF vars, Ids
<1>14. ASSUME NEW t \in Threads, Step(t) PROVE Base' /\ Core'
  BY Zenon, <1>2, <1>3, <1>4, <1>5, <1>6, <1>7, <1>8, <1>9, <1>10, <1>11, <1>14
     DEF Step, Entry
<1> QED BY <1>1, <1>12, <1>13, <1>14 DEF Next, Quiescent

\* The invariant holds in every reachable state.
LEMMA SpecIInv == Spec => []IInv
<1> QED BY InitIInv, NextIInv, PTL DEF Spec

\* The state of the batched and immediate queues keeps its type, for any number
\* of threads, queues, lists and calls.
THEOREM TypeCorrect == Spec => []TypeOK
<1>1. IInv => TypeOK
  BY DEF IInv
<1> QED BY <1>1, SpecIInv, PTL

\* The generation number that an event carries tells whether its command has
\* been submitted: what onEventWaitListUse and the comment of
\* regularGenerationNumber rely on.
THEOREM GenerationsTellTheTruth == Spec => []GenerationTruth
<1>1. IInv => GenerationTruth
  BY DEF IInv
<1> QED BY <1>1, SpecIInv, PTL

-----------------------------------------------------------------------------
\* Ordered sequences

\* A larger set of exceptions keeps the order.

LEMMA InOrderLarger ==
  ASSUME NEW s, NEW H, NEW K, InOrder(s, H), H \subseteq K
  PROVE  InOrder(s, K)
BY DEF InOrder

\* The empty list is in order.
LEMMA InOrderEmpty == ASSUME NEW H PROVE InOrder(<<>>, H)
BY DEF InOrder

\* A list in order stays so when a newer command is appended.
LEMMA InOrderAppend ==
  ASSUME NEW s \in Seq(Nat), NEW x \in Nat, NEW H, InOrder(s, H),
         \A y \in InSeq(s) : y < x
  PROVE  InOrder(Append(s, x), H)
<1> DEFINE r == Append(s, x)
<1>   /\ Len(r) = Len(s) + 1 /\ Len(s) \in Nat
      /\ \A i \in 1 .. Len(s) : r[i] = s[i] /\ s[i] \in Nat
      /\ r[Len(s) + 1] = x
  OBVIOUS
<1>2. \A i \in 1 .. Len(s) : s[i] < x
  BY DEF InSeq
<1> HIDE DEF r
<1> SUFFICES ASSUME NEW i \in 1 .. Len(r), NEW j \in 1 .. Len(r), i < j
             PROVE  r[i] # r[j] /\ (r[i] < r[j] \/ r[j] \in H)
  BY Zenon DEF InOrder, r
<1>3. CASE j = Len(s) + 1
  BY <1>2, <1>3
<1>4. CASE j # Len(s) + 1
  <2>1. i \in 1 .. Len(s) /\ j \in 1 .. Len(s)
    BY <1>4
  <2> QED BY <2>1 DEF InOrder
<1> QED BY <1>3, <1>4

\* Two lists in order, the second newer than the first, are in order together.
LEMMA InOrderConcat ==
  ASSUME NEW s \in Seq(Nat), NEW u \in Seq(Nat), NEW H,
         InOrder(s, H), InOrder(u, H),
         \A x \in InSeq(s), y \in InSeq(u) : x # y /\ (x < y \/ y \in H)
  PROVE  InOrder(s \o u, H)
<1> DEFINE r == s \o u
<1>1. /\ Len(r) = Len(s) + Len(u) /\ Len(s) \in Nat /\ Len(u) \in Nat
      /\ \A i \in 1 .. Len(s) + Len(u) :
           r[i] = IF i <= Len(s) THEN s[i] ELSE u[i - Len(s)]
  OBVIOUS
<1>2. \A i \in 1 .. Len(s), k \in 1 .. Len(u) :
        s[i] # u[k] /\ (s[i] < u[k] \/ u[k] \in H)
  BY DEF InSeq
<1> HIDE DEF r
<1> SUFFICES ASSUME NEW i \in 1 .. Len(r), NEW j \in 1 .. Len(r), i < j
             PROVE  r[i] # r[j] /\ (r[i] < r[j] \/ r[j] \in H)
  BY Zenon DEF InOrder, r
<1>3. CASE j <= Len(s)
  <2>1. i \in 1 .. Len(s) /\ j \in 1 .. Len(s) /\ r[i] = s[i] /\ r[j] = s[j]
    BY <1>1, <1>3
  <2> QED BY <2>1 DEF InOrder
<1>4. CASE i > Len(s)
  <2> DEFINE a == i - Len(s)
             c == j - Len(s)
  <2>1. /\ a \in 1 .. Len(u) /\ c \in 1 .. Len(u) /\ a < c
        /\ r[i] = u[a] /\ r[j] = u[c]
    BY <1>1, <1>4
  <2> HIDE DEF a, c
  <2> QED BY <2>1 DEF InOrder
<1>5. CASE i <= Len(s) /\ j > Len(s)
  <2> DEFINE c == j - Len(s)
  <2>1. i \in 1 .. Len(s) /\ c \in 1 .. Len(u) /\ r[i] = s[i] /\ r[j] = u[c]
    BY <1>1, <1>5
  <2> HIDE DEF c
  <2> QED BY <1>2, <2>1
<1> QED BY <1>1, <1>3, <1>4, <1>5

\* The head of a list in order is older than the rest, which is in order.
LEMMA InOrderTail ==
  ASSUME NEW s \in Seq(Nat), s # <<>>, NEW H, InOrder(s, H)
  PROVE  /\ InOrder(Tail(s), H)
         /\ \A y \in InSeq(Tail(s)) : y # Head(s) /\ (Head(s) < y \/ y \in H)
<1> DEFINE r == Tail(s)
           h == Head(s)
<1>   /\ Len(r) = Len(s) - 1 /\ Len(s) \in Nat /\ Len(s) # 0
      /\ \A i \in 1 .. Len(r) : r[i] = s[i + 1]
      /\ h = s[1]
  OBVIOUS
<1> HIDE DEF r, h
<1>2. ASSUME NEW i \in 1 .. Len(r) PROVE r[i] # h /\ (h < r[i] \/ r[i] \in H)
  <2>1. i + 1 \in 1 .. Len(s) /\ 1 \in 1 .. Len(s) /\ 1 < i + 1
    OBVIOUS
  <2> QED BY Zenon, <2>1 DEF InOrder
<1>3. ASSUME NEW i \in 1 .. Len(r), NEW j \in 1 .. Len(r), i < j
      PROVE  r[i] # r[j] /\ (r[i] < r[j] \/ r[j] \in H)
  <2>1. i + 1 \in 1 .. Len(s) /\ j + 1 \in 1 .. Len(s) /\ i + 1 < j + 1
    BY <1>3
  <2> QED BY Zenon, <2>1 DEF InOrder
<1>4. InOrder(r, H)
  BY Zenon, <1>3 DEF InOrder
<1>5. \A y \in InSeq(r) : y # h /\ (h < y \/ y \in H)
  BY Zenon, <1>2 DEF InSeq
<1> QED BY <1>4, <1>5 DEF r, h

-----------------------------------------------------------------------------
\* Where the commands of a queue are

\* The part of the invariant about the lists.

Ledger == /\ Placed
          /\ ActiveUnsubmitted
          /\ Sequenced
          /\ RunsInOrder
          /\ PendingCommandsOwned

\* A call waits for the device with the lock of q.
InSync(q) == \E t \in Threads : lock[q] = t /\ pc[t] = "sync"

\* A submitted command has run or is in the immediate list of its own queue.
LEMMA SubmittedWhere ==
  ASSUME Placed
  PROVE  /\ \A c \in Submitted : c \in done \/ c \in InSeq(imm[cmd[c].q])
         /\ done \subseteq Submitted
         /\ \A q \in AllQueues : InSeq(imm[q]) \subseteq Submitted
<1>1. \A c : c \in Submitted <=> c \in done \/ \E p \in AllQueues : c \in InSeq(imm[p])
  BY ZenonT(40) DEF Submitted
<1> QED BY <1>1 DEF Placed

\* A command of a batched queue that is not submitted is in the active list.
LEMMA UnsubmittedWhere ==
  ASSUME Base, Core, Placed, NEW c \in Ids, c \notin Submitted
  PROVE  /\ cmd[c].gen # NoGen
         /\ cmd[c].q \in Queues
         /\ cmd[c].gen = batch[cmd[c].q].gen
         /\ c \in InSeq(listCmds[batch[cmd[c].q].active])
         /\ cmd[c].list = batch[cmd[c].q].active
<1>   cmd[c].gen # NoGen
  BY DEF Placed
<1>2. cmd[c].q \in Queues
  BY DEF Base, Known
<1>3. cmd[c].gen \in Int /\ batch[cmd[c].q].gen \in Nat
  BY ZenonT(40), <1>2, CommandOf DEF Base, TypeOK, BatchManager
<1>4. /\ cmd[c].gen <= batch[cmd[c].q].gen
      /\ ~(cmd[c].gen < batch[cmd[c].q].gen)
  BY Zenon DEF Core, GenerationTruth
<1>   cmd[c].gen = batch[cmd[c].q].gen
  BY <1>3, <1>4
<1>6. c \in InSeq(listCmds[batch[cmd[c].q].active])
  BY Zenon DEF Core, GenerationTruth
<1> QED BY <1>2, <1>6 DEF Placed

\* The identifiers are numbers, and those in the lists are known.
LEMMA IdsKnown ==
  ASSUME Base
  PROVE  /\ Ids \subseteq Nat
         /\ Submitted \subseteq Ids
         /\ \A q \in Queues :
              /\ q \in AllQueues
              /\ batch[q].active \in Lists
              /\ listCmds[batch[q].active] \in Seq(Nat)
              /\ InSeq(listCmds[batch[q].active]) \subseteq Ids
         /\ \A q \in AllQueues : imm[q] \in Seq(Nat) /\ InSeq(imm[q]) \subseteq Ids
<1>1. Ids \subseteq Nat
  BY DEF Ids
<1>2. Submitted \subseteq Ids
  BY DEF Submitted, Base, TypeOK, Known
<1>3. \A q \in Queues : q \in AllQueues /\ batch[q].active \in Lists
  BY DEF Base, TypeOK, BatchManager, AllQueues
<1> QED BY <1>1, <1>2, <1>3 DEF Base, TypeOK, Known

\* Steps that move no command and end no wait on a queue.
LEMMA LedgerKeep ==
  ASSUME Ledger, UNCHANGED <<imm, listCmds, cmd, done, kernels>>,
         \A q \in Queues : /\ batch'[q].active = batch[q].active
                           /\ batch'[q].run = batch[q].run
                           /\ batch'[q].gen = batch[q].gen
                           /\ batch'[q].ops = batch[q].ops,
         \A q \in Queues : InSync(q) => InSync(q)',
         \A c \in Ids : cmd[c].list # None => cmd[c].q \in Queues
  PROVE  Ledger'
<1>   Submitted' = Submitted /\ Ids' = Ids /\ HostTasks' = HostTasks
  BY Zenon DEF Submitted, Ids, HostTasks
<1>2. Placed'
  BY ZenonT(40) DEF Ledger, Placed
<1>3. ActiveUnsubmitted'
  BY Zenon DEF Ledger, ActiveUnsubmitted, ActiveEmpty, InSync
<1>4. Sequenced'
  BY Zenon DEF Ledger, Sequenced
<1>5. RunsInOrder'
  BY Zenon DEF Ledger, RunsInOrder
<1>6. PendingCommandsOwned'
  BY Zenon DEF Ledger, PendingCommandsOwned
<1> QED BY Zenon, <1>2, <1>3, <1>4, <1>5, <1>6 DEF Ledger

\* What a submission of q's active list establishes.
Delivered(q) ==
  /\ \A p \in AllQueues : \A c \in InSeq(imm'[p]) : cmd[c].q = p /\ c \notin done
  /\ \A p \in AllQueues : InOrder(imm'[p], HostTasks)
  /\ Submitted' = Submitted \cup InSeq(listCmds[batch[q].active])
  /\ \A c \in Ids : cmd[c].q = q => c \in Submitted'
  /\ \A c \in Submitted', d \in Ids \ (Submitted' \cup HostTasks) :
       cmd[d].q = cmd[c].q => c < d

\* The active list is submitted behind all older commands of the queue.
LEMMA SubmitDelivers ==
  ASSUME Base, Core, Ledger, NEW q \in Queues, ~InSync(q),
         Submit(q), UNCHANGED <<cmd, done>>
  PROVE  Delivered(q)
<1> DEFINE A == listCmds[batch[q].active]
<1>1. /\ q \in AllQueues /\ A \in Seq(Nat) /\ imm[q] \in Seq(Nat)
      /\ InSeq(A) \subseteq Ids /\ InSeq(imm[q]) \subseteq Ids
      /\ Ids \subseteq Nat /\ Submitted \subseteq Ids
  BY Zenon, IdsKnown
<1>2. InSeq(A) \cap Submitted = {}
  BY DEF Ledger, ActiveUnsubmitted, InSync
<1>3. Submitted' = Submitted \cup InSeq(A)
  BY SubmitSubmitted
<1>4. /\ imm'[q] = imm[q] \o A
      /\ \A p \in AllQueues \ {q} : imm'[p] = imm[p]
  BY Zenon, <1>1 DEF Submit, Base, TypeOK
<1>5. InSeq(imm'[q]) = InSeq(imm[q]) \cup InSeq(A)
  BY <1>1, <1>4, InSeqConcat
<1>6. \A c \in InSeq(A) : cmd[c].q = q
  BY Zenon DEF Ledger, Placed
<1>7. /\ \A c \in Submitted : c \in done \/ c \in InSeq(imm[cmd[c].q])
      /\ done \subseteq Submitted
      /\ InSeq(imm[q]) \subseteq Submitted
  BY Zenon, <1>1, SubmittedWhere DEF Ledger
<1>8. ASSUME NEW p \in AllQueues, NEW c \in InSeq(imm'[p])
      PROVE  cmd[c].q = p /\ c \notin done
  <2>1. CASE p # q \/ c \in InSeq(imm[q])
    BY Zenon, <1>4, <2>1, <1>8 DEF Ledger, Placed
  <2>2. CASE p = q /\ c \in InSeq(A)
    BY <1>2, <1>6, <1>7, <2>2
  <2> QED BY Zenon, <1>5, <1>8, <2>1, <2>2
<1>9. ASSUME NEW c \in Ids, cmd[c].q = q
      PROVE  c \in Submitted'
  BY <1>3, <1>9, UnsubmittedWhere DEF Ledger
<1>10. ASSUME NEW c \in Submitted', NEW d \in Ids \ (Submitted' \cup HostTasks),
              cmd[d].q = cmd[c].q
       PROVE  c < d
  <2>1. cmd[d].q # q
    BY <1>9, <1>10
  <2>2. c \in Submitted
    BY Zenon, <1>3, <1>6, <1>10, <2>1
  <2> QED BY <1>3, <1>10, <2>2 DEF Ledger, Sequenced
<1>11. InOrder(imm'[q], HostTasks)
  <2>1. InOrder(imm[q], HostTasks) /\ InOrder(A, {})
    BY <1>1 DEF Ledger, Sequenced
  <2>2. InOrder(A, HostTasks)
    BY Zenon, <2>1, InOrderLarger
  <2>3. ASSUME NEW x \in InSeq(imm[q]), NEW y \in InSeq(A)
        PROVE  x # y /\ (x < y \/ y \in HostTasks)
    <3>1. x \in Submitted /\ y \in Ids \ Submitted
      BY Zenon, <1>1, <1>2, <1>7
    <3>2. cmd[y].q = cmd[x].q
      BY <1>1, <1>6 DEF Ledger, Placed
    <3> QED BY <3>1, <3>2 DEF Ledger, Sequenced
  <2> HIDE DEF A
  <2> QED BY ZenonT(40), <1>1, <1>4, <2>1, <2>2, <2>3, InOrderConcat
<1>12. \A p \in AllQueues : InOrder(imm'[p], HostTasks)
  BY Zenon, <1>4, <1>11 DEF Ledger, Sequenced
<1> QED BY Zenon, <1>3, <1>8, <1>9, <1>10, <1>12 DEF Delivered

\* Only commands of a batched queue are in a regular list.
LEMMA ListOwner ==
  ASSUME Base, Placed
  PROVE  \A c \in Ids : cmd[c].list # None => cmd[c].q \in Queues
BY DEF Base, Known, Placed

\* A step of t inside or at the border of the lock of q.
AtLock(t, q) ==
  /\ ~InSync(q)
  /\ \A p \in Queues \ {q} : InSync(p) => InSync(p)'
  /\ lock'[q] = t
  /\ UNCHANGED <<cmd, done, kernels>>

\* A command of q that is submitted joins no other queue's active list.
LEMMA DeliveredApart ==
  ASSUME Base, Ledger, NEW q \in Queues, Delivered(q), NEW p \in Queues \ {q},
         ActiveEmpty(batch[p]) \/ ~InSync(p)
  PROVE  InSeq(listCmds[batch[p].active]) \cap Submitted' = {}
<1>1. InSeq(listCmds[batch[p].active]) \cap Submitted = {}
  BY ZenonT(40) DEF Ledger, ActiveUnsubmitted, InSync
<1>2. \A c \in InSeq(listCmds[batch[p].active]) : cmd[c].q = p
  BY Zenon DEF Ledger, Placed
<1>3. \A c \in InSeq(listCmds[batch[q].active]) : cmd[c].q = q
  BY Zenon DEF Ledger, Placed
<1> QED BY ZenonT(40), <1>1, <1>2, <1>3 DEF Delivered

\* queueFinishUnlocked up to the wait keeps the ledger.
LEMMA FinishUnlockedLedger ==
  ASSUME Base, Core, Ledger, NEW t \in Threads, NEW q \in Queues, NEW next,
         FinishUnlocked(t, q, next), AtLock(t, q)
  PROVE  Ledger'
<1>1. UNCHANGED <<batch, listCmds, cmd, done, kernels>>
  BY ZenonT(40) DEF FinishUnlocked, AtLock
<1>2. CASE UNCHANGED imm
  <2>1. \A p \in Queues : InSync(p) => InSync(p)'
    BY DEF AtLock
  <2> QED BY Zenon, <1>1, <1>2, <2>1, LedgerKeep, ListOwner DEF Ledger
<1>3. CASE ~batch[q].capture /\ ~ActiveEmpty(batch[q])
  <2>1. Submit(q) /\ pc'[t] = "sync"
    BY Zenon, <1>3 DEF FinishUnlocked, Goto, Base, TypeOK
  <2>2. Delivered(q)
    BY <1>1, <2>1, SubmitDelivers DEF AtLock
  <2>3. InSync(q)'
    BY <2>1 DEF InSync, AtLock
  <2>4. Ids' = Ids /\ HostTasks' = HostTasks
    BY <1>1 DEF Ids, HostTasks
  <2>5. Placed'
    <3>1. Submitted \subseteq Submitted'
      BY Zenon, <2>2 DEF Delivered
    <3>2. \A p \in AllQueues : \A c \in InSeq(imm'[p]) : cmd'[c].q = p /\ c \notin done'
      BY Zenon, <1>1, <2>2 DEF Delivered
    <3>3. \A p \in Queues : \A c \in InSeq(listCmds'[batch'[p].active]) :
            /\ cmd'[c].q = p
            /\ cmd'[c].gen = batch'[p].gen
            /\ cmd'[c].list = batch'[p].active
      BY ZenonT(40), <1>1 DEF Ledger, Placed
    <3>4. \A c \in Ids' : cmd'[c].gen = NoGen => c \in Submitted' /\ cmd'[c].list = None
      BY Zenon, <1>1, <2>4, <3>1 DEF Ledger, Placed
    <3> QED BY Zenon, <3>2, <3>3, <3>4 DEF Placed
  <2>6. Sequenced'
    BY ZenonT(40), <1>1, <2>2, <2>4 DEF Ledger, Sequenced, Delivered
  <2>7. ActiveUnsubmitted'
    <3> SUFFICES ASSUME NEW p \in Queues
                 PROVE  /\ ActiveEmpty(batch[p]) =>
                             InSeq(listCmds[batch[p].active]) \subseteq HostTasks
                        /\ ActiveEmpty(batch[p]) \/ ~InSync(p)' =>
                             InSeq(listCmds[batch[p].active]) \cap Submitted' = {}
      BY Zenon, <1>1, <2>4 DEF ActiveUnsubmitted, InSync
    <3>   ActiveEmpty(batch[p]) =>
            InSeq(listCmds[batch[p].active]) \subseteq HostTasks
      BY Zenon DEF Ledger, ActiveUnsubmitted
    <3>2. CASE p = q
      BY Zenon, <1>3, <2>3, <3>2
    <3>3. CASE p # q
      BY <2>2, <3>3, DeliveredApart DEF AtLock
    <3> QED BY ZenonT(40), <3>2, <3>3
  <2>8. RunsInOrder' /\ PendingCommandsOwned'
    BY Zenon, <1>1, <2>4 DEF Ledger, RunsInOrder, PendingCommandsOwned
  <2> QED BY <2>5, <2>6, <2>7, <2>8 DEF Ledger
<1> QED BY <1>2, <1>3 DEF FinishUnlocked

\* renewBatchUnlocked keeps the ledger.
LEMMA RenewBatchLedger ==
  ASSUME Base, Core, Ledger, NEW t \in Threads, NEW q \in Queues, NEW next,
         RenewBatch(t, q, next), AtLock(t, q)
  PROVE  Ledger'
<1>1. CASE UsedListsLimit(batch[q])
  BY <1>1, FinishUnlockedLedger DEF RenewBatch
<1>2. CASE ~UsedListsLimit(batch[q])
  <2> DEFINE b == batch[q]
  <2>1. PICK l \in FreeLists :
          /\ batch' = [batch EXCEPT ![q] = Renewed(b, l)]
          /\ listCmds' = [listCmds EXCEPT ![l] = <<>>]
    BY <1>2 DEF RenewBatch
  <2>2. UNCHANGED <<cmd, done, kernels>> /\ Submit(q)
    BY Zenon, <1>2 DEF RenewBatch, AtLock
  <2>3. Delivered(q)
    BY Zenon, <2>2, SubmitDelivers DEF AtLock
  <2>4. Ids' = Ids /\ HostTasks' = HostTasks /\ Submitted \subseteq Submitted'
    BY Zenon, <2>2, <2>3 DEF Ids, HostTasks, Delivered
  <2>5. l \in Lists /\ \A p \in Queues : l \notin batch[p].run \cup {batch[p].active}
    BY DEF FreeLists
  <2>6. batch'[q] = Renewed(b, l) /\ \A p \in Queues \ {q} : batch'[p] = batch[p]
    BY Zenon, <2>1 DEF Base, TypeOK
  <2>7. /\ batch'[q].gen = b.gen + 1 /\ batch'[q].ops = 0
        /\ batch'[q].active = l /\ batch'[q].run = b.run \cup {b.active}
    <3>1. IsRenewed(batch'[q], b, l)
      BY Zenon, <2>6, RenewedFields
    <3> QED BY Zenon, <3>1 DEF IsRenewed
  <2>8. /\ listCmds'[l] = <<>> /\ InSeq(listCmds'[l]) = {}
        /\ \A k \in Lists \ {l} : listCmds'[k] = listCmds[k]
    BY ZenonT(40), <2>1, <2>5, InSeqEmpty DEF Base, TypeOK
  <2>9. \A p \in Queues \ {q} :
          /\ batch'[p] = batch[p]
          /\ listCmds'[batch'[p].active] = listCmds[batch[p].active]
    BY ZenonT(40), <2>5, <2>6, <2>8, OtherActive
  <2>10. Placed'
    <3>1. \A p \in Queues : \A c \in InSeq(listCmds'[batch'[p].active]) :
            /\ cmd[c].q = p
            /\ cmd[c].gen = batch'[p].gen
            /\ cmd[c].list = batch'[p].active
      <4>1. InSeq(listCmds'[batch'[q].active]) = {}
        BY Zenon, <2>7, <2>8
      <4>2. \A p \in Queues : \A c \in InSeq(listCmds[batch[p].active]) :
              /\ cmd[c].q = p
              /\ cmd[c].gen = batch[p].gen
              /\ cmd[c].list = batch[p].active
        BY Zenon DEF Ledger, Placed
      <4>3. ASSUME NEW p \in Queues, NEW c \in InSeq(listCmds'[batch'[p].active])
            PROVE  /\ cmd[c].q = p
                   /\ cmd[c].gen = batch'[p].gen
                   /\ cmd[c].list = batch'[p].active
        <5>1. p # q
          BY Zenon, <4>1, <4>3
        <5>2. batch'[p] = batch[p] /\ c \in InSeq(listCmds[batch[p].active])
          BY Zenon, <2>9, <4>3, <5>1
        <5>3. cmd[c].q = p /\ cmd[c].gen = batch[p].gen /\ cmd[c].list = batch[p].active
          BY Zenon, <4>2, <5>2
        <5>4. batch'[p].gen = batch[p].gen /\ batch'[p].active = batch[p].active
          BY Zenon, <5>2
        <5> QED BY Zenon, <5>3, <5>4
      <4> QED BY Zenon, <4>3
    <3> QED BY ZenonT(40), <2>2, <2>3, <2>4, <3>1 DEF Ledger, Placed, Delivered
  <2>11. Sequenced'
    <3>1. \A p \in Queues : InOrder(listCmds'[batch'[p].active], {})
      BY ZenonT(40), <2>7, <2>8, <2>9, InOrderEmpty DEF Ledger, Sequenced
    <3> QED BY ZenonT(40), <2>2, <2>3, <2>4, <3>1 DEF Sequenced, Delivered
  <2>12. ActiveUnsubmitted'
    <3> SUFFICES ASSUME NEW p \in Queues
                 PROVE  /\ ActiveEmpty(batch'[p]) =>
                             InSeq(listCmds'[batch'[p].active]) \subseteq HostTasks
                        /\ ActiveEmpty(batch'[p]) \/ ~InSync(p)' =>
                             InSeq(listCmds'[batch'[p].active]) \cap Submitted' = {}
      BY Zenon, <2>4 DEF ActiveUnsubmitted, InSync
    <3>1. CASE p = q
      BY Zenon, <2>7, <2>8, <3>1
    <3>2. CASE p # q
      <4>1. ActiveEmpty(batch[p]) =>
              InSeq(listCmds[batch[p].active]) \subseteq HostTasks
        BY Zenon DEF Ledger, ActiveUnsubmitted
      <4>2. InSync(p) => InSync(p)'
        BY <3>2 DEF AtLock
      <4> QED BY ZenonT(40), <2>3, <2>9, <3>2, <4>1, <4>2, DeliveredApart
    <3> QED BY ZenonT(40), <3>1, <3>2
  <2>13. RunsInOrder'
    BY ZenonT(40), <2>2, <2>4 DEF Ledger, RunsInOrder
  <2>14. PendingCommandsOwned'
    <3> SUFFICES ASSUME NEW c \in Ids \ done
                 PROVE  /\ cmd[c].list # None =>
                             /\ cmd[c].list \in batch'[cmd[c].q].run
                                                  \cup {batch'[cmd[c].q].active}
                             /\ c \in InSeq(listCmds'[cmd[c].list])
                        /\ cmd[c].kind = "op" => c \in kernels[cmd[c].q]
      BY ZenonT(40), <2>2, <2>4 DEF PendingCommandsOwned
    <3>   /\ cmd[c].list # None =>
               /\ cmd[c].list \in batch[cmd[c].q].run \cup {batch[cmd[c].q].active}
               /\ c \in InSeq(listCmds[cmd[c].list])
               /\ cmd[c].q \in Queues
          /\ cmd[c].kind = "op" => c \in kernels[cmd[c].q]
      BY ZenonT(40), ListOwner DEF Ledger, PendingCommandsOwned
    <3>2. CASE cmd[c].list # None
      <4>1. cmd[c].list \in Lists /\ cmd[c].list # l
        BY ZenonT(40), <2>5, <3>2 DEF Base, TypeOK, BatchManager
      <4>2. batch[cmd[c].q].run \cup {batch[cmd[c].q].active}
              \subseteq batch'[cmd[c].q].run \cup {batch'[cmd[c].q].active}
        BY Zenon, <2>6, <2>7, <3>2
      <4> QED BY ZenonT(40), <2>8, <4>1, <4>2
    <3> QED BY ZenonT(40), <3>2
  <2> QED BY <2>10, <2>11, <2>12, <2>13, <2>14 DEF Ledger
<1> QED BY <1>1, <1>2

\* What a new command changes in the sets the ledger speaks of.
LEMMA NewInLedger ==
  ASSUME Base, NEW new \in Command, cmd' = Append(cmd, new)
  PROVE  /\ Len(cmd) + 1 \in Nat /\ Len(cmd) + 1 \notin Ids
         /\ Ids' = Ids \cup {Len(cmd) + 1}
         /\ \A c \in Ids : cmd'[c] = cmd[c] /\ c < Len(cmd) + 1 /\ c \in Nat
         /\ cmd'[Len(cmd) + 1] = new
         /\ HostTasks \subseteq HostTasks'
         /\ HostTasks' \subseteq HostTasks \cup {Len(cmd) + 1}
         /\ new.kind = "hosttask" => Len(cmd) + 1 \in HostTasks'
<1> DEFINE id == Len(cmd) + 1
<1>   /\ id \in Nat /\ id \notin Ids /\ Ids' = Ids \cup {id} /\ Ids \subseteq Nat
      /\ \A c \in Ids : cmd'[c] = cmd[c]
      /\ cmd'[id] = new
  BY Zenon, NewCommand DEF Base
<1>2. \A c \in Ids : c < id
  <2> QED BY ZenonT(40), CommandCount, BelowNext DEF Ids, Base, TypeOK
<1> HIDE DEF id
<1>3. /\ HostTasks \subseteq HostTasks' /\ HostTasks' \subseteq HostTasks \cup {id}
      /\ new.kind = "hosttask" => id \in HostTasks'
  BY Zenon DEF HostTasks
<1> QED BY Zenon, <1>2, <1>3 DEF id

\* A command that goes straight to the immediate list, with no older command of
\* its queue left to submit, keeps the ledger.
LEMMA DirectLedger ==
  ASSUME Base, Core, Ledger, NEW q \in AllQueues, NEW new \in Command,
         new.q = q, new.gen = NoGen, new.list = None,
         cmd' = Append(cmd, new),
         imm' = [imm EXCEPT ![q] = Append(imm[q], Len(cmd) + 1)],
         UNCHANGED <<batch, listCmds, done>>,
         \A p \in AllQueues : kernels[p] \subseteq kernels'[p],
         new.kind = "op" => Len(cmd) + 1 \in kernels'[q],
         \A d \in Ids \ (Submitted \cup HostTasks) : cmd[d].q # q,
         \A p \in Queues : InSync(p) => InSync(p)'
  PROVE  Ledger'
<1> DEFINE id == Len(cmd) + 1
<1>1. /\ id \in Nat /\ id \notin Ids /\ Ids' = Ids \cup {id}
      /\ \A c \in Ids : cmd'[c] = cmd[c] /\ c < id /\ c \in Nat
      /\ cmd'[id] = new
      /\ HostTasks \subseteq HostTasks' /\ HostTasks' \subseteq HostTasks \cup {id}
  BY ZenonT(40), NewInLedger
<1>2. imm[q] \in Seq(Nat) /\ InSeq(imm[q]) \subseteq Ids /\ Submitted \subseteq Ids
  BY ZenonT(40), IdsKnown
<1>3. /\ imm'[q] = Append(imm[q], id)
      /\ \A p \in AllQueues \ {q} : imm'[p] = imm[p]
  BY Zenon DEF Base, TypeOK
<1>30. done \subseteq Ids
  BY Zenon DEF Base, TypeOK
<1>31. \A c \in Ids : cmd[c].q \in AllQueues
  BY Zenon, CommandOf DEF Base, Command
<1> HIDE DEF id
<1>40. InSeq(Append(imm[q], id)) = InSeq(imm[q]) \cup {id}
  BY Zenon, <1>1, <1>2, AppendId
<1>4. InSeq(imm'[q]) = InSeq(imm[q]) \cup {id}
  BY Zenon, <1>3, <1>40
<1>41. \A p \in AllQueues : InSeq(imm'[p]) \subseteq InSeq(imm[p]) \cup {id}
  BY Zenon, <1>3, <1>4
<1>5. Submitted' = Submitted \cup {id}
  <2>1. \A c : c \in Submitted' <=> c \in done' \/ \E p \in AllQueues : c \in InSeq(imm'[p])
    BY DEF Submitted
  <2>2. \A c : c \in Submitted <=> c \in done \/ \E p \in AllQueues : c \in InSeq(imm[p])
    BY Zenon DEF Submitted
  <2>3. \A c : c \in Submitted' <=> c \in Submitted \cup {id}
    BY Zenon, <1>3, <1>4, <2>1, <2>2
  <2> QED BY Zenon, <2>3
<1>6. \A p \in Queues : InSeq(listCmds[batch[p].active]) \subseteq Ids
  BY IdsKnown
<1>61. \A p \in AllQueues : \A c \in InSeq(imm[p]) : cmd[c].q = p /\ c \notin done
  BY Zenon DEF Ledger, Placed
<1>62. \A p \in Queues : \A c \in InSeq(listCmds[batch[p].active]) :
         /\ cmd[c].q = p
         /\ cmd[c].gen = batch[p].gen
         /\ cmd[c].list = batch[p].active
  BY Zenon DEF Ledger, Placed
<1>63. \A c \in Ids : cmd[c].gen = NoGen => c \in Submitted /\ cmd[c].list = None
  BY Zenon DEF Ledger, Placed
<1>7. Placed'
  <2>1. \A p \in AllQueues : \A c \in InSeq(imm'[p]) : cmd'[c].q = p /\ c \notin done'
    <3> SUFFICES ASSUME NEW p \in AllQueues, NEW c \in InSeq(imm'[p])
                 PROVE  cmd'[c].q = p /\ c \notin done
      BY Zenon
    <3>1. CASE c = id
      <4>1. p = q
        BY Zenon, <1>1, <1>3, <3>1, IdsKnown
      <4> QED BY ZenonT(40), <1>1, <1>30, <3>1, <4>1
    <3>2. CASE c # id
      <4>1. c \in InSeq(imm[p]) /\ c \in Ids
        BY Zenon, <1>41, <3>2, IdsKnown
      <4> QED BY ZenonT(40), <1>1, <1>61, <4>1
    <3> QED BY Zenon, <3>1, <3>2
  <2>2. \A p \in Queues : \A c \in InSeq(listCmds'[batch'[p].active]) :
          /\ cmd'[c].q = p
          /\ cmd'[c].gen = batch'[p].gen
          /\ cmd'[c].list = batch'[p].active
    <3> SUFFICES ASSUME NEW p \in Queues, NEW c \in InSeq(listCmds[batch[p].active])
                 PROVE  /\ cmd'[c].q = p
                        /\ cmd'[c].gen = batch[p].gen
                        /\ cmd'[c].list = batch[p].active
      BY ZenonT(40)
    <3>1. cmd'[c] = cmd[c]
      BY Zenon, <1>1, <1>6
    <3>2. cmd[c].q = p /\ cmd[c].gen = batch[p].gen /\ cmd[c].list = batch[p].active
      BY <1>62
    <3> QED BY Zenon, <3>1, <3>2
  <2>3. \A c \in Ids' : cmd'[c].gen = NoGen => c \in Submitted' /\ cmd'[c].list = None
    BY ZenonT(40), <1>1, <1>5, <1>63
  <2> QED BY Zenon, <2>1, <2>2, <2>3 DEF Placed
<1>8. ActiveUnsubmitted'
  <2> SUFFICES ASSUME NEW p \in Queues
               PROVE  /\ ActiveEmpty(batch[p]) =>
                           InSeq(listCmds[batch[p].active]) \subseteq HostTasks'
                      /\ ActiveEmpty(batch[p]) \/ ~InSync(p)' =>
                           InSeq(listCmds[batch[p].active]) \cap Submitted' = {}
    BY Zenon DEF ActiveUnsubmitted, InSync
  <2>1. /\ ActiveEmpty(batch[p]) =>
             InSeq(listCmds[batch[p].active]) \subseteq HostTasks
        /\ ActiveEmpty(batch[p]) \/ ~InSync(p) =>
             InSeq(listCmds[batch[p].active]) \cap Submitted = {}
    BY Zenon DEF Ledger, ActiveUnsubmitted, InSync
  <2> QED BY ZenonT(40), <1>1, <1>5, <1>6, <2>1
<1>9. Sequenced'
  <2>1. InOrder(imm'[q], HostTasks)
    BY ZenonT(40), <1>1, <1>2, <1>3, InOrderAppend DEF Ledger, Sequenced
  <2>2. \A p \in AllQueues : InOrder(imm'[p], HostTasks)
    BY Zenon, <1>3, <2>1 DEF Ledger, Sequenced
  <2>3. \A p \in AllQueues : InOrder(imm'[p], HostTasks')
    BY ZenonT(40), <1>1, <2>2, InOrderLarger
  <2>4. ASSUME NEW c \in Submitted', NEW d \in Ids' \ (Submitted' \cup HostTasks'),
               cmd'[d].q = cmd'[c].q
        PROVE  c < d
    <3>   d \in Ids \ (Submitted \cup HostTasks) /\ cmd'[d] = cmd[d]
      BY Zenon, <1>1, <1>5, <2>4
    <3>2. c \in Submitted /\ cmd'[c] = cmd[c]
      BY Zenon, <1>1, <1>2, <1>5, <2>4
    <3> QED BY Zenon, <2>4, <3>2 DEF Ledger, Sequenced
  <2> QED BY ZenonT(40), <2>3, <2>4 DEF Ledger, Sequenced
<1>10. RunsInOrder'
  <2> SUFFICES ASSUME NEW c \in done, NEW d \in Ids', d < c, cmd'[d].q = cmd'[c].q,
                      cmd'[d].kind # "hosttask"
               PROVE  d \in done
    BY ZenonT(40) DEF RunsInOrder
  <2>1. d \in Ids /\ c \in Ids
    <3>1. c \in Ids /\ c \in Nat /\ c < id
      BY Zenon, <1>1, <1>30
    <3>2. d # id
      BY Zenon, <1>1, <3>1, NotBoth
    <3> QED BY Zenon, <1>1, <3>1, <3>2
  <2> QED BY Zenon, <1>1, <2>1 DEF Ledger, RunsInOrder
<1>11. PendingCommandsOwned'
  <2> SUFFICES ASSUME NEW c \in Ids' \ done
               PROVE  /\ cmd'[c].list # None =>
                           /\ cmd'[c].list \in batch[cmd'[c].q].run
                                                 \cup {batch[cmd'[c].q].active}
                           /\ c \in InSeq(listCmds[cmd'[c].list])
                      /\ cmd'[c].kind = "op" => c \in kernels'[cmd'[c].q]
    BY ZenonT(40) DEF PendingCommandsOwned
  <2>1. CASE c = id
    BY ZenonT(40), <1>1, <2>1 DEF id
  <2>2. CASE c # id
    <3>1. c \in Ids \ done /\ cmd'[c] = cmd[c]
      BY Zenon, <1>1, <2>2
    <3> QED BY Zenon, <1>31, <3>1 DEF Ledger, PendingCommandsOwned
  <2> QED BY Zenon, <2>1, <2>2
<1> QED BY <1>7, <1>8, <1>9, <1>10, <1>11 DEF Ledger

\* A counted operation changes nothing but the count of its batch, which is then
\* not empty.
LEMMA MarkedBatch ==
  ASSUME batch \in [Queues -> BatchManager], NEW q \in Queues,
         batch' = [batch EXCEPT ![q].ops = @ + 1]
  PROVE  /\ \A p \in Queues : /\ batch'[p].active = batch[p].active
                              /\ batch'[p].run = batch[p].run
                              /\ batch'[p].gen = batch[p].gen
         /\ \A p \in Queues \ {q} : batch'[p] = batch[p]
         /\ ~ActiveEmpty(batch'[q])
<1>1. batch[q] \in BatchManager
  BY Zenon
<1>2. batch[q].ops + 1 # 0
  BY Zenon, <1>1, NotZero DEF BatchManager
<1> QED BY ZenonT(40), <1>1, <1>2 DEF BatchManager, ActiveEmpty

\* An append to the active list of a batch keeps the ledger.
LEMMA ListAppendLedger ==
  ASSUME Base, Core, Ledger, NEW t \in Threads, NEW q \in Queues,
         AppendCommand(t, q), ~batch[q].capture, call[t].kind \notin Direct,
         call[t].kind \in Marked \cup {"hosttask"}
  PROVE  Ledger'
<1> DEFINE k == call[t].kind
           b == batch[q]
           id == Len(cmd) + 1
           new == [q |-> q, kind |-> k, waits |-> call[t].waits,
                   gen |-> b.gen, list |-> b.active]
<1>1. /\ cmd' = Append(cmd, new)
      /\ listCmds' = [listCmds EXCEPT ![b.active] = Append(listCmds[b.active], id)]
      /\ batch' = IF k \in Marked THEN [batch EXCEPT ![q].ops = @ + 1] ELSE batch
      /\ kernels' = Retained(q, k, id)
      /\ lock[q] = t /\ pc[t] = "append"
      /\ pc' = [pc EXCEPT ![t] = IF k \in {"blockingop", "barrier"} THEN "post"
                                                                  ELSE "return"]
      /\ UNCHANGED <<imm, done, lock>>
  BY DEF AppendCommand, Goto
<1>2. /\ call[t] \in ApiCall /\ b \in BatchManager
      /\ b.active \in Lists /\ b.gen \in Nat /\ b.ops \in Nat /\ q \in AllQueues
  BY ZenonT(40) DEF Base, TypeOK, BatchManager, AllQueues
<1>3. new \in Command
  <2>1. k \in AllKinds /\ call[t].waits \in SUBSET Nat /\ b.gen \in Int
    BY <1>2 DEF ApiCall
  <2> QED BY ZenonT(40), <1>2, <2>1 DEF Command
<1>4. /\ id \in Nat /\ id \notin Ids /\ Ids' = Ids \cup {id}
      /\ \A c \in Ids : cmd'[c] = cmd[c] /\ c < id /\ c \in Nat
      /\ cmd'[id] = new
      /\ HostTasks \subseteq HostTasks' /\ HostTasks' \subseteq HostTasks \cup {id}
      /\ k = "hosttask" => id \in HostTasks'
  <2>1. new.kind = k
    BY ZenonT(40)
  <2> HIDE DEF new
  <2> QED BY ZenonT(40), <1>1, <1>3, <2>1, NewInLedger
<1>5. /\ cmd'[id].q = q /\ cmd'[id].kind = k /\ cmd'[id].gen = b.gen
      /\ cmd'[id].list = b.active
  <2>1. new.q = q /\ new.kind = k /\ new.gen = b.gen /\ new.list = b.active
    BY ZenonT(40)
  <2> HIDE DEF new
  <2> QED BY ZenonT(40), <1>4, <2>1
<1>6. /\ \A p \in Queues : /\ batch'[p].active = batch[p].active
                           /\ batch'[p].run = batch[p].run
                           /\ batch'[p].gen = batch[p].gen
      /\ \A p \in Queues \ {q} : batch'[p] = batch[p]
      /\ ActiveEmpty(batch'[q]) => ActiveEmpty(b) /\ k = "hosttask"
  <2>1. CASE k \in Marked
    <3>1. batch' = [batch EXCEPT ![q].ops = @ + 1] /\ batch \in [Queues -> BatchManager]
      BY Zenon, <1>1, <2>1 DEF Base, TypeOK
    <3> QED BY Zenon, <3>1, MarkedBatch
  <2>2. CASE k \notin Marked
    BY Zenon, <1>1, <2>2
  <2> QED BY Zenon, <2>1, <2>2
<1>7. /\ Submitted' = Submitted /\ Submitted \subseteq Ids /\ done \subseteq Ids
      /\ \A p \in AllQueues : InSeq(imm[p]) \subseteq Ids
      /\ \A p \in Queues : InSeq(listCmds[batch[p].active]) \subseteq Ids
  BY ZenonT(40), <1>1, IdsKnown DEF Submitted, Base, TypeOK
<1>8. \A c \in Ids : cmd[c].q \in AllQueues
  BY CommandOf DEF Base, Command
<1>9. /\ \A p \in AllQueues : kernels[p] \subseteq kernels'[p]
      /\ k = "op" => id \in kernels'[q]
  BY <1>1, <1>2 DEF Retained, Base, TypeOK
<1> HIDE DEF new, id
<1>10. /\ listCmds'[b.active] = Append(listCmds[b.active], id)
       /\ listCmds[b.active] \in Seq(Nat)
       /\ \A m \in Lists \ {b.active} : listCmds'[m] = listCmds[m]
  BY Zenon, <1>1, <1>2 DEF Base, TypeOK
<1>11. InSeq(listCmds'[b.active]) = InSeq(listCmds[b.active]) \cup {id}
  BY <1>4, <1>10, AppendId
<1>12. \A p \in Queues \ {q} :
         listCmds'[batch'[p].active] = listCmds[batch[p].active]
  BY ZenonT(40), <1>6, <1>10, OtherActive
<1>13. listCmds'[batch'[q].active] = listCmds'[b.active]
  BY Zenon, <1>6
<1>14. /\ ~InSync(q)
       /\ \A p \in Queues : InSync(p) => InSync(p)'
  BY <1>1 DEF InSync, Base, TypeOK
<1>15. Placed'
  <2>1. \A p \in AllQueues : \A c \in InSeq(imm'[p]) : cmd'[c].q = p /\ c \notin done'
    <3> SUFFICES ASSUME NEW p \in AllQueues, NEW c \in InSeq(imm[p])
                 PROVE  cmd'[c].q = p /\ c \notin done
      BY ZenonT(40), <1>1
    <3>1. cmd'[c] = cmd[c]
      BY Zenon, <1>4, <1>7
    <3>2. cmd[c].q = p /\ c \notin done
      BY Zenon DEF Ledger, Placed
    <3> QED BY Zenon, <3>1, <3>2
  <2>2. ASSUME NEW p \in Queues, NEW c \in InSeq(listCmds'[batch'[p].active])
        PROVE  /\ cmd'[c].q = p
               /\ cmd'[c].gen = batch'[p].gen
               /\ cmd'[c].list = batch'[p].active
    <3>1. CASE p = q /\ c = id
      BY Zenon, <1>5, <1>6, <3>1
    <3>2. CASE c \in InSeq(listCmds[batch[p].active])
      <4>1. cmd'[c] = cmd[c]
        BY ZenonT(40), <1>4, <1>7, <3>2
      <4>2. cmd[c].q = p /\ cmd[c].gen = batch[p].gen /\ cmd[c].list = batch[p].active
        BY ZenonT(40), <3>2 DEF Ledger, Placed
      <4> QED BY <1>6, <4>1, <4>2
    <3> QED BY Zenon, <1>11, <1>12, <1>13, <2>2, <3>1, <3>2
  <2>3. \A c \in Ids' : cmd'[c].gen = NoGen => c \in Submitted' /\ cmd'[c].list = None
    <3>1. \A c \in Ids : cmd[c].gen = NoGen => c \in Submitted /\ cmd[c].list = None
      BY ZenonT(40) DEF Ledger, Placed
    <3>2. b.gen # NoGen
      BY Zenon, <1>2, NoGenFacts
    <3> QED BY Zenon, <1>4, <1>5, <1>7, <3>1, <3>2
  <2> QED BY ZenonT(40), <2>1, <2>2, <2>3 DEF Placed
<1>16. ActiveUnsubmitted'
  <2> SUFFICES ASSUME NEW p \in Queues
               PROVE  /\ ActiveEmpty(batch'[p]) =>
                           InSeq(listCmds'[batch'[p].active]) \subseteq HostTasks'
                      /\ ActiveEmpty(batch'[p]) \/ ~InSync(p)' =>
                           InSeq(listCmds'[batch'[p].active]) \cap Submitted' = {}
    BY Zenon DEF ActiveUnsubmitted, InSync
  <2>   /\ ActiveEmpty(batch[p]) =>
             InSeq(listCmds[batch[p].active]) \subseteq HostTasks
        /\ ActiveEmpty(batch[p]) \/ ~InSync(p) =>
             InSeq(listCmds[batch[p].active]) \cap Submitted = {}
    BY DEF Ledger, ActiveUnsubmitted, InSync
  <2>2. CASE p = q
    <3>1. InSeq(listCmds'[batch'[p].active]) = InSeq(listCmds[batch[p].active]) \cup {id}
      BY Zenon, <1>11, <1>13, <2>2
    <3>2. ActiveEmpty(batch'[p]) => InSeq(listCmds'[batch'[p].active]) \subseteq HostTasks'
      BY Zenon, <1>4, <1>6, <2>2, <3>1
    <3>3. InSeq(listCmds'[batch'[p].active]) \cap Submitted' = {}
      BY Zenon, <1>4, <1>7, <1>14, <2>2, <3>1
    <3> QED BY Zenon, <3>2, <3>3
  <2>3. CASE p # q
    <3>1. /\ batch'[p] = batch[p]
          /\ listCmds'[batch'[p].active] = listCmds[batch[p].active]
          /\ InSync(p) => InSync(p)'
      BY Zenon, <1>6, <1>12, <1>14, <2>3
    <3> QED BY Zenon, <1>4, <1>7, <3>1
  <2> QED BY ZenonT(40), <2>2, <2>3
<1>17. Sequenced'
  <2>1. InOrder(listCmds'[b.active], {})
    <3>1. InOrder(listCmds[b.active], {})
      BY Zenon DEF Ledger, Sequenced
    <3>2. \A y \in InSeq(listCmds[b.active]) : y < id
      BY <1>4, <1>7
    <3> QED BY ZenonT(40), <1>4, <1>10, <3>1, <3>2, InOrderAppend
  <2>2. \A p \in Queues : InOrder(listCmds'[batch'[p].active], {})
    BY Zenon, <1>12, <1>13, <2>1 DEF Ledger, Sequenced
  <2>3. \A p \in AllQueues : InOrder(imm'[p], HostTasks')
    BY <1>1, <1>4, InOrderLarger DEF Ledger, Sequenced
  <2>4. ASSUME NEW c \in Submitted', NEW d \in Ids' \ (Submitted' \cup HostTasks'),
               cmd'[d].q = cmd'[c].q
        PROVE  c < d
    <3>   c \in Submitted /\ c \in Ids /\ cmd'[c] = cmd[c]
      BY Zenon, <1>4, <1>7, <2>4
    <3>2. CASE d = id
      BY Zenon, <1>4, <3>2
    <3>3. CASE d # id
      <4>1. d \in Ids \ (Submitted \cup HostTasks) /\ cmd'[d] = cmd[d]
        BY Zenon, <1>4, <1>7, <2>4, <3>3
      <4> QED BY Zenon, <2>4, <4>1 DEF Ledger, Sequenced
    <3> QED BY Zenon, <3>2, <3>3
  <2> QED BY ZenonT(40), <2>2, <2>3, <2>4 DEF Sequenced
<1>18. RunsInOrder'
  <2> SUFFICES ASSUME NEW c \in done, NEW d \in Ids', d < c, cmd'[d].q = cmd'[c].q,
                      cmd'[d].kind # "hosttask"
               PROVE  d \in done
    BY ZenonT(40), <1>1 DEF RunsInOrder
  <2>1. d \in Ids /\ c \in Ids
    <3>1. c \in Ids /\ c \in Nat /\ c < id
      BY Zenon, <1>4, <1>7
    <3>2. d # id
      BY Zenon, <1>4, <3>1, NotBoth
    <3> QED BY Zenon, <1>4, <3>1, <3>2
  <2> QED BY <1>4, <2>1 DEF Ledger, RunsInOrder
<1>19. PendingCommandsOwned'
  <2> SUFFICES ASSUME NEW c \in Ids' \ done
               PROVE  /\ cmd'[c].list # None =>
                           /\ cmd'[c].list \in batch'[cmd'[c].q].run
                                                 \cup {batch'[cmd'[c].q].active}
                           /\ c \in InSeq(listCmds'[cmd'[c].list])
                      /\ cmd'[c].kind = "op" => c \in kernels'[cmd'[c].q]
    BY ZenonT(40), <1>1 DEF PendingCommandsOwned
  <2>1. CASE c = id
    <3>1. cmd'[c].q = q /\ cmd'[c].kind = k /\ cmd'[c].list = b.active
      BY Zenon, <1>5, <2>1
    <3>2. batch'[q].active = b.active /\ c \in InSeq(listCmds'[b.active])
      BY Zenon, <1>6, <1>11, <2>1
    <3> QED BY Zenon, <1>9, <2>1, <3>1, <3>2
  <2>2. CASE c # id
    <3>   c \in Ids \ done /\ cmd'[c] = cmd[c]
      BY Zenon, <1>4, <2>2
    <3>   /\ cmd[c].list # None =>
               /\ cmd[c].list \in batch[cmd[c].q].run \cup {batch[cmd[c].q].active}
               /\ c \in InSeq(listCmds[cmd[c].list])
               /\ cmd[c].q \in Queues
               /\ cmd[c].list \in Lists
          /\ cmd[c].kind = "op" => c \in kernels[cmd[c].q]
      <4>1. cmd[c].list # None => cmd[c].q \in Queues /\ cmd[c].list \in Lists
        BY Zenon, ListOwner, CommandFields DEF Ledger, Base
      <4> QED BY Zenon, <4>1 DEF Ledger, PendingCommandsOwned
    <3>3. CASE cmd[c].list # None
      <4>1. cmd[c].list \in batch'[cmd[c].q].run \cup {batch'[cmd[c].q].active}
        BY Zenon, <1>6, <3>3
      <4>2. c \in InSeq(listCmds'[cmd[c].list])
        BY Zenon, <1>10, <1>11, <3>3
      <4> QED BY ZenonT(40), <1>8, <1>9, <4>1, <4>2
    <3> QED BY ZenonT(40), <1>8, <1>9, <3>3
  <2> QED BY Zenon, <2>1, <2>2
<1> QED BY Zenon, <1>15, <1>16, <1>17, <1>18, <1>19 DEF Ledger

\* The append keeps the ledger: a command buffer finds the active batch empty.
LEMMA AppendCommandLedger ==
  ASSUME Base, Core, Ledger, CallsInPlace, NEW t \in Threads, NEW q \in Queues,
         AppendCommand(t, q)
  PROVE  Ledger'
<1> DEFINE k == call[t].kind
           b == batch[q]
<1>1. /\ lock[q] = t /\ pc[t] = "append" /\ q \in AllQueues
      /\ UNCHANGED <<done, lock>>
      /\ \A p \in Queues : InSync(p) => InSync(p)'
  BY DEF AppendCommand, Goto, AllQueues, InSync, Base, TypeOK
<1>2. k \in Marked \cup Direct \cup {"hosttask"}
  BY ZenonT(40), <1>1 DEF CallsInPlace, CallInPlace, Resume
<1>3. CASE b.capture
  <2>1. UNCHANGED <<cmd, imm, listCmds, batch, kernels>>
    BY <1>3 DEF AppendCommand
  <2> QED BY Zenon, <1>1, <2>1, LedgerKeep, ListOwner DEF Ledger
<1>4. CASE ~b.capture /\ k \in Direct
  <2> DEFINE new == [q |-> q, kind |-> k, waits |-> call[t].waits, gen |-> NoGen,
                     list |-> None]
  <2>1. /\ cmd' = Append(cmd, new)
        /\ imm' = [imm EXCEPT ![q] = Append(imm[q], Len(cmd) + 1)]
        /\ UNCHANGED <<batch, listCmds, kernels, done>>
    BY <1>4 DEF AppendCommand
  <2>2. new \in Command /\ new.q = q /\ new.gen = NoGen /\ new.list = None
    <3>1. call[t] \in ApiCall
      BY Zenon DEF Base, TypeOK
    <3>2. call[t].kind \in AllKinds /\ call[t].waits \in SUBSET Nat
      BY Zenon, <3>1 DEF ApiCall
    <3> QED BY Zenon, <1>1, <3>2, NoGenFacts DEF Command
  <2>3. new.kind # "op"
    BY Zenon, <1>4 DEF Direct
  <2>4. \A d \in Ids \ (Submitted \cup HostTasks) : cmd[d].q # q
    <3>1. InSeq(listCmds[b.active]) \subseteq HostTasks
      BY ZenonT(40), <1>1, <1>4 DEF CallsInPlace, CallInPlace, AtEmpty, Ledger, ActiveUnsubmitted
    <3> QED BY SMTT(30), Z3T(30), <3>1, UnsubmittedWhere DEF Ledger
  <2>5. \A p \in AllQueues : kernels[p] \subseteq kernels'[p]
    BY Zenon, <2>1
  <2> HIDE DEF new
  <2> QED BY Zenon, <1>1, <2>1, <2>2, <2>3, <2>4, <2>5, DirectLedger
<1>5. CASE ~b.capture /\ k \notin Direct
  BY <1>2, <1>5, ListAppendLedger
<1> QED BY <1>3, <1>4, <1>5

=============================================================================
