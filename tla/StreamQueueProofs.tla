-------------------------- MODULE StreamQueueProofs --------------------------
(***************************************************************************)
(* Proofs about StreamQueue for any number of threads, queues, streams and *)
(* calls, and whether or not the stream indices wrap: kernels and copies   *)
(* run after the commands of their wait lists, and a host wait returns     *)
(* only once what it waits for is done.                                    *)
(*                                                                         *)
(* The argument is about which completions imply which.  A set of commands *)
(* is closed if it holds what its launched members wait for; the set of    *)
(* the commands that are done is closed in every state.  A implies i if    *)
(* every closed set that contains A contains i.  The front of a stream     *)
(* implies every command put on the stream, and goes on to do so whatever  *)
(* other threads put there; hence so does an event recorded on it later.   *)
(*                                                                         *)
(* Also for any number of threads, no stream is used before it is created. *)
(* For one thread and before an index wraps, urQueueFinish drains the      *)
(* queue: a stream with unfinished work was taken since the last finish.   *)
(* And then a command runs after all that the API orders it after.         *)
(***************************************************************************)
EXTENDS StreamQueue, TLAPS

\* The provers of the leaves that name none
USE ZenonT(20), SMTT(15), Z3T(15)

\* Every closed set of commands that contains A contains i, where the launched
\* commands are L and D says what each of them waits for.
Imp(L, D, A, i) ==
  \A X \in SUBSET Ids :
     (\A j \in L \cap X : D[j] \subseteq X) /\ A \subseteq X => i \in X

Implies(A, i) == Imp(launched, deps, A, i)

WaitingOps == Transfers \cup {"kernel"}
EnqueueOps == Selecting \cup Transfers \cup {"handle"}

EventRec == [op : AllOps \cup {"none"}, stream : Streams \cup {NoStream},
             token : Uint, id : Nat, at : SUBSET Ids]
CallRec == [op : AllOps \cup {"none"}, q : Queues \cup {None},
            id : 0 .. MaxCalls, list : SUBSET Ids, before : SUBSET Ids]
AskedRec == [op : AllOps \cup {"none"}, list : SUBSET Ids, after : SUBSET Ids]
GotRec == [stream : Streams \cup {NoStream}, token : Uint]

\* The part of the type invariant the proofs use.
Types ==
  /\ index \in [Pools -> Uint] /\ lastSync \in [Pools -> Uint]
  /\ created \in [Pools -> Nat]
  /\ barrierEvent \in [Queues -> [made : BOOLEAN, at : SUBSET Ids]]
  /\ eventCount \in [Queues -> Nat]
  /\ front \in [Streams -> SUBSET Ids]
  /\ deps \in [Ids -> SUBSET Ids]
  /\ launched \in SUBSET Ids /\ launched \subseteq 1 .. calls
  /\ done \in SUBSET launched
  /\ event \in [Ids -> EventRec]
  /\ asked \in [Ids -> AskedRec]
  /\ calls \in 0 .. MaxCalls
  /\ pc \in [Threads -> Labels]
  /\ call \in [Threads -> CallRec]
  /\ got \in [Threads -> GotRec]

\* A returned command was launched, and its event belongs to a stream of its queue.
ReturnedKnown ==
  \A i \in Returned : /\ i \in launched
                      /\ event[i].stream \in Streams
                      /\ event[i].id <= eventCount[QueueOf(i)]
DoneClosed == \A i \in done : deps[i] \subseteq done
FrontImplies == \A i \in Returned : Implies(front[event[i].stream], i)
\* The latest event of a stream stands for the others.
EventImplies ==
  \A e, f \in Returned :
    event[e].stream = event[f].stream /\ event[e].id <= event[f].id
      => Implies(event[f].at, e)
DepsImplyList ==
  \A i \in launched : asked[i].op \in WaitingOps =>
                        \A j \in asked[i].list : Implies(deps[i], j)

\* The call of t has a number and has put nothing on its stream yet.
Fresh(t) ==
  \/ pc[t] \in {"select", "create", "take", "apply", "applied", "waits", "launch",
                "lockBarrier", "barrierCompute", "barrierTransfer",
                "barrierEvents", "barrierRecord"}
  \/ pc[t] \in {"lockSync", "lockPool"} /\ call[t].op # "finish"
BarrierLabels == {"lockBarrier", "lockSync", "lockPool", "barrierCompute",
                  "barrierTransfer", "barrierEvents", "barrierRecord"}
\* The call of t has got its stream.
WithStream(t) ==
  \/ Fresh(t) /\ pc[t] \notin {"select", "create", "take"}
  \/ pc[t] \in {"record", "streamWait"}
Active(t) == Fresh(t) \/ pc[t] = "record"

\* What holds of a thread at each place of its call.
ThreadInv(t) ==
  /\ Active(t) => /\ call[t].id \in 1 .. calls
                  /\ call[t].op \in EnqueueOps
                  /\ call[t].q \in Queues
                  /\ call[t].list \subseteq Returned
                  /\ event[call[t].id] = NoEvent
  /\ Fresh(t) => /\ call[t].id \notin launched
                 /\ asked[call[t].id].op = call[t].op
                 /\ asked[call[t].id].list = call[t].list
  /\ WithStream(t) => got[t].stream \in Streams
  /\ WithStream(t) /\ Active(t) => got[t].stream[1][1] = call[t].q
  /\ pc[t] = "waits" => call[t].op \in WaitingOps
  /\ Fresh(t) /\ pc[t] \in BarrierLabels => call[t].op = "barrier"
  /\ pc[t] = "launch" /\ call[t].op \in WaitingOps =>
       \A j \in call[t].list : Implies(front[got[t].stream], j)
  /\ pc[t] = "record" => /\ call[t].id \in launched
                         /\ Implies(front[got[t].stream], call[t].id)
  /\ pc[t] = "streamWait" => /\ call[t].op = "read"
                             /\ call[t].id \in Returned
                             /\ event[call[t].id].stream = got[t].stream
  /\ pc[t] \in {"syncCompute", "lockTransfer", "syncTransfer"}
       => call[t].op = "finish"
  /\ pc[t] = "eventWait" => call[t].op = "wait" /\ call[t].list \subseteq Returned
  /\ pc[t] = "return" => /\ call[t].op = "wait" => call[t].list \subseteq done
                         /\ call[t].op = "read" => call[t].id \in done

DistinctIds ==
  \A t, u \in Threads : t # u /\ Active(t) /\ Active(u) => call[t].id # call[u].id

Global == ReturnedKnown /\ DoneClosed /\ FrontImplies /\ EventImplies
            /\ DepsImplyList

IInv == Types /\ Global /\ (\A t \in Threads : ThreadInv(t)) /\ DistinctIds

-----------------------------------------------------------------------------
\* What the proofs use of the natural numbers and of cardinalities beyond arithmetic.
\* It is shown below, next to the library's facts that it follows from.
MaxFacts ==
  \A S \in SUBSET Nat, n \in Nat :
    S # {} /\ (\A x \in S : x <= n) => \E m \in S : \A x \in S : x <= m

CountFacts ==
  /\ Cardinality({}) = 0
  /\ \A S, x : IsFiniteSet(S) /\ x \notin S =>
       /\ IsFiniteSet(S \cup {x}) /\ Cardinality(S) \in Nat
       /\ Cardinality(S \cup {x}) = Cardinality(S) + 1
  /\ \A S : \A x \in S : IsFiniteSet(S) =>
       /\ IsFiniteSet(S \ {x}) /\ Cardinality(S \ {x}) \in Nat
       /\ Cardinality(S) = Cardinality(S \ {x}) + 1

-----------------------------------------------------------------------------
\* An event that record makes is one.
LEMMA MadeEvent ==
  ASSUME NEW op \in AllOps, NEW s \in Streams, NEW k \in Nat, NEW tok \in Uint,
         NEW at \in SUBSET Ids
  PROVE  [op |-> op, stream |-> s, id |-> k, token |-> tok, at |-> at] \in EventRec
BY DEF EventRec

\* The counter of one queue goes up.
LEMMA CountUp ==
  ASSUME NEW f \in [Queues -> Nat], NEW g, NEW q \in Queues,
         g = [f EXCEPT ![q] = @ + 1]
  PROVE  /\ g \in [Queues -> Nat]
         /\ \A r \in Queues : f[r] \in Nat /\ g[r] \in Nat /\ f[r] <= g[r]
OBVIOUS

\* What a set implies, a larger one implies.
LEMMA ImpMono ==
  ASSUME NEW L, NEW D, NEW A, NEW B, NEW i, A \subseteq B, Imp(L, D, A, i)
  PROVE  Imp(L, D, B, i)
BY DEF Imp

\* A command implies itself.
LEMMA ImpSelf ==
  ASSUME NEW L, NEW D, NEW i
  PROVE  Imp(L, D, {i}, i)
BY DEF Imp

\* Putting a new command on a stream takes no implication away, and the new command
\* implies all that the front it was put behind implied.
LEMMA ImpPut ==
  ASSUME NEW L, NEW D \in [Ids -> SUBSET Ids], NEW n \in Ids, n \notin L,
         NEW F \in SUBSET Ids, NEW A, NEW i
  PROVE  /\ Imp(L, D, A, i) => Imp(L \cup {n}, [D EXCEPT ![n] = F], A, i)
         /\ Imp(L, D, F, i) => Imp(L \cup {n}, [D EXCEPT ![n] = F], {n}, i)
<1> DEFINE D2 == [D EXCEPT ![n] = F]
<1>1. \A j \in Ids : j # n => D2[j] = D[j]
  OBVIOUS
<1>2. D2[n] = F
  OBVIOUS
<1> HIDE DEF D2
<1> QED
  BY SMTT(20), <1>1, <1>2 DEF Imp

\* A closed set contains what its subsets imply.
LEMMA ImpClosed ==
  ASSUME NEW L, NEW D, NEW X \in SUBSET Ids, \A j \in X : D[j] \subseteq X,
         NEW A, NEW i, A \subseteq X, Imp(L, D, A, i)
  PROVE  i \in X
BY DEF Imp

\* A stream belongs to a pool of a queue.
LEMMA StreamPool ==
  ASSUME NEW s \in Streams
  PROVE  s[1] \in Pools /\ s[1][1] \in Queues
BY SMTT(20) DEF Streams, Pools

\* The stream that a counter selects exists.
LEMMA StreamAt ==
  ASSUME NEW p \in Pools, Size(p) # 0, NEW k \in Nat
  PROVE  <<p, k % Size(p)>> \in Streams
<1>1. Size(p) \in Nat \ {0}
  BY SizesAssumption DEF Size
<1>2. k % Size(p) \in 0 .. Size(p) - 1
  BY <1>1
<1> QED
  BY SMTT(20), <1>2 DEF Streams

\* The range that syncStreams visits is one of streams.
LEMMA SyncRangeStreams ==
  ASSUME Types, NEW p \in Pools, Size(p) # 0
  PROVE  SyncRange(p) \in SUBSET Streams
<1>1. Size(p) \in Nat \ {0}
  BY SizesAssumption DEF Size
<1>2. lastSync[p] \in Nat /\ SyncEnd(p) \in Nat
  BY SMTT(20), UintAssumption DEF Types, Uint, SyncEnd
<1>3. /\ lastSync[p] % Size(p) \in 0 .. Size(p) - 1
      /\ SyncEnd(p) % Size(p) \in 0 .. Size(p) - 1
  BY <1>1, <1>2
<1>4. \A x \in SyncRange(p) : \E i \in 0 .. Size(p) - 1 : x = <<p, i>>
  BY SMTT(20), <1>1, <1>3 DEF SyncRange
<1> QED
  BY SMTT(20), <1>4 DEF Streams

\* Every event of a wait list has an event of its stream, recorded no earlier, that
\* forLatestEvents visits.
LEMMA LatestExists ==
  ASSUME MaxFacts, Types, ReturnedKnown, NEW list \in SUBSET Returned, NEW j \in list
  PROVE  \E f \in LatestEvents(list) :
            event[f].stream = event[j].stream /\ event[j].id <= event[f].id
<1> DEFINE same == {f \in list : event[f].stream = event[j].stream}
           S == {event[f].id : f \in same}
           n == eventCount[QueueOf(j)]
<1>1. \A f \in list : f \in Ids /\ event[f].id \in Nat
  BY DEF Returned, Types, EventRec
<1>2. n \in Nat
  BY StreamPool DEF ReturnedKnown, QueueOf, Types
<1>3. \A f \in same : event[f].id <= n
  BY DEF ReturnedKnown, QueueOf
<1>4. S \in SUBSET Nat /\ (\A x \in S : x <= n) /\ event[j].id \in S
  BY <1>1, <1>3
<1> HIDE DEF n, S
<1>5. PICK m \in S : \A x \in S : x <= m
  BY <1>2, <1>4 DEF MaxFacts
<1>6. PICK f \in same : event[f].id = m
  BY <1>5 DEF S
<1>7. \A g \in same : event[g].id <= event[f].id
  BY <1>5, <1>6 DEF S
<1> QED
  BY <1>6, <1>7 DEF LatestEvents

-----------------------------------------------------------------------------
\* How a step changes what threads share.  Only the command n may be launched,
\* recorded or asked for; nothing that was implied ceases to be.
Shared(n) ==
  /\ \A A, i : Implies(A, i) => Imp(launched', deps', A, i)
  /\ \A s \in Streams, i \in Ids :
       Implies(front[s], i) => Imp(launched', deps', front'[s], i)
  /\ \A i \in Returned : event'[i] = event[i]
  /\ \A i \in Ids : i # n => /\ event'[i] = event[i]
                             /\ i \in launched' => i \in launched
                             /\ asked'[i] = asked[i]
  /\ launched \subseteq launched' /\ done \subseteq done'
  /\ calls <= calls' /\ calls' \in Nat

\* The step is one of thread t.
OnlyThread(t) ==
  \A u \in Threads \ {t} : /\ pc'[u] = pc[u] /\ call'[u] = call[u]
                           /\ got'[u] = got[u]

\* No other thread works on the command n.
NoOther(t, n) == \A u \in Threads \ {t} : Active(u) => call[u].id # n

\* A step of t that disturbs only the command n keeps what holds of the others.
LEMMA OthersKept ==
  ASSUME IInv, NEW t \in Threads, NEW n, Shared(n), OnlyThread(t), NoOther(t, n),
         NEW u \in Threads \ {t}
  PROVE  ThreadInv(u)'
<1>1. pc'[u] = pc[u] /\ call'[u] = call[u] /\ got'[u] = got[u]
  BY DEF OnlyThread
<1>2. Fresh(u)' = Fresh(u) /\ WithStream(u)' = WithStream(u) /\ Active(u)' = Active(u)
  BY <1>1 DEF Fresh, WithStream, Active
<1>3. Returned \subseteq Returned'
  BY DEF Returned, Shared
<1>4. calls \in Nat /\ 1 .. calls \subseteq Ids
  BY SMTT(20), BoundAssumption DEF IInv, Types, Ids
<1>5. ThreadInv(u)
  BY DEF IInv
<1>6. Active(u) => call[u].id # n /\ call[u].id \in Ids
  BY <1>4, <1>5 DEF NoOther, ThreadInv
<1>7. ASSUME Active(u)
      PROVE  /\ call[u].id \in 1 .. calls'
             /\ event'[call[u].id] = NoEvent
             /\ asked'[call[u].id] = asked[call[u].id]
             /\ call[u].id \in launched' => call[u].id \in launched
  BY SMTT(20), <1>4, <1>5, <1>6, <1>7 DEF ThreadInv, Shared
<1>8. \A j \in call[u].list : call[u].list \subseteq Returned => j \in Ids
  BY DEF Returned
<1>9. \A i \in Ids : got[u].stream \in Streams /\ Implies(front[got[u].stream], i) =>
          Imp(launched', deps', front'[got[u].stream], i)
  BY DEF Shared
<1>10. \A i \in Returned : event'[i] = event[i]
  BY DEF Shared
<1>11. launched \subseteq launched' /\ done \subseteq done'
  BY DEF Shared
<1>12. /\ Active(u)' => /\ call'[u].id \in 1 .. calls'
                        /\ call'[u].op \in EnqueueOps
                        /\ call'[u].q \in Queues
                        /\ call'[u].list \subseteq Returned'
                        /\ event'[call'[u].id] = NoEvent
       /\ Fresh(u)' => /\ call'[u].id \notin launched'
                       /\ asked'[call'[u].id].op = call'[u].op
                       /\ asked'[call'[u].id].list = call'[u].list
  BY <1>1, <1>2, <1>3, <1>5, <1>7 DEF ThreadInv, Active
<1>13. /\ pc[u] = "launch" /\ call[u].op \in WaitingOps =>
           \A j \in call[u].list : Imp(launched', deps', front'[got[u].stream], j)
       /\ pc[u] = "record" =>
            /\ call[u].id \in launched'
            /\ Imp(launched', deps', front'[got[u].stream], call[u].id)
  BY <1>5, <1>6, <1>8, <1>9, <1>11 DEF ThreadInv, Active, Fresh, WithStream
<1> QED
  BY SMTT(20), <1>1, <1>2, <1>3, <1>5, <1>10, <1>11, <1>12, <1>13 DEF ThreadInv, Implies

\* What is left to show of a step of t that disturbs only the command n.
LEMMA StepKeeps ==
  ASSUME IInv, NEW t \in Threads, NEW n, Shared(n), OnlyThread(t), NoOther(t, n),
         Types', Global', ThreadInv(t)', Active(t)' => NoOther(t, call'[t].id)
  PROVE  IInv'
<1>1. \A u \in Threads : ThreadInv(u)'
  BY OthersKept
<1>2. ASSUME NEW u \in Threads, NEW v \in Threads, u # v, Active(u)', Active(v)'
      PROVE  call'[u].id # call'[v].id
  <2>1. \A w \in Threads \ {t} : /\ call'[w] = call[w]
                                 /\ Active(w)' = Active(w)
    BY DEF OnlyThread, Active, Fresh
  <2> QED
    BY <1>2, <2>1 DEF IInv, DistinctIds, NoOther
<1> QED
  BY <1>1, <1>2 DEF IInv, DistinctIds

\* The command of a thread that works on one.
LEMMA ActiveId ==
  ASSUME IInv, NEW t \in Threads, Active(t)
  PROVE  call[t].id \in 1 .. calls /\ call[t].id \in Ids
<1>1. 1 .. calls \subseteq Ids
  BY SMTT(20), BoundAssumption DEF IInv, Types, Ids
<1>2. call[t].id \in 1 .. calls
  BY DEF IInv, ThreadInv
<1> QED
  BY <1>1, <1>2

\* No thread works on command 0.
LEMMA NoOtherZero ==
  ASSUME IInv, NEW t \in Threads
  PROVE  NoOther(t, 0)
<1>1. \A u \in Threads : Active(u) => call[u].id \in 1 .. calls
  BY ActiveId
<1>2. calls \in Nat
  BY SMTT(20) DEF IInv, Types
<1> QED
  BY <1>1, <1>2 DEF NoOther

\* A step of t that touches neither the device, the events nor the commands.
LEMMA QuietStep ==
  ASSUME IInv, NEW t \in Threads, UNCHANGED <<events, device, asked, calls>>,
         OnlyThread(t), Types', ThreadInv(t)',
         Active(t)' => Active(t) /\ call'[t].id = call[t].id
  PROVE  IInv'
<1>1. Shared(0)
  BY SMTT(20) DEF Shared, events, device, Implies, IInv, Types
<1>2. NoOther(t, 0)
  BY NoOtherZero
<1>3. Global'
  BY DEF IInv, Global, ReturnedKnown, DoneClosed, FrontImplies, EventImplies,
         DepsImplyList, Returned, QueueOf, Implies, events, device
<1>4. Active(t)' => NoOther(t, call'[t].id)
  BY DEF NoOther, IInv, DistinctIds
<1> QED
  BY <1>1, <1>2, <1>3, <1>4, StepKeeps

-----------------------------------------------------------------------------
\* The actions that only move a thread on and change indices, flags or mutexes.

LEMMA MoveStep ==
  ASSUME IInv, NEW t \in Threads, NEW l \in Labels, Goto(t, l),
         UNCHANGED <<events, device, callVars, barrierEvent, got>>,
         index' \in [Pools -> Uint], lastSync' \in [Pools -> Uint],
         created' \in [Pools -> Nat],
         ThreadInv(t)', Active(t)' => Active(t)
  PROVE  IInv'
<1>1. OnlyThread(t)
  BY DEF OnlyThread, Goto, IInv, Types, callVars
<1>2. pc' \in [Threads -> Labels]
  BY DEF Goto, IInv, Types
<1>3. Types'
  BY <1>2 DEF IInv, Types, events, device, callVars
<1>4. call'[t].id = call[t].id /\ UNCHANGED <<events, device, asked, calls>>
  BY DEF callVars
<1> QED
  BY <1>1, <1>3, <1>4, QuietStep

\* The pool a call takes its stream from has streams.
LEMMA PoolOfCall ==
  ASSUME NEW c, c.q \in Queues
  PROVE  PoolOf(c) \in Pools /\ Size(PoolOf(c)) # 0 /\ PoolOf(c)[1] = c.q
BY SizesAssumption DEF PoolOf, Pools, Size

\* The actions that change neither the device nor the events keep the invariant.
LEMMA QuietActionsKeep ==
  \A t \in Threads :
    /\ MaxFacts /\ IInv
    /\ \/ NoReuse(t) \/ CreateStream(t) \/ MarkApplied(t) \/ StreamWait(t) \/ LockBarrier(t)
       \/ LockSync(t) \/ LockPool(t) \/ SyncStream(t) \/ SyncedCompute(t)
       \/ FinishLockTransfer(t) \/ SyncedTransfer(t) \/ EventWait(t)
    => IInv'
\* SyncEnd is the value of an unsigned counter.
<1>SyncEndUint.
    ASSUME Types, NEW p \in Pools
    PROVE  SyncEnd(p) \in Uint
  <2> USE <1>SyncEndUint
  <2>1. Size(p) \in Nat /\ Size(p) < UintMod /\ UintMod \in Nat
    BY SizesAssumption, UintAssumption DEF Size
  <2>2. created[p] \in Nat /\ index[p] \in Uint
    BY DEF Types
  <2> QED
    BY <2>1, <2>2 DEF SyncEnd, Uint
<1>NoReuseKeeps.
    ASSUME IInv, NEW t \in Threads, NoReuse(t)
    PROVE  IInv'
  <2> USE <1>NoReuseKeeps
  <2>1. pc[t] = "select" /\ pc'[t] = "create" /\ ThreadInv(t)
    BY DEF NoReuse, Goto, IInv, Types
  <2>2. ThreadInv(t)' /\ Active(t)
    BY <2>1 DEF NoReuse, ThreadInv, Fresh, WithStream, Active, Implies, Returned,
                BarrierLabels, events, device, callVars
  <2> QED
    BY <2>2, MoveStep DEF NoReuse, IInv, Types, Labels, indices, barrierVars
<1>CreateStreamKeeps.
    ASSUME IInv, NEW t \in Threads, CreateStream(t)
    PROVE  IInv'
  <2> USE <1>CreateStreamKeeps
  <2>1. pc[t] = "create" /\ pc'[t] = "take" /\ ThreadInv(t)
    BY DEF CreateStream, Goto, IInv, Types
  <2>2. ThreadInv(t)' /\ Active(t)
    BY <2>1 DEF CreateStream, ThreadInv, Fresh, WithStream, Active, Implies, Returned,
                BarrierLabels, events, device, callVars
  <2>3. created' \in [Pools -> Nat]
    <3>1. created \in [Pools -> Nat]
      BY DEF IInv, Types
    <3> QED
      BY SMTT(20), <3>1 DEF CreateStream
  <2> QED
    BY <2>2, <2>3, MoveStep DEF CreateStream, IInv, Types, Labels, barrierVars
<1>MarkAppliedKeeps.
    ASSUME IInv, NEW t \in Threads, MarkApplied(t)
    PROVE  IInv'
  <2> USE <1>MarkAppliedKeeps
  <2> DEFINE l == AfterStream(call[t].op)
  <2>1. pc[t] = "applied" /\ pc'[t] = l /\ ThreadInv(t)
    BY DEF MarkApplied, Goto, IInv, Types
  <2>2. Active(t) /\ call[t].op \in EnqueueOps
    BY <2>1 DEF ThreadInv, Active, Fresh
  <2>3. /\ l \in {"waits", "launch", "lockBarrier", "return"}
        /\ l = "waits" <=> call[t].op \in WaitingOps
        /\ l = "launch" <=> call[t].op = "native"
        /\ l = "lockBarrier" <=> call[t].op = "barrier"
        /\ l = "return" <=> call[t].op = "handle"
    BY <2>2 DEF EnqueueOps, AfterStream, WaitingOps, Selecting, Transfers
  <2> HIDE DEF l
  <2>4. ThreadInv(t)'
    BY <2>1, <2>2, <2>3 DEF MarkApplied, ThreadInv, Fresh, WithStream, Active, Implies,
                Returned, BarrierLabels, events, device, callVars, WaitingOps, Transfers
  <2>5. Goto(t, l) /\ l \in Labels
    BY <2>3 DEF MarkApplied, Labels, l
  <2> QED
    BY <2>2, <2>4, <2>5, MoveStep DEF MarkApplied, IInv, Types, indices
<1>StreamWaitKeeps.
    ASSUME IInv, NEW t \in Threads, StreamWait(t)
    PROVE  IInv'
  <2> USE <1>StreamWaitKeeps
  <2>1. pc[t] = "streamWait" /\ pc'[t] = "return" /\ ThreadInv(t)
    BY DEF StreamWait, Goto, IInv, Types
  <2>2. call[t].id \in done
    <3>1. Implies(front[got[t].stream], call[t].id)
      BY <2>1 DEF ThreadInv, IInv, Global, FrontImplies
    <3>2. done \in SUBSET Ids /\ \A j \in done : deps[j] \subseteq done
      BY DEF IInv, Types, Global, DoneClosed
    <3> QED
      BY <3>1, <3>2, ImpClosed DEF StreamWait, Implies
  <2>3. call[t].op = "read"
    BY <2>1 DEF ThreadInv
  <2>4. ThreadInv(t)' /\ ~Active(t)'
    BY <2>1, <2>2, <2>3 DEF StreamWait, ThreadInv, Fresh, WithStream, Active, Implies,
                Returned, BarrierLabels, events, device, callVars
  <2> QED
    BY <2>4, MoveStep DEF StreamWait, IInv, Types, Labels, indices, barrierVars
<1>LockBarrierKeeps.
    ASSUME IInv, NEW t \in Threads, LockBarrier(t)
    PROVE  IInv'
  <2> USE <1>LockBarrierKeeps
  <2> DEFINE l == IF call[t].list = {} THEN "lockSync" ELSE "barrierEvents"
  <2>1. pc[t] = "lockBarrier" /\ pc'[t] = l /\ ThreadInv(t)
    BY DEF LockBarrier, Goto, IInv, Types
  <2>2. ThreadInv(t)' /\ Active(t)
    BY <2>1 DEF LockBarrier, ThreadInv, Fresh, WithStream, Active, Implies, Returned,
                BarrierLabels, events, device, callVars
  <2> QED
    BY <2>2, MoveStep DEF LockBarrier, IInv, Types, Labels, indices, barrierVars
<1>LockSyncKeeps.
    ASSUME IInv, NEW t \in Threads, LockSync(t)
    PROVE  IInv'
  <2> USE <1>LockSyncKeeps
  <2>1. pc[t] = "lockSync" /\ pc'[t] = "lockPool" /\ ThreadInv(t)
    BY DEF LockSync, Goto, IInv, Types
  <2>2. ThreadInv(t)' /\ (Active(t)' => Active(t))
    BY <2>1 DEF LockSync, ThreadInv, Fresh, WithStream, Active, Implies, Returned,
                BarrierLabels, events, device, callVars
  <2> QED
    BY <2>2, MoveStep DEF LockSync, IInv, Types, Labels, indices, barrierVars
<1>LockPoolKeeps.
    ASSUME IInv, NEW t \in Threads, LockPool(t)
    PROVE  IInv'
  <2> USE <1>LockPoolKeeps
  <2> DEFINE p == <<call[t].q, "compute">>
             l == IF call[t].op = "finish" THEN "syncCompute" ELSE "barrierCompute"
  <2>1. pc[t] = "lockPool" /\ pc'[t] = l /\ ThreadInv(t) /\ Goto(t, l)
    BY DEF LockPool, Goto, IInv, Types
  <2>2. ThreadInv(t)' /\ (Active(t)' => Active(t))
    BY <2>1 DEF LockPool, ThreadInv, Fresh, WithStream, Active, Implies, Returned,
                BarrierLabels, events, device, callVars
  <2>3. p \in Pools => SyncEnd(p) \in Uint
    BY <1>SyncEndUint DEF IInv
  <2>4. lastSync' \in [Pools -> Uint]
    BY <2>3 DEF LockPool, IInv, Types
  <2> QED
    BY <2>1, <2>2, <2>4, MoveStep DEF LockPool, IInv, Types, Labels, barrierVars
<1>SyncStreamKeeps.
    ASSUME IInv, NEW t \in Threads, SyncStream(t)
    PROVE  IInv'
  <2> USE <1>SyncStreamKeeps
  <2>1. ThreadInv(t) /\ pc' = pc /\ pc \in [Threads -> Labels]
    BY DEF SyncStream, IInv, Types
  <2>2. Goto(t, pc[t])
    BY <2>1 DEF Goto
  <2>3. ThreadInv(t)' /\ (Active(t)' => Active(t))
    BY <2>1 DEF SyncStream, ThreadInv, Fresh, WithStream, Active, Implies, Returned,
                BarrierLabels, events, device, callVars
  <2> QED
    BY <2>1, <2>2, <2>3, MoveStep DEF SyncStream, IInv, Types, barrierVars
<1>SyncedComputeKeeps.
    ASSUME IInv, NEW t \in Threads, SyncedCompute(t)
    PROVE  IInv'
  <2> USE <1>SyncedComputeKeeps
  <2> DEFINE l == IF TransferStreams = 0 THEN "return" ELSE "lockTransfer"
  <2>1. pc[t] = "syncCompute" /\ pc'[t] = l /\ ThreadInv(t)
    BY DEF SyncedCompute, Goto, IInv, Types
  <2>2. ThreadInv(t)' /\ (Active(t)' => Active(t))
    BY <2>1 DEF SyncedCompute, ThreadInv, Fresh, WithStream, Active, Implies, Returned,
                BarrierLabels, events, device, callVars
  <2> QED
    BY <2>2, MoveStep DEF SyncedCompute, IInv, Types, Labels, indices, barrierVars
<1>FinishLockTransferKeeps.
    ASSUME IInv, NEW t \in Threads, FinishLockTransfer(t)
    PROVE  IInv'
  <2> USE <1>FinishLockTransferKeeps
  <2> DEFINE p == <<call[t].q, "transfer">>
  <2>1. pc[t] = "lockTransfer" /\ pc'[t] = "syncTransfer" /\ ThreadInv(t)
    BY DEF FinishLockTransfer, Goto, IInv, Types
  <2>2. ThreadInv(t)' /\ (Active(t)' => Active(t))
    BY <2>1 DEF FinishLockTransfer, ThreadInv, Fresh, WithStream, Active, Implies,
                Returned, BarrierLabels, events, device, callVars
  <2>3. p \in Pools => SyncEnd(p) \in Uint
    BY <1>SyncEndUint DEF IInv
  <2>4. lastSync' \in [Pools -> Uint]
    BY <2>3 DEF FinishLockTransfer, IInv, Types
  <2> QED
    BY <2>2, <2>4, MoveStep DEF FinishLockTransfer, IInv, Types, Labels, barrierVars
<1>SyncedTransferKeeps.
    ASSUME IInv, NEW t \in Threads, SyncedTransfer(t)
    PROVE  IInv'
  <2> USE <1>SyncedTransferKeeps
  <2>1. pc[t] = "syncTransfer" /\ pc'[t] = "return" /\ ThreadInv(t)
    BY DEF SyncedTransfer, Goto, IInv, Types
  <2>2. ThreadInv(t)' /\ (Active(t)' => Active(t))
    BY <2>1 DEF SyncedTransfer, ThreadInv, Fresh, WithStream, Active, Implies, Returned,
                BarrierLabels, events, device, callVars
  <2> QED
    BY <2>2, MoveStep DEF SyncedTransfer, IInv, Types, Labels, indices, barrierVars
\* The latest events of a list are done: so are all its commands.
<1>LatestDone.
    ASSUME MaxFacts, IInv, NEW list \in SUBSET Returned,
           \A e \in LatestEvents(list) : event[e].at \subseteq done
    PROVE  list \subseteq done
  <2> USE <1>LatestDone
  <2> SUFFICES ASSUME NEW j \in list
               PROVE  j \in done
    OBVIOUS
  <2>1. PICK f \in LatestEvents(list) :
           event[f].stream = event[j].stream /\ event[j].id <= event[f].id
    BY LatestExists DEF IInv, Global
  <2>2. Implies(event[f].at, j)
    BY <2>1 DEF IInv, Global, EventImplies, LatestEvents
  <2>3. done \in SUBSET Ids /\ \A i \in done : deps[i] \subseteq done
    BY DEF IInv, Types, Global, DoneClosed
  <2> QED
    BY <2>2, <2>3, ImpClosed DEF Implies
<1>EventWaitKeeps.
    ASSUME MaxFacts, IInv, NEW t \in Threads, EventWait(t)
    PROVE  IInv'
  <2> USE <1>EventWaitKeeps
  <2>1. pc[t] = "eventWait" /\ pc'[t] = "return" /\ ThreadInv(t)
    BY DEF EventWait, Goto, IInv, Types
  <2>2. call[t].op = "wait" /\ call[t].list \in SUBSET Returned
    BY <2>1 DEF ThreadInv
  <2>3. call[t].list \subseteq done
    BY <2>2, <1>LatestDone DEF EventWait
  <2>4. ThreadInv(t)' /\ (Active(t)' => Active(t))
    BY <2>1, <2>2, <2>3 DEF EventWait, ThreadInv, Fresh, WithStream, Active, Implies,
                Returned, BarrierLabels, events, device, callVars
  <2> QED
    BY <2>4, MoveStep DEF EventWait, IInv, Types, Labels, indices, barrierVars
<1> QED
  BY <1>NoReuseKeeps, <1>CreateStreamKeeps, <1>MarkAppliedKeeps, <1>StreamWaitKeeps,
     <1>LockBarrierKeeps, <1>LockSyncKeeps, <1>LockPoolKeeps, <1>SyncStreamKeeps,
     <1>SyncedComputeKeeps, <1>FinishLockTransferKeeps, <1>SyncedTransferKeeps, <1>EventWaitKeeps

LEMMA ReturnKeeps ==
  ASSUME IInv, NEW t \in Threads, Return(t)
  PROVE  IInv'
<1>1. pc'[t] = "idle"
  BY DEF Return, Goto, IInv, Types
<1>2. ThreadInv(t)' /\ ~Active(t)'
  BY <1>1 DEF ThreadInv, Fresh, WithStream, Active
<1>3. NoCall \in CallRec
  BY BoundAssumption DEF NoCall, CallRec
<1>4. NotGot \in GotRec
  BY UintAssumption, SizesAssumption DEF NotGot, GotRec, Uint, NoToken
<1> HIDE DEF CallRec, GotRec
<1>5. /\ pc' \in [Threads -> Labels] /\ call' \in [Threads -> CallRec]
      /\ got' \in [Threads -> GotRec]
  BY <1>3, <1>4 DEF Return, Goto, IInv, Types, Labels
<1>6. Types'
  BY <1>5 DEF Return, IInv, Types, indices, barrierVars, events, device
<1>7. OnlyThread(t)
  BY DEF OnlyThread, Return, Goto, IInv, Types
<1>8. UNCHANGED <<events, device, asked, calls>>
  BY DEF Return
<1> QED
  BY <1>2, <1>6, <1>7, <1>8, QuietStep

\* So do the two that give the call its stream, ...
LEMMA GotActionsKeep ==
  \A t \in Threads : IInv /\ (ReuseStream(t) \/ TakeStream(t)) => IInv'
\* A step of t that gives it a stream of its queue.
<1>GotStep.
    ASSUME IInv, NEW t \in Threads, pc[t] \in {"select", "take"}, Goto(t, "apply"),
           NEW s \in Streams, s[1][1] = call[t].q, NEW tok \in Uint,
           got' = [got EXCEPT ![t] = [stream |-> s, token |-> tok]],
           UNCHANGED <<events, device, callVars, barrierEvent, lastSync, created>>,
           index' \in [Pools -> Uint]
    PROVE  IInv'
  <2> USE <1>GotStep
  <2>1. pc'[t] = "apply" /\ ThreadInv(t) /\ got'[t].stream = s
    BY DEF Goto, IInv, Types
  <2>2. ThreadInv(t)' /\ Active(t)
    BY <2>1 DEF ThreadInv, Fresh, WithStream, Active, Implies, Returned, BarrierLabels,
                events, device, callVars
  <2>3. [stream |-> s, token |-> tok] \in GotRec
    BY DEF GotRec
  <2>4. got' \in [Threads -> GotRec] /\ pc' \in [Threads -> Labels]
    BY <2>3 DEF Goto, IInv, Types, Labels
  <2>5. Types'
    BY <2>4 DEF IInv, Types, events, device, callVars
  <2>6. OnlyThread(t)
    BY DEF OnlyThread, Goto, IInv, Types, callVars
  <2>7. UNCHANGED <<events, device, asked, calls>> /\ call'[t].id = call[t].id
    BY DEF callVars
  <2> QED
    BY <2>2, <2>5, <2>6, <2>7, QuietStep
<1>ReuseStreamKeeps.
    ASSUME IInv, NEW t \in Threads, ReuseStream(t)
    PROVE  IInv'
  <2> USE <1>ReuseStreamKeeps
  <2>1. PICK e \in Reusable(call[t].q, call[t].list) :
           got' = [got EXCEPT ![t] = [stream |-> event[e].stream,
                                      token |-> event[e].token]]
    BY DEF ReuseStream
  <2>2. pc[t] = "select" /\ Goto(t, "apply")
    BY DEF ReuseStream
  <2>3. call[t].list \subseteq Returned
    BY <2>2 DEF IInv, ThreadInv, Active, Fresh
  <2>4. e \in Returned /\ event[e].stream[1][1] = call[t].q
    BY <2>1, <2>3 DEF Reusable, QueueOf
  <2>5. event[e].stream \in Streams /\ event[e].token \in Uint
    <3>1. event[e] \in EventRec
      BY <2>4 DEF IInv, Types, Returned
    <3>2. event[e].token \in Uint
      BY <3>1 DEF EventRec
    <3> QED
      BY <2>4, <3>2 DEF IInv, Global, ReturnedKnown
  <2>6. /\ UNCHANGED <<events, device, callVars, barrierEvent, lastSync, created>>
        /\ index' \in [Pools -> Uint]
    BY DEF ReuseStream, barrierVars, IInv, Types
  <2> QED
    BY <2>1, <2>2, <2>4, <2>5, <2>6, <1>GotStep
<1>TakeStreamKeeps.
    ASSUME IInv, NEW t \in Threads, TakeStream(t)
    PROVE  IInv'
  <2> USE <1>TakeStreamKeeps
  <2> DEFINE p == PoolOf(call[t])
             s == <<p, index[p] % Size(p)>>
  <2>1. pc[t] = "take" /\ ThreadInv(t)
    BY DEF TakeStream, IInv
  <2>2. Active(t) /\ call[t].q \in Queues
    BY <2>1 DEF ThreadInv, Active, Fresh
  <2>3. p \in Pools /\ Size(p) # 0 /\ p[1] = call[t].q
    BY <2>2, PoolOfCall
  <2>4. index[p] \in Uint /\ index[p] \in Nat /\ UintMod \in Nat \ {0}
    BY SMTT(20), <2>3, UintAssumption, SizesAssumption DEF IInv, Types, Uint
  <2>5. s \in Streams
    BY <2>3, <2>4, StreamAt
  <2>6. (index[p] + 1) % UintMod \in Uint
    BY <2>4 DEF Uint
  <2> HIDE DEF p
  <2>7. index' = [index EXCEPT ![p] = (index[p] + 1) % UintMod]
    BY DEF TakeStream, p
  <2>8. index' \in [Pools -> Uint]
    BY <2>6, <2>7 DEF IInv, Types
  <2>9. UNCHANGED <<events, device, callVars, barrierEvent, lastSync, created>>
    BY DEF TakeStream, barrierVars
  <2>10. CASE delay[s]
    <3>1. Goto(t, "create") /\ got' = got
      BY <2>10 DEF TakeStream, p
    <3>2. pc'[t] = "create"
      BY <3>1 DEF Goto, IInv, Types
    <3>3. ThreadInv(t)'
      BY <2>1, <2>9, <3>1, <3>2 DEF ThreadInv, Fresh, WithStream, Active, Implies,
                Returned, BarrierLabels, events, device, callVars
    <3> QED
      BY <2>2, <2>8, <2>9, <3>1, <3>3, MoveStep DEF Labels, IInv, Types
  <2>11. CASE ~delay[s]
    <3>1. /\ Goto(t, "apply")
          /\ got' = [got EXCEPT ![t] = [stream |-> s, token |-> index[p]]]
      BY <2>11 DEF TakeStream, p
    <3>2. s[1][1] = call[t].q
      BY <2>3
    <3> HIDE DEF s
    <3> QED
      BY <2>1, <2>4, <2>5, <2>8, <2>9, <3>1, <3>2, <1>GotStep
  <2> QED
    BY <2>10, <2>11
<1> QED
  BY <1>ReuseStreamKeeps, <1>TakeStreamKeeps

-----------------------------------------------------------------------------
\* The actions that make the stream of the call wait.

\* ... those that make the stream wait ...
LEMMA FrontActionsKeep ==
  \A t \in Threads :
    /\ MaxFacts /\ IInv
    /\ \/ ApplyBarrier(t) \/ EnqueueEventsWait(t) \/ BarrierCompute(t)
       \/ BarrierTransfer(t) \/ BarrierEvents(t)
    => IInv'
\* A step of t that makes stream s wait for the commands W.
<1>FrontStep.
    ASSUME IInv, NEW t \in Threads, NEW s \in Streams, NEW W \in SUBSET Ids,
           front' = [front EXCEPT ![s] = @ \cup W],
           UNCHANGED <<events, deps, launched, done, asked, calls>>,
           OnlyThread(t), Types', ThreadInv(t)',
           Active(t)' => Active(t) /\ call'[t].id = call[t].id
    PROVE  IInv'
  <2> USE <1>FrontStep
  <2>1. \A u \in Streams : front[u] \subseteq front'[u]
    BY DEF IInv, Types
  <2>2. \A u \in Streams : \A i : Implies(front[u], i) => Imp(launched', deps', front'[u], i)
    BY <2>1, ImpMono DEF Implies
  <2>3. Shared(0)
    <3>1. calls \in Nat
      BY SMTT(20) DEF IInv, Types
    <3>2. \A A, i : Implies(A, i) => Imp(launched', deps', A, i)
      BY DEF Implies
    <3> QED
      BY <2>2, <3>1, <3>2 DEF Shared, events
  <2>4. NoOther(t, 0)
    BY NoOtherZero
  <2>5. Global'
    BY <2>2 DEF IInv, Global, ReturnedKnown, DoneClosed, FrontImplies, EventImplies,
           DepsImplyList, Returned, QueueOf, Implies, events
  <2>6. Active(t)' => NoOther(t, call'[t].id)
    BY DEF NoOther, IInv, DistinctIds
  <2> QED
    BY <2>3, <2>4, <2>5, <2>6, StepKeeps
<1>FrontMove.
    ASSUME IInv, NEW t \in Threads, NEW l \in Labels, Goto(t, l), WithStream(t),
           NEW W \in SUBSET Ids,
           front' = [front EXCEPT ![got[t].stream] = @ \cup W],
           UNCHANGED <<events, deps, launched, done, callVars, barrierEvent, got,
                       index, lastSync, created>>,
           ThreadInv(t)', Active(t)' => Active(t)
    PROVE  IInv'
  <2> USE <1>FrontMove
  <2>1. got[t].stream \in Streams
    BY DEF IInv, ThreadInv
  <2>2. OnlyThread(t)
    BY DEF OnlyThread, Goto, IInv, Types, callVars
  <2>3. pc' \in [Threads -> Labels] /\ front' \in [Streams -> SUBSET Ids]
    BY <2>1 DEF Goto, IInv, Types
  <2>4. Types'
    BY <2>3 DEF IInv, Types, events, callVars
  <2>5. /\ call'[t].id = call[t].id
        /\ UNCHANGED <<events, deps, launched, done, asked, calls>>
    BY DEF callVars
  <2> QED
    BY <2>1, <2>2, <2>4, <2>5, <1>FrontStep
<1>ApplyBarrierKeeps.
    ASSUME IInv, NEW t \in Threads, ApplyBarrier(t)
    PROVE  IInv'
  <2> USE <1>ApplyBarrierKeeps
  <2> DEFINE l == AfterStream(call[t].op)
             W == barrierEvent[call[t].q].at
  <2>1. pc[t] = "apply" /\ ThreadInv(t)
    BY DEF ApplyBarrier, IInv
  <2>2. Active(t) /\ WithStream(t) /\ call[t].op \in EnqueueOps /\ call[t].q \in Queues
    BY <2>1 DEF ThreadInv, Active, Fresh, WithStream
  <2>3. /\ l \in {"waits", "launch", "lockBarrier", "return"}
        /\ l = "waits" <=> call[t].op \in WaitingOps
        /\ l = "launch" <=> call[t].op = "native"
        /\ l = "lockBarrier" <=> call[t].op = "barrier"
        /\ l = "return" <=> call[t].op = "handle"
    BY <2>2 DEF EnqueueOps, AfterStream, WaitingOps, Selecting, Transfers
  <2>4. W \in SUBSET Ids
    BY <2>2 DEF IInv, Types
  <2>5. UNCHANGED <<events, deps, launched, done, callVars, barrierEvent, got,
                    index, lastSync, created>>
    BY DEF ApplyBarrier, barrierVars, indices
  <2> HIDE DEF l, W
  <2>6. CASE barrierEvent[call[t].q].made /\ ~applied[got[t].stream]
    <3>1. /\ front' = [front EXCEPT ![got[t].stream] = @ \cup W]
          /\ Goto(t, "applied")
      BY <2>6 DEF ApplyBarrier, W
    <3>2. pc'[t] = "applied"
      BY <3>1 DEF Goto, IInv, Types
    <3>3. ThreadInv(t)'
      BY <2>1, <2>5, <3>2 DEF ThreadInv, Fresh, WithStream, Active, Returned,
                BarrierLabels, events, callVars
    <3> QED
      BY <2>2, <2>4, <2>5, <3>1, <3>3, <1>FrontMove DEF Labels
  <2>7. CASE ~(barrierEvent[call[t].q].made /\ ~applied[got[t].stream])
    <3>1. front' = front /\ Goto(t, l)
      BY <2>7 DEF ApplyBarrier, l
    <3>2. pc'[t] = l /\ l \in Labels
      BY <2>3, <3>1 DEF Goto, IInv, Types, Labels
    <3>3. ThreadInv(t)'
      BY <2>1, <2>2, <2>3, <2>5, <3>1, <3>2 DEF ThreadInv, Fresh, WithStream, Active,
                Returned, BarrierLabels, events, callVars, WaitingOps, Transfers
    <3>4. UNCHANGED device
      BY <2>5, <3>1 DEF device
    <3> QED
      BY <2>2, <2>5, <3>1, <3>2, <3>3, <3>4, MoveStep DEF IInv, Types
  <2> QED
    BY <2>6, <2>7
<1>EnqueueEventsWaitKeeps.
    ASSUME MaxFacts, IInv, NEW t \in Threads, EnqueueEventsWait(t)
    PROVE  IInv'
  <2> USE <1>EnqueueEventsWaitKeeps
  <2> DEFINE s == got[t].stream
             list == call[t].list
             other == {f \in LatestEvents(list) : event[f].stream # s}
             W == UNION {event[e].at : e \in other}
  <2>1. pc[t] = "waits" /\ ThreadInv(t) /\ Goto(t, "launch")
    BY DEF EnqueueEventsWait, IInv
  <2>2. Active(t) /\ WithStream(t) /\ list \in SUBSET Returned /\ s \in Streams
    BY <2>1 DEF ThreadInv, Active, Fresh, WithStream
  <2>3. \A e \in other : e \in list /\ e \in Ids /\ event[e].at \in SUBSET Ids
    BY <2>2 DEF LatestEvents, Returned, IInv, Types, EventRec
  <2>4. W \in SUBSET Ids
    BY <2>3
  <2>5. /\ UNCHANGED <<events, deps, launched, done, callVars, barrierEvent, got,
                       index, lastSync, created>>
        /\ front' = [front EXCEPT ![s] = @ \cup W]
    BY DEF EnqueueEventsWait, barrierVars, indices
  <2>6. front'[s] = front[s] \cup W
    BY <2>2, <2>5 DEF IInv, Types
  <2>7. ASSUME NEW j \in list
        PROVE  Imp(launched', deps', front'[s], j)
    <3>1. PICK f \in LatestEvents(list) :
             event[f].stream = event[j].stream /\ event[j].id <= event[f].id
      BY <2>2, LatestExists DEF IInv, Global
    <3>2. f \in Returned /\ j \in Returned
      BY <2>2, <3>1 DEF LatestEvents
    <3>3. CASE event[f].stream = s
      <4>1. Imp(launched, deps, front[s], j)
        BY <3>1, <3>2, <3>3 DEF IInv, Global, FrontImplies, Implies
      <4> QED
        BY <2>5, <2>6, <4>1, ImpMono
    <3>4. CASE event[f].stream # s
      <4>1. Imp(launched, deps, event[f].at, j)
        BY <3>1, <3>2 DEF IInv, Global, EventImplies, Implies
      <4>2. event[f].at \subseteq front'[s]
        BY <2>6, <3>1, <3>4
      <4> QED
        BY <2>5, <4>1, <4>2, ImpMono
    <3> QED
      BY <3>3, <3>4
  <2>8. pc'[t] = "launch"
    BY <2>1 DEF Goto, IInv, Types
  <2> HIDE DEF W, other
  <2>9. ThreadInv(t)'
    BY <2>1, <2>5, <2>7, <2>8 DEF ThreadInv, Fresh, WithStream, Active, Returned,
                Implies, BarrierLabels, events, callVars
  <2> QED
    BY <2>1, <2>2, <2>4, <2>5, <2>9, <1>FrontMove DEF Labels
\* The same for the steps of a barrier, whose place in the proof does not depend on
\* what the stream waits for.
<1>BarrierMove.
    ASSUME IInv, NEW t \in Threads,
           pc[t] \in {"barrierCompute", "barrierTransfer", "barrierEvents"},
           NEW l \in {"barrierTransfer", "barrierRecord"}, Goto(t, l),
           NEW W \in SUBSET Ids,
           front' = [front EXCEPT ![got[t].stream] = @ \cup W],
           UNCHANGED <<events, deps, launched, done, callVars, barrierEvent, got,
                       index, lastSync, created>>
    PROVE  IInv'
  <2> USE <1>BarrierMove
  <2>1. pc'[t] = l /\ ThreadInv(t) /\ l \in Labels
    BY DEF Goto, IInv, Types, Labels
  <2>2. WithStream(t) /\ Active(t)
    BY DEF WithStream, Fresh, Active
  <2>3. ThreadInv(t)'
    BY <2>1 DEF ThreadInv, Fresh, WithStream, Active, Returned, BarrierLabels, events,
                callVars
  <2> QED
    BY <2>1, <2>2, <2>3, <1>FrontMove
\* The commands WaitForStreams waits for.
<1>FrontsOfStreams.
    ASSUME IInv, NEW ss \in SUBSET Streams, NEW s
    PROVE  UNION {front[u] : u \in ss \ {s}} \in SUBSET Ids
  <2> USE <1>FrontsOfStreams
  <2>1. front \in [Streams -> SUBSET Ids]
    BY DEF IInv, Types
  <2>2. \A u \in ss \ {s} : front[u] \in SUBSET Ids
    BY <2>1
  <2> QED
    BY <2>2
<1>BarrierComputeKeeps.
    ASSUME IInv, NEW t \in Threads, BarrierCompute(t)
    PROVE  IInv'
  <2> USE <1>BarrierComputeKeeps
  <2> DEFINE p == <<call[t].q, "compute">>
             W == UNION {front[u] : u \in SyncRange(p) \ {got[t].stream}}
  <2>1. pc[t] = "barrierCompute" /\ Goto(t, "barrierTransfer")
    BY DEF BarrierCompute
  <2>2. p \in Pools /\ Size(p) # 0
    BY <2>1, SizesAssumption DEF IInv, ThreadInv, Active, Fresh, Pools, Size
  <2>3. W \in SUBSET Ids
    BY <2>2, SyncRangeStreams, <1>FrontsOfStreams DEF IInv
  <2>4. /\ front' = [front EXCEPT ![got[t].stream] = @ \cup W]
        /\ UNCHANGED <<events, deps, launched, done, callVars, barrierEvent, got,
                       index, lastSync, created>>
    BY DEF BarrierCompute, WaitForStreams, barrierVars
  <2> HIDE DEF W
  <2> QED
    BY <2>1, <2>3, <2>4, <1>BarrierMove
<1>BarrierTransferKeeps.
    ASSUME IInv, NEW t \in Threads, BarrierTransfer(t)
    PROVE  IInv'
  <2> USE <1>BarrierTransferKeeps
  <2> DEFINE p == <<call[t].q, "transfer">>
             s == got[t].stream
             W == IF Size(p) = 0 THEN {} ELSE UNION {front[u] : u \in SyncRange(p) \ {s}}
  <2>1. pc[t] = "barrierTransfer" /\ Goto(t, "barrierRecord")
    BY DEF BarrierTransfer
  <2>2. p \in Pools /\ s \in Streams
    BY <2>1 DEF IInv, ThreadInv, Active, Fresh, WithStream, Pools
  <2>3. W \in SUBSET Ids
    BY <2>2, SyncRangeStreams, <1>FrontsOfStreams DEF IInv
  <2>4. front' = [front EXCEPT ![s] = @ \cup W]
    <3>1. CASE Size(p) = 0
      BY <3>1 DEF BarrierTransfer, IInv, Types
    <3>2. CASE Size(p) # 0
      BY <3>2 DEF BarrierTransfer, WaitForStreams
    <3> QED
      BY <3>1, <3>2
  <2>5. UNCHANGED <<events, deps, launched, done, callVars, barrierEvent, got, index,
                    lastSync, created>>
    BY DEF BarrierTransfer, barrierVars, indices
  <2> HIDE DEF W
  <2> QED
    BY <2>1, <2>3, <2>4, <2>5, <1>BarrierMove
<1>BarrierEventsKeeps.
    ASSUME IInv, NEW t \in Threads, BarrierEvents(t)
    PROVE  IInv'
  <2> USE <1>BarrierEventsKeeps
  <2> DEFINE es == {f \in LatestEvents(call[t].list) :
                      ~HasBeenSynchronized(QueueOf(f), event[f].token)}
             W == UNION {event[e].at : e \in es}
  <2>1. pc[t] = "barrierEvents" /\ Goto(t, "barrierRecord")
    BY DEF BarrierEvents
  <2>2. call[t].list \subseteq Returned
    BY <2>1 DEF IInv, ThreadInv, Active, Fresh
  <2>3. \A e \in es : e \in Ids /\ event[e].at \in SUBSET Ids
    BY <2>2 DEF LatestEvents, Returned, IInv, Types, EventRec
  <2>4. W \in SUBSET Ids
    BY <2>3
  <2>5. /\ front' = [front EXCEPT ![got[t].stream] = @ \cup W]
        /\ UNCHANGED <<events, deps, launched, done, callVars, barrierEvent, got,
                       index, lastSync, created>>
    BY DEF BarrierEvents, barrierVars, indices
  <2> HIDE DEF W
  <2> QED
    BY <2>1, <2>4, <2>5, <1>BarrierMove
<1> QED
  BY <1>ApplyBarrierKeeps, <1>EnqueueEventsWaitKeeps, <1>BarrierComputeKeeps,
     <1>BarrierTransferKeeps, <1>BarrierEventsKeeps

-----------------------------------------------------------------------------
\* The actions that put a command on a stream, record its event or complete it.

\* ... and those that put a command on it.
LEMMA PutActionsKeep ==
  \A t \in Threads : IInv /\ (Launch(t) \/ BarrierRecord(t)) => IInv'
\* A step of t that puts its command n on stream s.
<1>PutStep.
    ASSUME IInv, NEW t \in Threads, NEW n \in Ids, NEW s \in Streams,
           Fresh(t), call[t].id = n, Put(n, s),
           asked[n].op \in WaitingOps =>
             \A j \in asked[n].list : Implies(front[s], j),
           UNCHANGED <<events, callVars>>,
           OnlyThread(t), Types', ThreadInv(t)'
    PROVE  IInv'
  <2> USE <1>PutStep
  <2>1. /\ deps \in [Ids -> SUBSET Ids] /\ front[s] \in SUBSET Ids
        /\ n \notin launched /\ event[n] = NoEvent
    BY DEF IInv, Types, ThreadInv, Active
  <2>2. /\ deps' = [deps EXCEPT ![n] = front[s]]
        /\ front' = [front EXCEPT ![s] = {n}]
        /\ launched' = launched \cup {n} /\ done' = done
    BY DEF Put
  <2>3. \A A, i : /\ Implies(A, i) => Imp(launched', deps', A, i)
                  /\ Implies(front[s], i) => Imp(launched', deps', {n}, i)
    BY <2>1, <2>2, ImpPut DEF Implies
  <2>4. \A u \in Streams : \A i :
           Implies(front[u], i) => Imp(launched', deps', front'[u], i)
    <3>0. front \in [Streams -> SUBSET Ids]
      BY DEF IInv, Types
    <3>1. front'[s] = {n} /\ \A u \in Streams : u # s => front'[u] = front[u]
      BY <2>2, <3>0
    <3> QED
      BY <2>3, <3>1
  <2>5. Shared(n)
    <3>1. calls \in Nat
      BY SMTT(20) DEF IInv, Types
    <3>2. event' = event /\ asked' = asked /\ calls' = calls
      BY DEF events, callVars
    <3>3. calls <= calls' /\ calls' \in Nat
      BY <3>1, <3>2
    <3>4. \A i \in Ids : i # n => (i \in launched' => i \in launched)
      BY <2>2
    <3>5. launched \subseteq launched' /\ done \subseteq done'
      BY <2>2
    <3> QED
      BY <2>3, <2>4, <3>2, <3>3, <3>4, <3>5 DEF Shared
  <2>6. NoOther(t, n)
    BY DEF NoOther, IInv, DistinctIds, Active
  <2>7. \A i \in Ids : i # n => deps'[i] = deps[i]
    BY <2>1, <2>2
  <2>8. n \notin done /\ done \subseteq Ids
    BY <2>1 DEF IInv, Types
  <2>9. ReturnedKnown' /\ DoneClosed'
    BY <2>2, <2>7, <2>8 DEF IInv, Global, ReturnedKnown, DoneClosed, Returned, QueueOf,
                            events
  <2>10. FrontImplies' /\ EventImplies'
    BY <2>3, <2>4 DEF IInv, Global, ReturnedKnown, FrontImplies, EventImplies, Returned,
                      Implies, events
  <2>11. DepsImplyList'
    <3> SUFFICES ASSUME NEW i \in launched', asked[i].op \in WaitingOps,
                        NEW j \in asked[i].list
                 PROVE  Imp(launched', deps', deps'[i], j)
      BY DEF DepsImplyList, Implies, callVars
    <3>1. CASE i = n
      <4>1. deps'[n] = front[s]
        BY <2>1, <2>2
      <4> QED
        BY <2>3, <3>1, <4>1
    <3>2. CASE i # n
      BY <2>2, <2>3, <2>7, <3>2 DEF IInv, Global, DepsImplyList, Types
    <3> QED
      BY <3>1, <3>2
  <2>12. Active(t)' => NoOther(t, call'[t].id)
    BY <2>6 DEF callVars
  <2> QED
    BY <2>5, <2>6, <2>9, <2>10, <2>11, <2>12, StepKeeps DEF Global
\* What Launch and BarrierRecord have in common.
<1>PutMove.
    ASSUME IInv, NEW t \in Threads, pc[t] \in {"launch", "barrierRecord"},
           Put(call[t].id, got[t].stream), Goto(t, "record"),
           barrierEvent' \in [Queues -> [made : BOOLEAN, at : SUBSET Ids]],
           UNCHANGED <<events, callVars, got, index, lastSync, created>>
    PROVE  IInv'
  <2> USE <1>PutMove
  <2> DEFINE n == call[t].id
             s == got[t].stream
  <2>1. ThreadInv(t) /\ Fresh(t) /\ Active(t) /\ WithStream(t)
    BY DEF IInv, Fresh, Active, WithStream
  <2>2. n \in Ids /\ s \in Streams
    BY <2>1, ActiveId DEF ThreadInv
  <2>3. asked[n].op \in WaitingOps => \A j \in asked[n].list : Implies(front[s], j)
    <3>1. asked[n].op = call[t].op /\ asked[n].list = call[t].list
      BY <2>1 DEF ThreadInv
    <3>2. CASE pc[t] = "launch"
      BY <2>1, <3>1, <3>2 DEF ThreadInv
    <3>3. CASE pc[t] = "barrierRecord"
      <4>1. call[t].op = "barrier"
        BY <2>1, <3>3 DEF ThreadInv, BarrierLabels
      <4> QED
        BY <3>1, <4>1 DEF WaitingOps, Transfers
    <3> QED
      BY <3>2, <3>3
  <2>4. /\ front' \in [Streams -> SUBSET Ids] /\ deps' \in [Ids -> SUBSET Ids]
        /\ launched' \in SUBSET Ids /\ done' \in SUBSET launched'
        /\ launched' \subseteq 1 .. calls'
        /\ pc' \in [Threads -> Labels]
    <3>1. front' \in [Streams -> SUBSET Ids] /\ deps' \in [Ids -> SUBSET Ids]
      BY <2>2 DEF Put, IInv, Types
    <3>2. n \in 1 .. calls /\ calls' = calls
      BY <2>1, ActiveId DEF callVars
    <3>3. /\ launched' \in SUBSET Ids /\ done' \in SUBSET launched'
          /\ launched' \subseteq 1 .. calls'
      BY <2>2, <3>2 DEF Put, IInv, Types
    <3>4. pc' \in [Threads -> Labels]
      BY DEF Goto, IInv, Types, Labels
    <3> QED
      BY <3>1, <3>3, <3>4
  <2>5. Types'
    BY <2>4 DEF IInv, Types, events, callVars
  <2>6. OnlyThread(t)
    BY DEF OnlyThread, Goto, IInv, Types, callVars
  <2>7. pc'[t] = "record"
    BY DEF Goto, IInv, Types
  <2>8. n \in launched' /\ Imp(launched', deps', front'[s], n)
    <3>1. n \in launched' /\ front'[s] = {n}
      BY <2>2 DEF IInv, Types, Put
    <3> QED
      BY SMTT(20), <3>1, ImpSelf
  <2>9. ThreadInv(t)'
    BY <2>1, <2>7, <2>8 DEF ThreadInv, Fresh, WithStream, Active, Returned, Implies,
                BarrierLabels, events, callVars
  <2> QED
    BY <2>1, <2>2, <2>3, <2>5, <2>6, <2>9, <1>PutStep
<1>LaunchKeeps.
    ASSUME IInv, NEW t \in Threads, Launch(t)
    PROVE  IInv'
  <2> USE <1>LaunchKeeps
  <2>1. /\ UNCHANGED <<events, callVars, got, index, lastSync, created>>
        /\ barrierEvent' \in [Queues -> [made : BOOLEAN, at : SUBSET Ids]]
    BY DEF Launch, indices, barrierVars, IInv, Types
  <2> QED
    BY <2>1, <1>PutMove DEF Launch
<1>BarrierRecordKeeps.
    ASSUME IInv, NEW t \in Threads, BarrierRecord(t)
    PROVE  IInv'
  <2> USE <1>BarrierRecordKeeps
  <2>1. call[t].id \in Ids
    BY ActiveId DEF BarrierRecord, Active, Fresh
  <2>2. barrierEvent' \in [Queues -> [made : BOOLEAN, at : SUBSET Ids]]
    BY <2>1 DEF BarrierRecord, IInv, Types
  <2> QED
    BY <2>2, <1>PutMove DEF BarrierRecord, indices
<1> QED
  BY <1>LaunchKeeps, <1>BarrierRecordKeeps

LEMMA RecordKeeps ==
  ASSUME IInv, NEW t \in Threads, Record(t)
  PROVE  IInv'
<1> DEFINE n == call[t].id
           s == got[t].stream
           q == call[t].q
           tok == IF call[t].op \in {"kernel", "barrier"}
                  THEN got[t].token ELSE NoToken
           e0 == [op |-> call[t].op, stream |-> s, id |-> eventCount[q] + 1,
                  token |-> tok, at |-> front[s]]
           l == IF call[t].op = "read" THEN "streamWait" ELSE "return"
<1>1. /\ pc[t] = "record" /\ ThreadInv(t) /\ Goto(t, l)
      /\ UNCHANGED <<index, lastSync, created, barrierEvent, device, callVars, got>>
      /\ eventCount' = [eventCount EXCEPT ![q] = @ + 1]
  BY DEF Record, IInv, indices, barrierVars
<1>2. Active(t) /\ WithStream(t)
  BY <1>1 DEF Active, WithStream
<1>3. /\ n \in Ids /\ s \in Streams /\ q \in Queues /\ s[1][1] = q
      /\ call[t].op \in EnqueueOps /\ event[n] = NoEvent
      /\ n \in launched /\ Implies(front[s], n)
  BY <1>1, <1>2, ActiveId DEF ThreadInv
<1>4. eventCount[q] \in Nat /\ eventCount'[q] = eventCount[q] + 1
  BY <1>1, <1>3 DEF IInv, Types
<1>5. event' = [event EXCEPT ![n] = e0]
  BY <1>4 DEF Record
<1>6. e0 \in EventRec /\ e0 # NoEvent
  <2>1. NoToken \in Uint
    BY SizesAssumption, UintAssumption DEF NoToken, Uint
  <2>2. got[t].token \in Uint /\ front[s] \in SUBSET Ids
    BY <1>3 DEF IInv, Types, GotRec
  <2>3. call[t].op \in AllOps /\ call[t].op # "none"
    BY <1>3 DEF EnqueueOps, AllOps, Selecting, Transfers
  <2>4. e0 \in EventRec
    <3>1. eventCount[q] + 1 \in Nat
      BY <1>4
    <3>2. tok \in Uint
      BY <2>1, <2>2
    <3> HIDE DEF tok
    <3> QED
      BY <1>3, <2>2, <2>3, <3>1, <3>2, MadeEvent
  <2>5. e0.op # NoEvent.op
    BY <2>3 DEF NoEvent
  <2> QED
    BY <2>4, <2>5
<1>7. /\ e0.stream = s /\ e0.id = eventCount[q] + 1 /\ e0.at = front[s]
  OBVIOUS
<1> HIDE DEF e0
<1>8. event'[n] = e0 /\ \A i \in Ids : i # n => event'[i] = event[i]
  BY <1>3, <1>5 DEF IInv, Types
<1>9. Returned' = Returned \cup {n} /\ n \notin Returned /\ Returned \subseteq Ids
  BY SMTT(20), <1>3, <1>6, <1>8 DEF Returned
<1>10. Types'
  <2>1. event' \in [Ids -> EventRec] /\ eventCount' \in [Queues -> Nat]
    <3>1. event \in [Ids -> EventRec] /\ eventCount \in [Queues -> Nat]
      BY DEF IInv, Types
    <3>2. event' \in [Ids -> EventRec]
      BY <1>5, <1>6, <3>1
    <3> QED
      BY <1>1, <1>3, <3>1, <3>2, CountUp
  <2>2. pc' \in [Threads -> Labels]
    BY <1>1 DEF Goto, IInv, Types, Labels
  <2> QED
    BY <1>1, <2>1, <2>2 DEF IInv, Types, device, callVars
<1>11. OnlyThread(t)
  BY <1>1 DEF OnlyThread, Goto, IInv, Types, callVars
<1>12. Shared(n)
  <2>1. \A i \in Returned : event'[i] = event[i]
    BY <1>8, <1>9
  <2>2. calls \in Nat /\ calls' = calls /\ asked' = asked
    BY SMTT(20), <1>1 DEF IInv, Types, callVars
  <2>3. calls <= calls' /\ calls' \in Nat
    BY <2>2
  <2>4. \A A, i : Implies(A, i) => Imp(launched', deps', A, i)
    BY <1>1 DEF Implies, device
  <2>5. \A u \in Streams : \A i : Implies(front[u], i) => Imp(launched', deps', front'[u], i)
    BY <1>1 DEF Implies, device
  <2>6. launched' = launched /\ done' = done
    BY <1>1 DEF device
  <2> QED
    BY <1>8, <2>1, <2>2, <2>3, <2>4, <2>5, <2>6 DEF Shared
<1>13. NoOther(t, n)
  BY <1>2 DEF NoOther, IInv, DistinctIds
<1>14. ReturnedKnown'
  <2> SUFFICES ASSUME NEW i \in Returned'
               PROVE  /\ i \in launched' /\ event'[i].stream \in Streams
                      /\ event'[i].id <= eventCount'[event'[i].stream[1][1]]
    BY DEF ReturnedKnown, QueueOf
  <2>1. CASE i = n
    <3>1. event'[i].stream = s /\ event'[i].id = eventCount'[q]
      BY <1>4, <1>7, <1>8, <2>1
    <3>2. eventCount'[q] \in Nat
      BY <1>4
    <3>3. eventCount'[q] <= eventCount'[q]
      BY <3>2
    <3>4. launched' = launched
      BY <1>1 DEF device
    <3> QED
      BY <1>3, <2>1, <3>1, <3>3, <3>4
  <2>2. CASE i # n
    <3>1. i \in Returned /\ event'[i] = event[i]
      BY <1>8, <1>9, <2>2
    <3>2. /\ i \in launched /\ event[i].stream \in Streams
          /\ event[i].id <= eventCount[event[i].stream[1][1]]
      BY <3>1 DEF IInv, Global, ReturnedKnown, QueueOf
    <3>3. event[i].stream[1][1] \in Queues /\ event[i].id \in Nat
      <4>1. event[i] \in EventRec
        BY <3>1 DEF IInv, Types, Returned
      <4> QED
        BY <3>2, <4>1, StreamPool DEF EventRec
    <3>4. \A r \in Queues : eventCount[r] \in Nat /\ eventCount'[r] \in Nat
                            /\ eventCount[r] <= eventCount'[r]
      <4>1. eventCount \in [Queues -> Nat]
        BY DEF IInv, Types
      <4> QED
        BY <1>1, <1>3, <4>1, CountUp
    <3>5. \A x, y, z \in Nat : x <= y /\ y <= z => x <= z
      BY SMTT(20)
    <3>6. launched' = launched
      BY <1>1 DEF device
    <3> QED
      BY <3>1, <3>2, <3>3, <3>4, <3>5, <3>6
  <2> QED
    BY <2>1, <2>2
<1>15. DoneClosed' /\ DepsImplyList'
  BY <1>1 DEF IInv, Global, DoneClosed, DepsImplyList, Implies, device, callVars
<1>16. FrontImplies'
  <2> SUFFICES ASSUME NEW i \in Returned'
               PROVE  Implies(front[event'[i].stream], i)
    BY <1>1 DEF FrontImplies, Implies, device
  <2>1. CASE i = n
    BY <1>3, <1>7, <1>8, <2>1
  <2>2. CASE i # n
    BY <1>8, <1>9, <2>2 DEF IInv, Global, FrontImplies
  <2> QED
    BY <2>1, <2>2
<1>17. EventImplies'
  <2> SUFFICES ASSUME NEW e \in Returned', NEW f \in Returned',
                      event'[e].stream = event'[f].stream,
                      event'[e].id <= event'[f].id
               PROVE  Implies(event'[f].at, e)
    BY <1>1 DEF EventImplies, Implies, device
  <2>1. CASE f = n /\ e = n
    BY <1>3, <1>7, <1>8, <2>1
  <2>2. CASE f = n /\ e # n
    <3>1. e \in Returned /\ event[e].stream = s
      BY <1>7, <1>8, <1>9, <2>2
    <3> QED
      BY <1>7, <1>8, <2>2, <3>1 DEF IInv, Global, FrontImplies
  <2>3. CASE f # n /\ e = n
    <3>1. f \in Returned /\ event[f].stream = s /\ eventCount[q] + 1 <= event[f].id
      BY <1>7, <1>8, <1>9, <2>3
    <3>2. event[f].id <= eventCount[q] /\ event[f].id \in Nat
      BY <1>3, <3>1 DEF IInv, Global, ReturnedKnown, QueueOf, Types, EventRec, Returned
    <3> QED
      BY <1>4, <3>1, <3>2
  <2>4. CASE f # n /\ e # n
    BY <1>8, <1>9, <2>4 DEF IInv, Global, EventImplies
  <2> QED
    BY <2>1, <2>2, <2>3, <2>4
<1>18. pc'[t] = l
  BY <1>1 DEF Goto, IInv, Types
<1>19. n \in Returned' /\ event'[n].stream = s
  BY <1>7, <1>8, <1>9
<1>20. ThreadInv(t)' /\ ~Active(t)'
  <2>1. call'[t] = call[t] /\ got'[t] = got[t]
    BY <1>1 DEF callVars
  <2>2. /\ pc'[t] = "return" => call[t].op # "read" /\ call[t].op # "wait"
        /\ pc'[t] = "streamWait" => call[t].op = "read"
        /\ pc'[t] \in {"return", "streamWait"}
    BY <1>3, <1>18 DEF EnqueueOps, Selecting, Transfers
  <2> QED
    BY <1>3, <1>19, <2>1, <2>2 DEF ThreadInv, Fresh, WithStream, Active
<1> QED
  BY <1>10, <1>11, <1>12, <1>13, <1>14, <1>15, <1>16, <1>17, <1>20, StepKeeps
     DEF Global

LEMMA ExecuteKeeps ==
  ASSUME IInv, Execute
  PROVE  IInv'
<1>1. PICK i \in launched \ done : deps[i] \subseteq done /\ done' = done \cup {i}
  BY DEF Execute
<1>2. UNCHANGED <<index, lastSync, created, barrierEvent, events, front, deps,
                  launched, callVars, pc, got>>
  BY DEF Execute, indices, barrierVars
<1>3. Types'
  BY <1>1, <1>2 DEF IInv, Types, events, callVars
<1>4. Global'
  <2>1. DoneClosed'
    BY <1>1, <1>2 DEF IInv, Global, DoneClosed
  <2> QED
    BY <1>2, <2>1 DEF IInv, Global, ReturnedKnown, FrontImplies, EventImplies,
                  DepsImplyList, Returned, QueueOf, Implies, events, callVars
<1>5. ASSUME NEW t \in Threads PROVE ThreadInv(t)'
  BY <1>1, <1>2 DEF IInv, ThreadInv, Fresh, WithStream, Active, Returned, Implies,
                    events, callVars
<1>6. DistinctIds'
  BY <1>2 DEF IInv, DistinctIds, Active, Fresh, callVars
<1> QED
  BY <1>3, <1>4, <1>5, <1>6 DEF IInv

LEMMA CallKeeps ==
  ASSUME IInv, NEW t \in Threads, Call(t)
  PROVE  IInv'
<1>1. PICK op \in Ops, q \in Queues, list \in SUBSET Returned :
         /\ op \notin {"finish", "wait"} => calls < MaxCalls
         /\ LET id == IF op \in {"finish", "wait"} THEN 0 ELSE calls + 1
                all == IF InOrder \/ (op = "barrier" /\ list = {})
                       THEN Enqueued(q) ELSE Barriers(q)
            IN /\ call' = [call EXCEPT ![t] =
                    [op |-> op, q |-> q, id |-> id, list |-> list,
                     before |-> IF op = "finish" THEN Enqueued(q) ELSE {}]]
               /\ calls' = IF id = 0 THEN calls ELSE id
               /\ asked' = IF id = 0 THEN asked
                    ELSE [asked EXCEPT ![id] = [op |-> op, list |-> list, after |-> all]]
         /\ Goto(t, CASE op \in Selecting -> "select"
                      [] op \in Transfers \cup {"handle"} -> "create"
                      [] op = "finish" -> "lockSync"
                      [] op = "wait" -> "eventWait")
  BY DEF Call
<1> DEFINE n == IF op \in {"finish", "wait"} THEN 0 ELSE calls + 1
           all == IF InOrder \/ (op = "barrier" /\ list = {})
                  THEN Enqueued(q) ELSE Barriers(q)
           bf == IF op = "finish" THEN Enqueued(q) ELSE {}
           c == [op |-> op, q |-> q, id |-> n, list |-> list, before |-> bf]
           a == [op |-> op, list |-> list, after |-> all]
           l == CASE op \in Selecting -> "select"
                  [] op \in Transfers \cup {"handle"} -> "create"
                  [] op = "finish" -> "lockSync"
                  [] op = "wait" -> "eventWait"
<1>2. /\ call' = [call EXCEPT ![t] = c]
      /\ calls' = IF n = 0 THEN calls ELSE n
      /\ asked' = IF n = 0 THEN asked ELSE [asked EXCEPT ![n] = a]
      /\ Goto(t, l)
  BY <1>1
<1>3. /\ UNCHANGED <<index, lastSync, created, barrierEvent, events, device, got>>
      /\ pc[t] = "idle"
  BY DEF Call, indices, barrierVars
<1>4. op \in AllOps
  BY OpsAssumption
<1>5. /\ op \in EnqueueOps => l \in {"select", "create"}
      /\ op = "finish" => l = "lockSync"
      /\ op = "wait" => l = "eventWait"
      /\ op \in EnqueueOps \/ op = "finish" \/ op = "wait"
      /\ op \in EnqueueOps => op # "finish" /\ op # "wait"
  BY <1>4 DEF AllOps, EnqueueOps, Selecting, Transfers
<1>6. calls \in Nat /\ MaxCalls \in Nat /\ calls <= MaxCalls
  BY BoundAssumption DEF IInv, Types
<1>7. /\ op \in EnqueueOps => n = calls + 1 /\ n \in Ids
      /\ op \notin EnqueueOps => n = 0
      /\ n \in 0 .. MaxCalls
  BY <1>1, <1>5, <1>6 DEF Ids
<1>8. list \in SUBSET Ids /\ all \in SUBSET Ids /\ bf \in SUBSET Ids
  BY DEF Returned, Enqueued, Barriers
<1>9. c.op = op /\ c.q = q /\ c.id = n /\ c.list = list
  OBVIOUS
<1>10. a.op = op /\ a.list = list
  OBVIOUS
<1>11. c \in CallRec
  BY <1>4, <1>7, <1>8 DEF CallRec
<1>12. a \in AskedRec
  BY <1>4, <1>8 DEF AskedRec
<1> HIDE DEF n, all, bf, c, a, l
<1>13. pc'[t] = l /\ call'[t] = c /\ l \in Labels
  BY <1>2, <1>5 DEF Goto, IInv, Types, Labels
<1>14. Types'
  <2>1. pc' \in [Threads -> Labels]
    BY <1>2, <1>13 DEF Goto, IInv, Types
  <2>2. call' \in [Threads -> CallRec]
    BY <1>2, <1>11 DEF IInv, Types
  <2>3. asked' \in [Ids -> AskedRec]
    BY <1>2, <1>12 DEF IInv, Types
  <2>4. calls' \in 0 .. MaxCalls
    BY <1>2, <1>6, <1>7
  <2>5. launched' \subseteq 1 .. calls'
    BY SMTT(20), <1>2, <1>3, <1>5, <1>6, <1>7 DEF IInv, Types, device
  <2> QED
    BY <1>3, <2>1, <2>2, <2>3, <2>4, <2>5 DEF IInv, Types, events, device
<1>15. OnlyThread(t)
  BY <1>2, <1>3 DEF OnlyThread, Goto, IInv, Types
<1>16. \A i \in Ids : i # n => asked'[i] = asked[i]
  BY <1>2 DEF IInv, Types
<1>17. Shared(n)
  <2>1. calls <= calls' /\ calls' \in Nat
    BY <1>2, <1>5, <1>6, <1>7
  <2>2. \A A, i : Implies(A, i) => Imp(launched', deps', A, i)
    BY <1>3 DEF Implies, device
  <2>3. \A u \in Streams : \A i : Implies(front[u], i) => Imp(launched', deps', front'[u], i)
    BY <1>3 DEF Implies, device
  <2>4. launched' = launched /\ done' = done /\ event' = event
    BY <1>3 DEF device, events
  <2> QED
    BY <1>16, <2>1, <2>2, <2>3, <2>4 DEF Shared
<1>18. NoOther(t, n)
  <2>1. \A u \in Threads : Active(u) => call[u].id \in 1 .. calls
    BY ActiveId
  <2>2. n \notin 1 .. calls
    BY <1>6, <1>7
  <2> QED
    BY <2>1, <2>2 DEF NoOther
<1>19. op \in EnqueueOps => n \notin launched /\ event[n] = NoEvent
  BY <1>6, <1>7 DEF IInv, Types, Global, ReturnedKnown, Returned
<1>20. Global'
  <2>1. DepsImplyList'
    <3> SUFFICES ASSUME NEW i \in launched
                 PROVE  asked'[i].op \in WaitingOps =>
                          \A j \in asked'[i].list : Implies(deps[i], j)
      BY <1>3 DEF DepsImplyList, Implies, device
    <3>1. i \in Ids /\ i # n
      BY SMTT(20), <1>7, <1>19 DEF IInv, Types, Ids
    <3> QED
      BY <1>16, <3>1 DEF IInv, Global, DepsImplyList
  <2> QED
    BY <1>3, <2>1 DEF IInv, Global, ReturnedKnown, DoneClosed, FrontImplies,
                      EventImplies, Returned, QueueOf, Implies, events, device
<1>21. ThreadInv(t)'
  <2>1. CASE op \in EnqueueOps
    <3>1. /\ n \in 1 .. calls' /\ asked'[n] = a
      BY <1>2, <1>6, <1>7, <2>1 DEF IInv, Types
    <3>2. list \subseteq Returned' /\ event'[n] = NoEvent /\ n \notin launched'
      BY <1>3, <1>19, <2>1 DEF Returned, events, device
    <3>3. pc'[t] \in {"select", "create"}
      BY <1>5, <1>13, <2>1
    <3> QED
      BY <1>9, <1>10, <1>13, <2>1, <3>1, <3>2, <3>3
         DEF ThreadInv, Fresh, WithStream, Active, BarrierLabels
  <2>2. CASE op = "finish"
    BY <1>5, <1>9, <1>13, <2>2 DEF ThreadInv, Fresh, WithStream, Active, BarrierLabels
  <2>3. CASE op = "wait"
    <3>1. list \subseteq Returned'
      BY <1>3 DEF Returned, events
    <3> QED
      BY <1>5, <1>9, <1>13, <2>3, <3>1
         DEF ThreadInv, Fresh, WithStream, Active, BarrierLabels
  <2> QED
    BY <1>5, <2>1, <2>2, <2>3
<1> QED
  BY <1>9, <1>13, <1>14, <1>15, <1>17, <1>18, <1>20, <1>21, StepKeeps

-----------------------------------------------------------------------------
LEMMA InitIInv == Init => IInv
<1> SUFFICES ASSUME Init
             PROVE  IInv
  OBVIOUS
<1>1. PICK k \in StartIndices :
         /\ index = [p \in Pools |-> IF Size(p) = 0 THEN 0 ELSE k]
         /\ lastSync = index
         /\ created = [p \in Pools |-> IF k < Size(p) THEN k ELSE Size(p)]
  BY DEF Init
<1>2. k \in Uint /\ 0 \in Uint /\ NoToken \in Uint
  BY StartAssumption, UintAssumption, SizesAssumption DEF Uint, NoToken
<1>3. index \in [Pools -> Uint] /\ lastSync \in [Pools -> Uint]
  BY <1>1, <1>2
<1>4. created \in [Pools -> Nat]
  <2>1. k \in Nat /\ \A p \in Pools : Size(p) \in Nat
    BY SMTT(20), <1>2, SizesAssumption, UintAssumption DEF Size, Uint
  <2> QED
    BY <1>1, <2>1
<1>5. NoEvent \in EventRec /\ NotAsked \in AskedRec
  BY <1>2 DEF NoEvent, EventRec, NotAsked, AskedRec
<1>6. NoCall \in CallRec
  BY BoundAssumption DEF NoCall, CallRec
<1>7. NotGot \in GotRec
  BY <1>2 DEF NotGot, GotRec
<1>8. Types
  <2>1. calls \in 0 .. MaxCalls
    BY SMTT(20), BoundAssumption DEF Init
  <2> QED
    BY <1>3, <1>4, <1>5, <1>6, <1>7, <2>1 DEF Init, Types, Labels
<1>9. Returned = {}
  BY DEF Init, Returned
<1>10. Global
  BY <1>9 DEF Init, Global, ReturnedKnown, DoneClosed, FrontImplies, EventImplies,
              DepsImplyList
<1>11. \A t \in Threads : pc[t] = "idle"
  BY DEF Init
<1>12. (\A t \in Threads : ThreadInv(t)) /\ DistinctIds
  BY <1>11 DEF ThreadInv, DistinctIds, Active, Fresh, WithStream
<1> QED
  BY <1>8, <1>10, <1>12 DEF IInv

LEMMA NextIInv == MaxFacts /\ IInv /\ [Next]_vars => IInv'
<1> SUFFICES ASSUME MaxFacts, IInv, [Next]_vars
             PROVE  IInv'
  OBVIOUS
<1>1. CASE Execute
  BY <1>1, ExecuteKeeps
<1>2. ASSUME NEW t \in Threads, Call(t) PROVE IInv'
  BY <1>2, CallKeeps
<1>3. ASSUME NEW t \in Threads, Step(t) PROVE IInv'
  BY <1>3, QuietActionsKeep, GotActionsKeep, FrontActionsKeep, PutActionsKeep,
     RecordKeeps, ReturnKeeps DEF Step
<1>4. CASE UNCHANGED vars
  <2>1. UNCHANGED vars
    BY <1>4
  <2>2. Types'
    BY <2>1 DEF vars, IInv, Types
  <2>3. Global'
    BY <2>1 DEF vars, IInv, Global, ReturnedKnown, DoneClosed, FrontImplies,
                EventImplies, DepsImplyList, Implies, Returned, QueueOf
  <2>4. ASSUME NEW t \in Threads PROVE ThreadInv(t)'
    BY <2>1 DEF vars, IInv, ThreadInv, Active, Fresh, WithStream, Implies, Returned
  <2>5. DistinctIds'
    BY <2>1 DEF vars, IInv, DistinctIds, Active, Fresh
  <2> QED
    BY <2>2, <2>3, <2>4, <2>5 DEF IInv
<1> QED
  BY <1>1, <1>2, <1>3, <1>4 DEF Next

-----------------------------------------------------------------------------
\* A stream is created before it is used.

\* The stream s has been created.
Exists(s) == s[2] < created[s[1]]

\* The threads that have seen to it that the stream they take next exists.
Takers(p) == {t \in Threads : pc[t] = "take" /\ PoolOf(call[t]) = p}

\* As long as streams of a pool are missing, one was created for every index taken
\* and for every thread about to take one.
CreatedOK ==
  \A p \in Pools :
    /\ created[p] \in 0 .. Size(p)
    /\ IsFiniteSet(Takers(p))
    /\ created[p] < Size(p) => created[p] = index[p] + Cardinality(Takers(p))

\* Only created streams are given out, recorded and given work.
InUse ==
  /\ \A s \in Streams : front[s] # {} => Exists(s)
  /\ \A t \in Threads : got[t].stream # NoStream => Exists(got[t].stream)
  /\ \A i \in Returned : Exists(event[i].stream)

\* The types of what other proofs do not need.
OtherTypes ==
  /\ delay \in [Streams -> BOOLEAN] /\ applied \in [Streams -> BOOLEAN]
  /\ poolMutex \in [Pools -> Threads \cup {None}]
  /\ syncMutex \in [Queues -> Threads \cup {None}]
  /\ barrierMutex \in [Queues -> Threads \cup {None}]
  /\ range \in [Threads -> SUBSET Streams]

\* A call is on a queue, and transfer streams are synchronized only if there are any.
CallsPlaced ==
  \A t \in Threads : /\ pc[t] # "idle" => call[t].q \in Queues
                     /\ pc[t] = "lockTransfer" => TransferStreams # 0

\* The events of a queue are numbered one by one.
Numbered == \A q \in Queues : eventCount[q] = Cardinality(Enqueued(q))

LEMMA SizeNat ==
  ASSUME NEW p \in Pools
  PROVE  Size(p) \in Nat /\ Size(p) < UintMod /\ UintMod \in Nat
  BY SizesAssumption, UintAssumption DEF Size

LEMMA PoolType ==
  ASSUME IInv, NEW p \in Pools
  PROVE  index[p] \in Nat /\ index[p] < UintMod /\ lastSync[p] \in Nat /\ created[p] \in Nat
<1>1. index[p] \in Uint /\ lastSync[p] \in Uint /\ created[p] \in Nat
  BY DEF IInv, Types
<1> QED
  BY <1>1, UintAssumption DEF Uint

\* The pool a call takes its stream from.
LEMMA CallPool ==
  ASSUME IInv, NEW t \in Threads, Active(t)
  PROVE  LET p == PoolOf(call[t])
         IN  p \in Pools /\ Size(p) # 0 /\ p[1] = call[t].q /\ call[t].q \in Queues
<1>1. call[t].q \in Queues
  BY DEF IInv, ThreadInv
<1> QED
  BY <1>1, PoolOfCall

\* A step of t that begins and ends elsewhere than at the taking of a stream.
LEMMA TakersSame ==
  ASSUME NEW t \in Threads, OnlyThread(t), pc[t] # "take", pc'[t] # "take", NEW p
  PROVE  Takers(p)' = Takers(p)
  BY DEF Takers, OnlyThread

LEMMA CreatedKept ==
  ASSUME CreatedOK, index' = index, created' = created,
         \A p \in Pools : Takers(p)' = Takers(p)
  PROVE  CreatedOK'
  BY DEF CreatedOK, Size

LEMMA CreateCreated ==
  ASSUME CountFacts, IInv, CreatedOK, NEW t \in Threads, CreateStream(t)
  PROVE  CreatedOK' /\ \A r \in Pools : created'[r] \in Nat /\ created[r] <= created'[r]
<1>0. PICK p : p = PoolOf(call[t])
  OBVIOUS
<1>1. /\ pc[t] = "create" /\ index' = index /\ call' = call
      /\ created' = IF created[p] < Size(p) THEN [created EXCEPT ![p] = @ + 1] ELSE created
      /\ pc'[t] = "take" /\ \A u \in Threads \ {t} : pc'[u] = pc[u]
  BY <1>0 DEF CreateStream, Goto, IInv, Types, callVars
<1>2. p \in Pools
  BY <1>0, <1>1, CallPool DEF Active, Fresh
<1>3. t \notin Takers(p) /\ Takers(p)' = Takers(p) \cup {t}
  BY <1>0, <1>1 DEF Takers
<1>4. \A r \in Pools : r # p => Takers(r)' = Takers(r)
  BY <1>0, <1>1 DEF Takers
<1>5. created \in [Pools -> Nat]
  BY DEF IInv, Types
<1>6. \A r \in Pools : r # p => created'[r] = created[r]
  BY <1>1, <1>5
<1>7. /\ created[p] < Size(p) => created'[p] = created[p] + 1
      /\ ~(created[p] < Size(p)) => created'[p] = created[p]
  BY <1>1, <1>2, <1>5
<1>8. /\ IsFiniteSet(Takers(p)') /\ Cardinality(Takers(p)) \in Nat
      /\ Cardinality(Takers(p)') = Cardinality(Takers(p)) + 1
  <2>1. \A S, x : IsFiniteSet(S) /\ x \notin S =>
                    /\ IsFiniteSet(S \cup {x}) /\ Cardinality(S) \in Nat
                    /\ Cardinality(S \cup {x}) = Cardinality(S) + 1
    BY DEF CountFacts
  <2>2. IsFiniteSet(Takers(p))
    BY <1>2 DEF CreatedOK
  <2>3. /\ IsFiniteSet(Takers(p) \cup {t}) /\ Cardinality(Takers(p)) \in Nat
        /\ Cardinality(Takers(p) \cup {t}) = Cardinality(Takers(p)) + 1
    BY <1>3, <2>1, <2>2
  <2> QED
    BY <1>3, <2>3
<1>9. /\ created[p] \in 0 .. Size(p) /\ index[p] \in Nat /\ Size(p) \in Nat
      /\ created[p] < Size(p) => created[p] = index[p] + Cardinality(Takers(p))
  BY <1>2, PoolType, SizeNat DEF CreatedOK
<1>10. /\ created'[p] \in 0 .. Size(p) /\ created[p] <= created'[p]
       /\ created'[p] < Size(p) => created'[p] = index[p] + Cardinality(Takers(p)')
  BY <1>7, <1>8, <1>9
<1>11. ASSUME NEW r \in Pools
       PROVE  /\ created'[r] \in 0 .. Size(r)
              /\ IsFiniteSet(Takers(r)')
              /\ created'[r] < Size(r) => created'[r] = index'[r] + Cardinality(Takers(r)')
  <2>1. CASE r = p
    BY <1>1, <1>8, <1>10, <2>1
  <2>2. CASE r # p
    BY <1>1, <1>4, <1>6, <2>2 DEF CreatedOK
  <2> QED
    BY <2>1, <2>2
<1>12. ASSUME NEW r \in Pools
       PROVE  created'[r] \in Nat /\ created[r] <= created'[r]
  <2>1. created[r] \in Nat
    BY <1>5
  <2>2. created[p] \in Nat
    BY <1>2, <1>5
  <2> QED
    BY <1>6, <1>7, <2>1, <2>2
<1> QED
  BY <1>11, <1>12 DEF CreatedOK, Size

LEMMA TakeCreated ==
  ASSUME CountFacts, IInv, CreatedOK, NEW t \in Threads, TakeStream(t)
  PROVE  LET p == PoolOf(call[t])
         IN  CreatedOK' /\ index[p] % Size(p) < created[p]
<1>0. PICK p : p = PoolOf(call[t])
  OBVIOUS
<1>1. /\ pc[t] = "take" /\ created' = created /\ call' = call
      /\ index' = [index EXCEPT ![p] = (@ + 1) % UintMod]
      /\ pc'[t] # "take" /\ \A u \in Threads \ {t} : pc'[u] = pc[u]
  BY <1>0 DEF TakeStream, Goto, IInv, Types, callVars
<1>2. p \in Pools /\ Size(p) # 0
  BY <1>0, <1>1, CallPool DEF Active, Fresh
<1>3. t \in Takers(p) /\ Takers(p)' = Takers(p) \ {t}
  BY <1>0, <1>1 DEF Takers
<1>4. \A r \in Pools : r # p => Takers(r)' = Takers(r)
  BY <1>0, <1>1 DEF Takers
<1>5. index \in [Pools -> Uint]
  BY DEF IInv, Types
<1>6. \A r \in Pools : r # p => index'[r] = index[r]
  BY <1>1, <1>5
<1>7. index'[p] = (index[p] + 1) % UintMod
  BY <1>1, <1>2, <1>5
<1>8. /\ IsFiniteSet(Takers(p)') /\ Cardinality(Takers(p)') \in Nat
      /\ Cardinality(Takers(p)) = Cardinality(Takers(p)') + 1
  <2>1. \A S, x : IsFiniteSet(S) /\ x \in S =>
                    /\ IsFiniteSet(S \ {x}) /\ Cardinality(S \ {x}) \in Nat
                    /\ Cardinality(S) = Cardinality(S \ {x}) + 1
    BY DEF CountFacts
  <2>2. IsFiniteSet(Takers(p))
    BY <1>2 DEF CreatedOK
  <2>3. /\ IsFiniteSet(Takers(p) \ {t}) /\ Cardinality(Takers(p) \ {t}) \in Nat
        /\ Cardinality(Takers(p)) = Cardinality(Takers(p) \ {t}) + 1
    BY <1>3, <2>1, <2>2
  <2> QED
    BY <1>3, <2>3
<1>9. /\ created[p] \in 0 .. Size(p) /\ index[p] \in Nat /\ Size(p) \in Nat
      /\ Size(p) < UintMod /\ UintMod \in Nat
      /\ created[p] < Size(p) => created[p] = index[p] + Cardinality(Takers(p))
  BY <1>2, PoolType, SizeNat DEF CreatedOK
<1>10. index[p] % Size(p) < created[p]
  <2>1. CASE created[p] < Size(p)
    <3>1. index[p] < created[p]
      BY <1>8, <1>9, <2>1
    <3>2. index[p] % Size(p) = index[p]
      BY <1>9, <2>1, <3>1
    <3> QED
      BY <3>1, <3>2
  <2>2. CASE ~(created[p] < Size(p))
    <3>1. created[p] = Size(p) /\ index[p] % Size(p) < Size(p)
      BY <1>2, <1>9, <2>2
    <3> QED
      BY <3>1
  <2> QED
    BY <2>1, <2>2
<1>11. created[p] < Size(p) => created[p] = index'[p] + Cardinality(Takers(p)')
  <2> SUFFICES ASSUME created[p] < Size(p)
               PROVE  created[p] = index'[p] + Cardinality(Takers(p)')
    OBVIOUS
  <2>1. index[p] + 1 < UintMod
    BY <1>8, <1>9
  <2>2. index'[p] = index[p] + 1
    BY <1>7, <1>9, <2>1
  <2> QED
    BY <1>8, <1>9, <2>2
<1>12. ASSUME NEW r \in Pools
       PROVE  /\ created'[r] \in 0 .. Size(r)
              /\ IsFiniteSet(Takers(r)')
              /\ created'[r] < Size(r) => created'[r] = index'[r] + Cardinality(Takers(r)')
  <2>1. CASE r = p
    BY <1>1, <1>8, <1>9, <1>11, <2>1
  <2>2. CASE r # p
    BY <1>1, <1>4, <1>6, <2>2 DEF CreatedOK
  <2> QED
    BY <2>1, <2>2
<1> QED
  BY <1>0, <1>10, <1>12 DEF CreatedOK, Size

\* A stream that exists goes on existing.
LEMMA ExistsStays ==
  ASSUME IInv, NEW s \in Streams, Exists(s),
         \A p \in Pools : created'[p] \in Nat /\ created[p] <= created'[p]
  PROVE  Exists(s)'
<1>1. s[1] \in Pools /\ s[2] \in Nat
  <2>1. \E p \in Pools : \E i \in 0 .. Size(p) - 1 : s = <<p, i>>
    BY DEF Streams
  <2> QED
    BY <2>1, SizeNat
<1>2. created[s[1]] \in Nat /\ created'[s[1]] \in Nat /\ created[s[1]] <= created'[s[1]]
  BY <1>1, PoolType
<1> QED
  BY <1>1, <1>2 DEF Exists

\* What a step of t does to the streams: it gives work only to the stream of the call,
\* and takes only streams that exist.
FrontOf(t) == \A s \in Streams : \/ front'[s] = front[s]
                                 \/ WithStream(t) /\ Active(t) /\ s = got[t].stream
GotOf(t) == \/ got'[t] = got[t]
            \/ got'[t].stream = NoStream
            \/ got'[t].stream \in Streams /\ Exists(got'[t].stream)
EventOf(t) == \A i \in Ids : \/ event'[i] = event[i]
                             \/ WithStream(t) /\ event'[i].stream = got[t].stream

LEMMA InUseStep ==
  ASSUME IInv, InUse, NEW t \in Threads, OnlyThread(t), FrontOf(t), GotOf(t), EventOf(t),
         \A p \in Pools : created'[p] \in Nat /\ created[p] <= created'[p]
  PROVE  InUse'
<1>0. \A s \in Streams : Exists(s) => Exists(s)'
  BY ExistsStays
<1>1. WithStream(t) => got[t].stream \in Streams /\ got[t].stream # NoStream
  <2>1. WithStream(t) => got[t].stream \in Streams
    BY DEF IInv, ThreadInv
  <2>2. NoStream \notin Streams
    BY DEF NoStream, Streams
  <2> QED
    BY <2>1, <2>2
<1>2. WithStream(t) => Exists(got[t].stream)
  BY <1>1 DEF InUse
<1>3. ASSUME NEW s \in Streams, front'[s] # {} PROVE Exists(s)'
  <2>1. Exists(s)
    BY <1>2, <1>3 DEF FrontOf, InUse
  <2> QED
    BY <1>0, <2>1
<1>4. ASSUME NEW u \in Threads, got'[u].stream # NoStream PROVE Exists(got[u].stream)'
  <2>0. PICK s : s = got'[u].stream
    OBVIOUS
  <2>1. s \in Streams /\ Exists(s)
    <3>1. got[u].stream \in Streams \cup {NoStream}
      BY DEF IInv, Types, GotRec
    <3> QED
      BY <1>4, <2>0, <3>1 DEF GotOf, OnlyThread, InUse
  <2>2. Exists(s)'
    BY <1>0, <2>1
  <2> QED
    BY <2>0, <2>2 DEF Exists
<1>5. ASSUME NEW i \in Returned' PROVE Exists(event[i].stream)'
  <2>0. PICK s : s = event'[i].stream
    OBVIOUS
  <2>1. i \in Ids /\ event'[i] # NoEvent
    BY <1>5 DEF Returned
  <2>2. event'[i] = event[i] => i \in Returned
    BY <2>1 DEF Returned
  <2>3. s \in Streams /\ Exists(s)
    BY <1>1, <1>2, <2>0, <2>1, <2>2 DEF EventOf, InUse, IInv, Global, ReturnedKnown
  <2>4. Exists(s)'
    BY <1>0, <2>3
  <2> QED
    BY <2>0, <2>4 DEF Exists
<1> QED
  BY <1>3, <1>4, <1>5 DEF InUse, Exists

\* Where a call begins.
StartLabel(op) ==
  CASE op \in Selecting -> "select"
    [] op \in Transfers \cup {"handle"} -> "create"
    [] op = "finish" -> "lockSync"
    [] op = "wait" -> "eventWait"

LEMMA StartLabels ==
  ASSUME NEW op \in Ops
  PROVE  /\ op \in Selecting => StartLabel(op) = "select"
         /\ op \in Transfers \cup {"handle"} => StartLabel(op) = "create"
         /\ op = "finish" => StartLabel(op) = "lockSync"
         /\ op = "wait" => StartLabel(op) = "eventWait"
         /\ StartLabel(op) \in {"select", "create", "lockSync", "eventWait"}
  BY OpsAssumption DEF StartLabel, AllOps, Selecting, Transfers

\* The thread t begins a call.
Called(t, op, q, list) ==
  /\ call'[t].op = op /\ call'[t].q = q /\ call'[t].list = list
  /\ op = "finish" => call'[t].before = Enqueued(q)
  /\ op \notin {"finish", "wait"} =>
       asked'[call'[t].id].after = IF InOrder \/ (op = "barrier" /\ list = {})
                                   THEN Enqueued(q) ELSE Barriers(q)
  /\ pc[t] = "idle" /\ pc'[t] = StartLabel(op) /\ OnlyThread(t)

LEMMA CallParts ==
  ASSUME IInv, NEW t \in Threads, Call(t)
  PROVE  \E op \in Ops, q \in Queues, list \in SUBSET Returned : Called(t, op, q, list)
<1>1. PICK op \in Ops, q \in Queues, list \in SUBSET Returned :
         /\ op \notin {"finish", "wait"} => calls < MaxCalls
         /\ LET id == IF op \in {"finish", "wait"} THEN 0 ELSE calls + 1
                all == IF InOrder \/ (op = "barrier" /\ list = {})
                       THEN Enqueued(q) ELSE Barriers(q)
            IN /\ call' = [call EXCEPT ![t] =
                    [op |-> op, q |-> q, id |-> id, list |-> list,
                     before |-> IF op = "finish" THEN Enqueued(q) ELSE {}]]
               /\ calls' = IF id = 0 THEN calls ELSE id
               /\ asked' = IF id = 0 THEN asked
                    ELSE [asked EXCEPT ![id] = [op |-> op, list |-> list, after |-> all]]
         /\ Goto(t, CASE op \in Selecting -> "select"
                      [] op \in Transfers \cup {"handle"} -> "create"
                      [] op = "finish" -> "lockSync"
                      [] op = "wait" -> "eventWait")
  BY DEF Call
<1>2. PICK id, all, c, a :
         /\ id = IF op \in {"finish", "wait"} THEN 0 ELSE calls + 1
         /\ all = IF InOrder \/ (op = "barrier" /\ list = {}) THEN Enqueued(q) ELSE Barriers(q)
         /\ c = [op |-> op, q |-> q, id |-> id, list |-> list,
                 before |-> IF op = "finish" THEN Enqueued(q) ELSE {}]
         /\ a = [op |-> op, list |-> list, after |-> all]
  OBVIOUS
<1>3. /\ c.op = op /\ c.q = q /\ c.id = id /\ c.list = list /\ a.after = all
      /\ op = "finish" => c.before = Enqueued(q)
  BY <1>2
<1>4. /\ call' = [call EXCEPT ![t] = c] /\ Goto(t, StartLabel(op))
      /\ asked' = IF id = 0 THEN asked ELSE [asked EXCEPT ![id] = a]
  BY <1>1, <1>2 DEF StartLabel
<1>5. op \notin {"finish", "wait"} => id # 0 /\ id \in Ids
  BY SMTT(20), <1>1, <1>2, BoundAssumption DEF IInv, Types, Ids
<1>6. /\ call'[t] = c /\ pc'[t] = StartLabel(op) /\ pc[t] = "idle" /\ OnlyThread(t)
      /\ op \notin {"finish", "wait"} => asked'[id] = a
  BY <1>4, <1>5 DEF IInv, Types, Goto, Call, OnlyThread
<1>7. Called(t, op, q, list)
  BY <1>2, <1>3, <1>6 DEF Called
<1> QED
  BY <1>7

\* A step that takes no stream.
NoTake(t) == /\ OnlyThread(t) /\ FrontOf(t) /\ GotOf(t) /\ EventOf(t)
             /\ index' = index /\ created' = created
             /\ pc[t] # "take" /\ pc'[t] # "take"

\* The steps that touch no stream and make no event.
LEMMA QuietNoTake ==
  ASSUME IInv, NEW t \in Threads,
         \/ Call(t) \/ NoReuse(t) \/ MarkApplied(t) \/ StreamWait(t) \/ LockBarrier(t)
         \/ LockSync(t) \/ LockPool(t) \/ SyncStream(t) \/ SyncedCompute(t)
         \/ FinishLockTransfer(t) \/ SyncedTransfer(t) \/ EventWait(t)
  PROVE  NoTake(t)
<1>0. pc \in [Threads -> Labels] /\ call \in [Threads -> CallRec]
  BY DEF IInv, Types
<1>1. /\ index' = index /\ created' = created /\ front' = front /\ event' = event
      /\ got' = got
  BY DEF Call, NoReuse, MarkApplied, StreamWait, LockBarrier, LockSync, LockPool,
               SyncStream, SyncedCompute, FinishLockTransfer, SyncedTransfer, EventWait,
               indices, events, device
<1>2. FrontOf(t) /\ GotOf(t) /\ EventOf(t)
  BY <1>1 DEF FrontOf, GotOf, EventOf
<1>3. CASE Call(t)
  <2>1. PICK op \in Ops, q \in Queues, list \in SUBSET Returned : Called(t, op, q, list)
    BY <1>3, CallParts
  <2>2. StartLabel(op) # "take"
    BY StartLabels
  <2> QED
    BY <1>1, <1>2, <2>1, <2>2 DEF NoTake, Called
<1>4. CASE ~Call(t)
  <2>1. PICK label : /\ pc' = [pc EXCEPT ![t] = label] \/ pc' = pc
                     /\ label # "take" /\ pc[t] # "take" /\ call' = call
    <3>1. MarkApplied(t) => AfterStream(call[t].op) # "take"
      <4>1. MarkApplied(t) => call[t].op \in EnqueueOps
        BY DEF MarkApplied, IInv, ThreadInv, Active, Fresh
      <4> QED
        BY <4>1 DEF AfterStream, EnqueueOps, Selecting, Transfers
    <3> QED
      BY ZenonT(150), <1>4, <3>1 DEF NoReuse, MarkApplied, StreamWait, LockBarrier, LockSync,
               LockPool, SyncStream, SyncedCompute, FinishLockTransfer, SyncedTransfer,
               EventWait, Goto, callVars
  <2>2. OnlyThread(t) /\ pc'[t] # "take"
    BY <1>0, <1>1, <2>1 DEF OnlyThread
  <2> QED
    BY <1>1, <1>2, <2>1, <2>2 DEF NoTake
<1> QED
  BY <1>3, <1>4

\* A step to another place that gives work to the stream of the call.
LEMMA WorkNoTake ==
  ASSUME IInv, NEW t \in Threads, WithStream(t), Active(t),
         \/ ApplyBarrier(t) \/ EnqueueEventsWait(t) \/ Launch(t) \/ Record(t)
         \/ BarrierCompute(t) \/ BarrierTransfer(t) \/ BarrierEvents(t) \/ BarrierRecord(t)
  PROVE  NoTake(t)
<1>0. /\ pc \in [Threads -> Labels] /\ front \in [Streams -> SUBSET Ids]
      /\ event \in [Ids -> EventRec] /\ deps \in [Ids -> SUBSET Ids]
  BY DEF IInv, Types
<1>1. /\ index' = index /\ created' = created /\ call' = call /\ got' = got
  BY DEF ApplyBarrier, EnqueueEventsWait, Launch, Record, BarrierCompute,
               BarrierTransfer, BarrierEvents, BarrierRecord, indices, callVars
<1>2. FrontOf(t)
  <2>1. front' = front \/ \E F : front' = [front EXCEPT ![got[t].stream] = F]
    BY DEF ApplyBarrier, EnqueueEventsWait, Launch, Record, BarrierCompute,
               BarrierTransfer, BarrierEvents, BarrierRecord, WaitForStreams, Put, device
  <2> QED
    BY <1>0, <2>1 DEF FrontOf
<1>3. EventOf(t)
  <2>1. CASE Record(t)
    <3>1. PICK k, tok, at :
             event' = [event EXCEPT ![call[t].id] = [op |-> call[t].op,
                         stream |-> got[t].stream, id |-> k, token |-> tok, at |-> at]]
      BY <2>1 DEF Record
    <3>2. PICK e : e = [op |-> call[t].op, stream |-> got[t].stream, id |-> k,
                        token |-> tok, at |-> at]
      OBVIOUS
    <3>3. event' = [event EXCEPT ![call[t].id] = e] /\ e.stream = got[t].stream
      BY <3>1, <3>2
    <3> QED
      BY <1>0, <3>3 DEF EventOf
  <2>2. CASE ~Record(t)
    <3>1. event' = event
      BY <2>2 DEF ApplyBarrier, EnqueueEventsWait, Launch, BarrierCompute,
               BarrierTransfer, BarrierEvents, BarrierRecord, events
    <3> QED
      BY <3>1 DEF EventOf
  <2> QED
    BY <2>1, <2>2
<1>4. PICK label : /\ pc' = [pc EXCEPT ![t] = label]
                   /\ label # "take" /\ pc[t] # "take"
  <2>1. ApplyBarrier(t) => AfterStream(call[t].op) # "take"
    <3>1. ApplyBarrier(t) => call[t].op \in EnqueueOps
      BY DEF ApplyBarrier, IInv, ThreadInv, Active, Fresh
    <3> QED
      BY <3>1 DEF AfterStream, EnqueueOps, Selecting, Transfers
  <2> QED
    BY ZenonT(150), <2>1 DEF ApplyBarrier, EnqueueEventsWait, Launch, Record, BarrierCompute,
               BarrierTransfer, BarrierEvents, BarrierRecord, Goto
<1>5. OnlyThread(t) /\ pc'[t] # "take"
  BY <1>0, <1>1, <1>4 DEF OnlyThread
<1> QED
  BY <1>1, <1>2, <1>3, <1>4, <1>5 DEF NoTake, GotOf

LEMMA GotNoTake ==
  ASSUME IInv, InUse, NEW t \in Threads, ReuseStream(t) \/ Return(t)
  PROVE  NoTake(t)
<1>0. /\ pc \in [Threads -> Labels] /\ got \in [Threads -> GotRec]
      /\ call \in [Threads -> CallRec]
  BY DEF IInv, Types
<1>1. index' = index /\ created' = created /\ front' = front /\ event' = event
  BY DEF ReuseStream, Return, indices, events, device
<1>2. PICK label, c, g : /\ pc' = [pc EXCEPT ![t] = label] /\ label # "take"
                         /\ call' = call \/ call' = [call EXCEPT ![t] = c]
                         /\ got' = [got EXCEPT ![t] = g]
                         /\ pc[t] # "take"
  BY DEF ReuseStream, Return, Goto, callVars
<1>3. OnlyThread(t) /\ pc'[t] # "take"
  BY <1>0, <1>2 DEF OnlyThread
<1>4. GotOf(t)
  <2>1. CASE Return(t)
    <3>1. got'[t] = NotGot
      BY <1>0, <2>1 DEF Return
    <3> QED
      BY <3>1 DEF GotOf, NotGot
  <2>2. CASE ReuseStream(t)
    <3>1. PICK e \in Reusable(call[t].q, call[t].list) :
             got' = [got EXCEPT ![t] = [stream |-> event[e].stream,
                                        token |-> event[e].token]]
      BY <2>2 DEF ReuseStream
    <3>2. e \in Returned
      BY <2>2, <3>1 DEF ReuseStream, Reusable, IInv, ThreadInv, Active, Fresh
    <3>3. event[e].stream \in Streams /\ Exists(event[e].stream)
      BY <3>2 DEF InUse, IInv, Global, ReturnedKnown
    <3>4. got'[t].stream = event[e].stream
      BY <1>0, <3>1
    <3> QED
      BY <3>3, <3>4 DEF GotOf
  <2> QED
    BY <2>1, <2>2
<1> QED
  BY <1>1, <1>2, <1>3, <1>4 DEF NoTake, FrontOf, EventOf

\* At which places a call has its stream.
LEMMA StreamPlaces ==
  ASSUME IInv, NEW t \in Threads,
         \/ ApplyBarrier(t) \/ EnqueueEventsWait(t) \/ Launch(t) \/ Record(t)
         \/ BarrierCompute(t) \/ BarrierTransfer(t) \/ BarrierEvents(t) \/ BarrierRecord(t)
  PROVE  WithStream(t) /\ Active(t)
  BY DEF ApplyBarrier, EnqueueEventsWait, Launch, Record, BarrierCompute,
               BarrierTransfer, BarrierEvents, BarrierRecord, WithStream, Active, Fresh

LEMMA NextCreated ==
  ASSUME CountFacts, IInv, CreatedOK, InUse, [Next]_vars
  PROVE  CreatedOK' /\ InUse'
<1>0. created \in [Pools -> Nat] /\ \A p \in Pools : created[p] \in Nat
  BY DEF IInv, Types
<1>1. ASSUME NEW t \in Threads, NoTake(t) PROVE CreatedOK' /\ InUse'
  <2>1. CreatedOK'
    BY <1>1, TakersSame, CreatedKept DEF NoTake
  <2>2. \A p \in Pools : created'[p] \in Nat /\ created[p] <= created'[p]
    BY <1>0, <1>1 DEF NoTake
  <2>3. InUse'
    BY <1>1, <2>2, InUseStep DEF NoTake
  <2> QED
    BY <2>1, <2>3
<1>2. ASSUME NEW t \in Threads, CreateStream(t) PROVE CreatedOK' /\ InUse'
  <2>1. OnlyThread(t) /\ FrontOf(t) /\ GotOf(t) /\ EventOf(t)
    BY <1>2 DEF CreateStream, Goto, OnlyThread, FrontOf, GotOf, EventOf, callVars,
               device, events, IInv, Types
  <2> QED
    BY <1>2, <2>1, CreateCreated, InUseStep
<1>3. ASSUME NEW t \in Threads, TakeStream(t) PROVE CreatedOK' /\ InUse'
  <2>0. PICK p : p = PoolOf(call[t])
    OBVIOUS
  <2>1. CreatedOK' /\ index[p] % Size(p) < created[p]
    BY <1>3, <2>0, TakeCreated
  <2>2. p \in Pools /\ Size(p) # 0
    BY <1>3, <2>0, CallPool DEF Active, Fresh, TakeStream
  <2>3. created' = created /\ OnlyThread(t) /\ FrontOf(t) /\ EventOf(t)
    BY <1>3 DEF TakeStream, Goto, OnlyThread, FrontOf, EventOf, callVars,
               device, events, IInv, Types
  <2>4. GotOf(t)
    <3>1. got' = got \/ got' = [got EXCEPT ![t] = [stream |-> <<p, index[p] % Size(p)>>,
                                                   token |-> index[p]]]
      BY <1>3, <2>0 DEF TakeStream
    <3>2. got'[t] = got[t] \/ got'[t].stream = <<p, index[p] % Size(p)>>
      BY SMTT(20), <3>1 DEF IInv, Types
    <3>3. <<p, index[p] % Size(p)>> \in Streams
      BY <2>2, PoolType, StreamAt
    <3>4. Exists(<<p, index[p] % Size(p)>>)
      BY <2>1 DEF Exists
    <3> QED
      BY <3>2, <3>3, <3>4 DEF GotOf
  <2>5. \A r \in Pools : created'[r] \in Nat /\ created[r] <= created'[r]
    BY <1>0, <2>3
  <2> QED
    BY <2>1, <2>3, <2>4, <2>5, InUseStep
<1>4. CASE Execute
  <2>1. UNCHANGED <<index, created, front, event, got, pc, call>>
    BY <1>4 DEF Execute, indices, events, callVars
  <2> QED
    BY <2>1 DEF CreatedOK, InUse, Takers, Exists, Size, Returned
<1>5. CASE UNCHANGED vars
  <2>1. UNCHANGED <<index, created, front, event, got, pc, call>>
    BY <1>5 DEF vars
  <2> QED
    BY <2>1 DEF CreatedOK, InUse, Takers, Exists, Size, Returned
<1>6. ASSUME NEW t \in Threads, Call(t) \/ Step(t) PROVE CreatedOK' /\ InUse'
  BY <1>1, <1>2, <1>3, <1>6, QuietNoTake, WorkNoTake, GotNoTake, StreamPlaces DEF Step
<1> QED
  BY <1>4, <1>5, <1>6 DEF Next

\* No lock is held by anything but a thread, and only streams are synchronized.
LEMMA NextOtherTypes ==
  ASSUME IInv, OtherTypes, CallsPlaced, [Next]_vars
  PROVE  OtherTypes'
<1>0. /\ delay \in [Streams -> BOOLEAN] /\ applied \in [Streams -> BOOLEAN]
      /\ poolMutex \in [Pools -> Threads \cup {None}]
      /\ syncMutex \in [Queues -> Threads \cup {None}]
      /\ barrierMutex \in [Queues -> Threads \cup {None}]
      /\ range \in [Threads -> SUBSET Streams]
  BY DEF OtherTypes
<1>1. delay' \in [Streams -> BOOLEAN]
  <2>1. CASE delay' = delay
    BY <1>0, <2>1
  <2>2. CASE \E s : \E b \in BOOLEAN : delay' = [delay EXCEPT ![s] = b]
    BY <1>0, <2>2
  <2>3. CASE \E S : delay' = [s \in Streams |-> delay[s] /\ s \notin S]
    BY <1>0, <2>3
  <2>4. ASSUME NEW t \in Threads, ReuseStream(t) \/ TakeStream(t)
        PROVE  delay' \in [Streams -> BOOLEAN]
    BY <2>1, <2>2, <2>4 DEF ReuseStream, TakeStream
  <2>5. ASSUME NEW t \in Threads, SyncStream(t)
        PROVE  delay' \in [Streams -> BOOLEAN]
    BY <2>2, <2>5 DEF SyncStream
  <2>6. ASSUME NEW t \in Threads, BarrierCompute(t)
        PROVE  delay' \in [Streams -> BOOLEAN]
    BY <2>3, <2>6 DEF BarrierCompute
  <2> QED
    BY ZenonT(150), <2>1, <2>4, <2>5, <2>6 DEF Next, Execute, Call, Step, NoReuse, CreateStream,
       ApplyBarrier, MarkApplied, EnqueueEventsWait, Launch, Record, StreamWait, LockSync,
       LockPool, LockBarrier, BarrierTransfer, BarrierEvents, BarrierRecord, SyncedCompute,
       FinishLockTransfer, SyncedTransfer, EventWait, Return, vars, indices
<1>2. applied' \in [Streams -> BOOLEAN]
  <2>1. CASE applied' = applied
    BY <1>0, <2>1
  <2>2. CASE \E s : applied' = [applied EXCEPT ![s] = TRUE]
    BY <1>0, <2>2
  <2>3. CASE \E q : applied' = [s \in Streams |-> applied[s] /\ s[1][1] # q]
    BY <1>0, <2>3
  <2> QED
    BY ZenonT(150), <2>1, <2>2, <2>3 DEF Next, Execute, Call, Step, ReuseStream, NoReuse,
       CreateStream, TakeStream, ApplyBarrier, MarkApplied, EnqueueEventsWait, Launch, Record,
       StreamWait, LockSync, LockPool, LockBarrier, BarrierCompute, BarrierTransfer,
       BarrierEvents, BarrierRecord, SyncStream, SyncedCompute, FinishLockTransfer,
       SyncedTransfer, EventWait, Return, vars, barrierVars
<1>3. poolMutex' \in [Pools -> Threads \cup {None}]
  <2>1. CASE poolMutex' = poolMutex
    BY <1>0, <2>1
  <2>2. CASE \E x, y : y \in Threads \cup {None} /\ poolMutex' = [poolMutex EXCEPT ![x] = y]
    BY <1>0, <2>2
  <2> QED
    BY ZenonT(150), <2>1, <2>2 DEF Next, Execute, Call, Step, ReuseStream, NoReuse,
       CreateStream, TakeStream, ApplyBarrier, MarkApplied, EnqueueEventsWait, Launch, Record,
       StreamWait, LockSync, LockPool, LockBarrier, BarrierCompute, BarrierTransfer,
       BarrierEvents, BarrierRecord, SyncStream, SyncedCompute, FinishLockTransfer,
       SyncedTransfer, EventWait, Return, vars, locks
<1>4. syncMutex' \in [Queues -> Threads \cup {None}]
  <2>1. CASE syncMutex' = syncMutex
    BY <1>0, <2>1
  <2>2. CASE \E x, y : y \in Threads \cup {None} /\ syncMutex' = [syncMutex EXCEPT ![x] = y]
    BY <1>0, <2>2
  <2> QED
    BY ZenonT(150), <2>1, <2>2 DEF Next, Execute, Call, Step, ReuseStream, NoReuse,
       CreateStream, TakeStream, ApplyBarrier, MarkApplied, EnqueueEventsWait, Launch, Record,
       StreamWait, LockSync, LockPool, LockBarrier, BarrierCompute, BarrierTransfer,
       BarrierEvents, BarrierRecord, SyncStream, SyncedCompute, FinishLockTransfer,
       SyncedTransfer, EventWait, Return, vars, locks
<1>5. barrierMutex' \in [Queues -> Threads \cup {None}]
  <2>1. CASE barrierMutex' = barrierMutex
    BY <1>0, <2>1
  <2>2. CASE \E x, y : y \in Threads \cup {None} /\ barrierMutex' = [barrierMutex EXCEPT ![x] = y]
    BY <1>0, <2>2
  <2> QED
    BY ZenonT(150), <2>1, <2>2 DEF Next, Execute, Call, Step, ReuseStream, NoReuse,
       CreateStream, TakeStream, ApplyBarrier, MarkApplied, EnqueueEventsWait, Launch, Record,
       StreamWait, LockSync, LockPool, LockBarrier, BarrierCompute, BarrierTransfer,
       BarrierEvents, BarrierRecord, SyncStream, SyncedCompute, FinishLockTransfer,
       SyncedTransfer, EventWait, Return, vars, locks
<1>6. range' \in [Threads -> SUBSET Streams]
  <2>1. CASE range' = range
    BY <1>0, <2>1
  <2>2. ASSUME NEW t \in Threads, NEW R \in SUBSET Streams, range' = [range EXCEPT ![t] = R]
        PROVE  range' \in [Threads -> SUBSET Streams]
    BY <1>0, <2>2
  <2>3. ASSUME NEW t \in Threads, SyncStream(t) PROVE range' \in [Threads -> SUBSET Streams]
    <3>1. PICK s : range' = [range EXCEPT ![t] = range[t] \ {s}]
      BY <2>3 DEF SyncStream
    <3>2. range[t] \ {s} \in SUBSET Streams
      BY <1>0
    <3> QED
      BY <2>2, <3>1, <3>2
  <2>4. ASSUME NEW t \in Threads, LockPool(t) PROVE range' \in [Threads -> SUBSET Streams]
    <3>1. SyncRange(<<call[t].q, "compute">>) \in SUBSET Streams
      BY <2>4, SyncRangeStreams, SizesAssumption
         DEF LockPool, CallsPlaced, Pools, Size, IInv
    <3> QED
      BY <2>1, <2>2, <2>4, <3>1 DEF LockPool
  <2>5. ASSUME NEW t \in Threads, FinishLockTransfer(t)
        PROVE  range' \in [Threads -> SUBSET Streams]
    <3>1. SyncRange(<<call[t].q, "transfer">>) \in SUBSET Streams
      BY <2>5, SyncRangeStreams, SizesAssumption
         DEF FinishLockTransfer, CallsPlaced, Pools, Size, IInv
    <3> QED
      BY <2>2, <2>5, <3>1 DEF FinishLockTransfer
  <2> QED
    BY ZenonT(150), <2>1, <2>3, <2>4, <2>5 DEF Next, Execute, Call, Step, ReuseStream, NoReuse,
       CreateStream, TakeStream, ApplyBarrier, MarkApplied, EnqueueEventsWait, Launch, Record,
       StreamWait, LockSync, LockBarrier, BarrierCompute, BarrierTransfer,
       BarrierEvents, BarrierRecord, SyncedCompute,
       SyncedTransfer, EventWait, Return, vars
<1> QED
  BY <1>1, <1>2, <1>3, <1>4, <1>5, <1>6 DEF OtherTypes

LEMMA NextCallsPlaced ==
  ASSUME IInv, CallsPlaced, [Next]_vars
  PROVE  CallsPlaced'
<1>0. pc \in [Threads -> Labels] /\ call \in [Threads -> CallRec]
  BY DEF IInv, Types
<1>1. ASSUME NEW t \in Threads, Call(t) PROVE CallsPlaced'
  <2>1. PICK op \in Ops, q \in Queues, list \in SUBSET Returned : Called(t, op, q, list)
    BY <1>1, CallParts
  <2>2. StartLabel(op) # "lockTransfer"
    BY StartLabels
  <2> QED
    BY <2>1, <2>2 DEF CallsPlaced, Called, OnlyThread
<1>2. ASSUME NEW t \in Threads, Return(t) PROVE CallsPlaced'
  BY <1>0, <1>2 DEF Return, Goto, CallsPlaced
<1>3. ASSUME NEW t \in Threads, call' = call, pc[t] # "idle",
             \E label : /\ pc' = [pc EXCEPT ![t] = label]
                        /\ label = "lockTransfer" => TransferStreams # 0
      PROVE  CallsPlaced'
  BY <1>0, <1>3 DEF CallsPlaced
<1>4. CASE pc' = pc /\ call' = call
  BY <1>4 DEF CallsPlaced
<1>5. ASSUME NEW t \in Threads, ApplyBarrier(t) \/ MarkApplied(t)
      PROVE  AfterStream(call[t].op) # "lockTransfer"
  <2>1. call[t].op \in EnqueueOps
    BY <1>5 DEF ApplyBarrier, MarkApplied, IInv, ThreadInv, Active, Fresh
  <2> QED
    BY <2>1 DEF AfterStream, EnqueueOps, Selecting, Transfers
<1>6. ASSUME NEW t \in Threads, Step(t) PROVE CallsPlaced'
  <2>1. CASE Return(t) \/ SyncStream(t)
    BY <1>2, <1>4, <2>1 DEF SyncStream, callVars
  <2>2. CASE ~Return(t) /\ ~SyncStream(t)
    <3>1. call' = call /\ pc[t] # "idle"
      <4>1. CASE ReuseStream(t) \/ NoReuse(t) \/ CreateStream(t) \/ TakeStream(t)
                   \/ ApplyBarrier(t) \/ MarkApplied(t) \/ EnqueueEventsWait(t)
        BY ZenonT(150), <4>1 DEF ReuseStream, NoReuse, CreateStream, TakeStream, ApplyBarrier,
           MarkApplied, EnqueueEventsWait, callVars
      <4>2. CASE Launch(t) \/ Record(t) \/ StreamWait(t) \/ LockSync(t) \/ LockPool(t)
                   \/ LockBarrier(t)
        BY ZenonT(150), <4>2 DEF Launch, Record, StreamWait, LockSync, LockPool, LockBarrier,
           callVars
      <4>3. CASE BarrierCompute(t) \/ BarrierTransfer(t) \/ BarrierEvents(t)
                   \/ BarrierRecord(t)
        BY ZenonT(150), <4>3 DEF BarrierCompute, BarrierTransfer, BarrierEvents, BarrierRecord,
           callVars
      <4>4. CASE SyncedCompute(t) \/ FinishLockTransfer(t) \/ SyncedTransfer(t)
                   \/ EventWait(t)
        BY ZenonT(150), <4>4 DEF SyncedCompute, FinishLockTransfer, SyncedTransfer, EventWait,
           callVars
      <4> QED
        BY <1>6, <2>2, <4>1, <4>2, <4>3, <4>4 DEF Step
    <3>2. \E label : /\ pc' = [pc EXCEPT ![t] = label]
                     /\ label = "lockTransfer" => TransferStreams # 0
      <4>1. CASE ReuseStream(t) \/ NoReuse(t) \/ CreateStream(t) \/ TakeStream(t)
                   \/ EnqueueEventsWait(t)
        BY ZenonT(150), <4>1 DEF ReuseStream, NoReuse, CreateStream, TakeStream,
           EnqueueEventsWait, Goto
      <4>2. CASE ApplyBarrier(t) \/ MarkApplied(t)
        BY ZenonT(150), <1>5, <4>2 DEF ApplyBarrier, MarkApplied, Goto
      <4>3. CASE Launch(t) \/ Record(t) \/ StreamWait(t) \/ LockSync(t) \/ LockPool(t)
                   \/ LockBarrier(t)
        BY ZenonT(150), <4>3 DEF Launch, Record, StreamWait, LockSync, LockPool, LockBarrier,
           Goto
      <4>4. CASE BarrierCompute(t) \/ BarrierTransfer(t) \/ BarrierEvents(t)
                   \/ BarrierRecord(t)
        BY ZenonT(150), <4>4 DEF BarrierCompute, BarrierTransfer, BarrierEvents, BarrierRecord,
           Goto
      <4>5. CASE SyncedCompute(t) \/ FinishLockTransfer(t) \/ SyncedTransfer(t)
                   \/ EventWait(t)
        BY ZenonT(150), <4>5 DEF SyncedCompute, FinishLockTransfer, SyncedTransfer, EventWait,
           Goto
      <4> QED
        BY <1>6, <2>2, <4>1, <4>2, <4>3, <4>4, <4>5 DEF Step
    <3> QED
      BY <1>3, <3>1, <3>2
  <2> QED
    BY <2>1, <2>2
<1> QED
  BY <1>1, <1>4, <1>6 DEF Next, Execute, callVars, vars

-----------------------------------------------------------------------------
\* Which streams have unfinished work, when one thread uses the queues.

OneThread == \A t, u \in Threads : t = u

\* No index has come to the last value of its type.
NoWrap == \A p \in Pools : index[p] < UintMod - 1

\* The stream s was taken with the value k of the counter, since the last finish.
TakenAs(s, k) == /\ k \in lastSync[s[1]] .. index[s[1]] - 1
                 /\ s[2] = k % Size(s[1])
Covered(s) == \E k \in Nat : TakenAs(s, k)
Idle(s) == front[s] \subseteq done
Syncing == {"syncCompute", "syncTransfer"}

Ahead == \A p \in Pools : lastSync[p] <= index[p]

\* A stream with unfinished work was taken since the last finish of its pool, or the
\* finish in progress has yet to wait for it.
PendingCovered ==
  \A s \in Streams : \/ Idle(s) \/ Covered(s)
                     \/ \E t \in Threads : pc[t] \in Syncing /\ s \in range[t]

\* The token of an event tells its stream and, but during a finish, whether it is done.
TokensTell ==
  \A i \in Returned :
    /\ event[i].at = {i}
    /\ event[i].token # NoToken =>
         /\ event[i].stream[1][2] = "compute"
         /\ event[i].token < index[event[i].stream[1]]
         /\ event[i].stream[2] = event[i].token % ComputeStreams
         /\ event[i].token < lastSync[event[i].stream[1]] =>
              \/ i \in done
              \/ \E t \in Threads : pc[t] = "syncCompute" /\ call[t].q = QueueOf(i)

\* The call has a stream taken since the last finish.
HasTaken(t) ==
  WithStream(t) /\ Active(t) =>
    /\ TakenAs(got[t].stream, got[t].token)
    /\ got[t].token \in Nat /\ got[t].token # NoToken
    /\ call[t].op \notin Transfers => got[t].stream[1][2] = "compute"
    /\ pc[t] = "record" => front[got[t].stream] = {call[t].id}

\* How far urQueueFinish has come.
PoolIdle(q, kind) == \A s \in Streams : s[1] = <<q, kind>> => Idle(s)
PoolVisited(t, kind) == \A s \in Streams : s[1] = <<call[t].q, kind>> => Idle(s) \/ s \in range[t]
Finished(t) == pc[t] = "return" /\ call[t].op = "finish"
FinishInv(t) ==
  /\ call[t].op = "finish" => call[t].before \subseteq Enqueued(call[t].q)
  /\ pc[t] = "syncCompute" => PoolVisited(t, "compute")
  /\ pc[t] \in {"lockTransfer", "syncTransfer"} \/ Finished(t) => PoolIdle(call[t].q, "compute")
  /\ pc[t] = "syncTransfer" => PoolVisited(t, "transfer")
  /\ Finished(t) => PoolIdle(call[t].q, "transfer")

SyncInv == /\ Ahead /\ PendingCovered /\ TokensTell
           /\ \A t \in Threads : HasTaken(t) /\ FinishInv(t)

\* Remainders of numbers that are less than the divisor apart.
LEMMA Division ==
  ASSUME NEW n \in Nat, n > 0, NEW a \in Nat
  PROVE  \E q \in Int, r \in Nat : r = a % n /\ r < n /\ a = n * q + r
<1>1. /\ a - n * (a \div n) = a % n /\ a % n \in Nat /\ a % n < n /\ a \div n \in Int
  BY SMTT(20)
<1>2. PICK q \in Int, r \in Nat : q = a \div n /\ r = a % n /\ r < n
  BY <1>1
<1>3. a - n * q = r
  BY <1>1, <1>2
<1>4. a = n * q + r
  BY <1>3
<1> QED
  BY <1>2, <1>4

AddsTo(n, a, d, m) == /\ m = a % n /\ m < n
                      /\ m + d < n => (a + d) % n = m + d
                      /\ m + d >= n => (a + d) % n = m + d - n

LEMMA ModAdd ==
  ASSUME NEW n \in Nat, n > 0, NEW a \in Nat, NEW d \in Nat, d < n
  PROVE  \E m \in Nat : AddsTo(n, a, d, m)
<1>1. PICK k \in Int, m \in Nat : m = a % n /\ m < n /\ a = n * k + m
  BY Division
<1>2. PICK b \in Nat : b = a + d
  BY SMTT(20)
<1>3. ASSUME NEW x \in Int, NEW r \in Nat, r < n, b = n * x + r PROVE b % n = r
  <2>1. PICK y \in Int, z \in Nat : z = b % n /\ z < n /\ b = n * y + z
    BY Division
  <2>2. n * (x - y) = z - r
    BY <1>3, <2>1
  <2>3. x - y <= 0 /\ x - y >= 0
    BY <1>3, <2>1, <2>2
  <2>4. x - y = 0
    BY <2>3
  <2>5. z = r
    BY <2>2, <2>4
  <2> QED
    BY <2>1, <2>5
<1>4. m + d < n => b % n = m + d
  <2>1. m + d \in Nat /\ b = n * k + (m + d)
    BY <1>1, <1>2
  <2> QED
    BY <1>3, <2>1
<1>5. m + d >= n => b % n = m + d - n
  <2>1. /\ m + d >= n => m + d - n \in Nat /\ m + d - n < n
        /\ k + 1 \in Int /\ b = n * (k + 1) + (m + d - n)
    BY <1>1, <1>2
  <2> QED
    BY <1>3, <2>1
<1> QED
  BY <1>1, <1>2, <1>4, <1>5 DEF AddsTo

\* A stream of a pool has a number less than the size of the pool.
LEMMA StreamParts ==
  ASSUME NEW s \in Streams
  PROVE  /\ s[1] \in Pools /\ s = <<s[1], s[2]>> /\ s[2] \in Nat /\ s[2] < Size(s[1])
         /\ Size(s[1]) # 0
<1>1. PICK p \in Pools : \E i \in 0 .. Size(p) - 1 : s = <<p, i>>
  BY DEF Streams
<1> QED
  BY <1>1, SizeNat

\* The streams that were taken since the last finish are in the range that syncStreams
\* visits, as long as no thread is about to take another.
LEMMA RangeCovers ==
  ASSUME CountFacts, IInv, CreatedOK, Ahead, NEW s \in Streams, Covered(s),
         Takers(s[1]) = {}
  PROVE  s \in SyncRange(s[1])
<1>0. PICK p \in Pools, i \in Nat : s = <<p, i>> /\ s[1] = p /\ s[2] = i
  BY StreamParts
<1>1. PICK n \in Nat : n = Size(p) /\ n > 0 /\ n < UintMod /\ i < n
  <2>1. Size(p) \in Nat /\ Size(p) < UintMod /\ i < Size(p)
    BY <1>0, StreamParts, SizeNat
  <2>2. Size(p) > 0
    BY <1>0, <2>1
  <2> QED
    BY <2>1, <2>2
<1>2. PICK last \in Nat, end \in Nat :
         last = lastSync[p] /\ end = index[p] /\ last <= end /\ end < UintMod
  BY <1>0, PoolType DEF Ahead
<1>3. SyncEnd(p) = end
  <2>1. created[p] < Size(p) => created[p] = end + 0
    BY <1>0, <1>2 DEF CreatedOK, CountFacts
  <2> QED
    BY <1>2, <2>1 DEF SyncEnd
<1>4. (end - last) % UintMod = end - last
  BY <1>2, UintAssumption
<1>5. PICK k \in Nat : last <= k /\ k < end /\ i = k % n
  BY <1>0, <1>1, <1>2 DEF Covered, TakenAs
<1>6. i \in (IF end - last >= n THEN 0 .. n - 1
             ELSE IF last % n <= end % n THEN (last % n) .. ((end % n) - 1)
             ELSE ((last % n) .. n - 1) \cup (0 .. ((end % n) - 1)))
  <2>1. CASE end - last >= n
    BY <1>0, <1>1, <2>1
  <2>2. CASE ~(end - last >= n)
    <3>1. PICK d \in Nat, e \in Nat : /\ d = k - last /\ e = end - last
                                      /\ d < e /\ e < n /\ last + d = k /\ last + e = end
      BY <1>1, <1>2, <1>5, <2>2
    <3>2. n > 0 /\ d < n /\ e < n
      BY <1>1, <3>1
    <3>3. PICK a \in Nat : AddsTo(n, last, d, a)
      BY <3>2, ModAdd
    <3>4. PICK c \in Nat : AddsTo(n, last, e, c)
      BY <3>2, ModAdd
    <3>5. PICK b \in Int : /\ b = end % n
                           /\ a + e < n => b = a + e
                           /\ a + e >= n => b = a + e - n
      <4>1. /\ a + e < n => end % n = a + e
            /\ a + e >= n => end % n = a + e - n
        BY <3>1, <3>3, <3>4 DEF AddsTo
      <4>2. a + e \in Int /\ a + e - n \in Int /\ (a + e < n \/ a + e >= n)
        BY <1>1, <3>1
      <4> QED
        BY <4>1, <4>2
    <3>6. /\ a + d < n => i = a + d
          /\ a + d >= n => i = a + d - n
      BY <1>5, <3>1, <3>3 DEF AddsTo
    <3>7. a = last % n /\ a < n
      BY <3>3 DEF AddsTo
    <3>8. i \in (IF a <= b THEN a .. b - 1 ELSE (a .. n - 1) \cup (0 .. b - 1))
      BY <1>1, <3>1, <3>5, <3>6, <3>7
    <3> QED
      BY <2>2, <3>5, <3>7, <3>8
  <2> QED
    BY <2>1, <2>2
<1>7. SyncRange(p) = {<<p, j>> : j \in
         IF end - last >= n THEN 0 .. n - 1
         ELSE IF last % n <= end % n THEN (last % n) .. ((end % n) - 1)
         ELSE ((last % n) .. n - 1) \cup (0 .. ((end % n) - 1))}
  BY <1>1, <1>2, <1>3, <1>4 DEF SyncRange
<1> QED
  BY <1>0, <1>6, <1>7

\* The only thread keeps the invariant if what there is to it holds after its step.
LEMMA SyncAlone ==
  ASSUME OneThread, NEW t \in Threads, Ahead', PendingCovered', TokensTell',
         HasTaken(t)', FinishInv(t)'
  PROVE  SyncInv'
<1>1. \A u \in Threads : u = t
  BY DEF OneThread
<1>2. \A u \in Threads : HasTaken(u)' /\ FinishInv(u)'
  BY <1>1
<1> QED
  BY <1>2 DEF SyncInv

LEMMA NotFinish ==
  ASSUME IInv', NEW t \in Threads, call'[t].op # "finish"
  PROVE  FinishInv(t)'
<1>1. pc'[t] \notin {"syncCompute", "lockTransfer", "syncTransfer"}
  BY DEF IInv, ThreadInv
<1> QED
  BY <1>1 DEF FinishInv, Finished

\* A call that has its stream and is not done is no finish.
LEMMA ActiveOp ==
  ASSUME IInv, NEW t \in Threads, Active(t)
  PROVE  call[t].op # "finish" /\ pc[t] \notin Syncing /\ call[t].op \in EnqueueOps
<1>1. call[t].op \in EnqueueOps
  BY DEF IInv, ThreadInv
<1>2. call[t].op # "finish"
  BY <1>1 DEF EnqueueOps, Selecting, Transfers
<1> QED
  BY <1>1, <1>2 DEF IInv, ThreadInv, Syncing

\* A step that moves no index and gives work to the stream of its call only.
LEMMA SyncKept ==
  ASSUME OneThread, IInv, SyncInv, NEW t \in Threads, pc[t] \notin Syncing,
         index' = index, lastSync' = lastSync, event' = event, done' = done, FrontOf(t)
  PROVE  Ahead' /\ PendingCovered' /\ TokensTell'
<1>1. \A u \in Threads : pc[u] \notin Syncing
  BY DEF OneThread
<1>2. ASSUME NEW s \in Streams PROVE Idle(s)' \/ Covered(s)'
  <2>1. Covered(s) => Covered(s)'
    BY DEF Covered, TakenAs
  <2>2. CASE front'[s] = front[s]
    BY <1>1, <2>1, <2>2 DEF SyncInv, PendingCovered, Idle
  <2>3. CASE WithStream(t) /\ Active(t) /\ s = got[t].stream
    BY <2>1, <2>3 DEF SyncInv, HasTaken, Covered
  <2> QED
    BY <2>2, <2>3 DEF FrontOf
<1>3. TokensTell'
  <2>1. Returned' = Returned
    BY DEF Returned
  <2>2. \A u \in Threads : pc[u] # "syncCompute"
    BY <1>1 DEF Syncing
  <2> QED
    BY <2>1, <2>2 DEF SyncInv, TokensTell
<1> QED
  BY <1>2, <1>3 DEF Ahead, PendingCovered, SyncInv

\* A step of a call that has its stream and has put nothing on it yet.
LEMMA WorkSync ==
  ASSUME OneThread, IInv, IInv', SyncInv, NEW t \in Threads, Fresh(t), WithStream(t),
         index' = index, lastSync' = lastSync, event' = event, done' = done, FrontOf(t),
         call' = call, got' = got,
         launched' = launched \/ front'[got[t].stream] = {call[t].id}
  PROVE  SyncInv'
<1>1. Active(t)
  BY DEF Active
<1>2. Ahead' /\ PendingCovered' /\ TokensTell'
  BY <1>1, ActiveOp, SyncKept
<1>3. FinishInv(t)'
  BY <1>1, ActiveOp, NotFinish
<1>4. HasTaken(t)'
  <2>1. pc'[t] = "record" => front'[got[t].stream] = {call[t].id}
    BY DEF IInv, ThreadInv
  <2> QED
    BY <1>1, <2>1 DEF SyncInv, HasTaken, TakenAs
<1> QED
  BY <1>2, <1>3, <1>4, SyncAlone

LEMMA WorkStepsSync ==
  ASSUME OneThread, IInv, IInv', SyncInv, NEW t \in Threads,
         \/ ApplyBarrier(t) \/ EnqueueEventsWait(t) \/ Launch(t)
         \/ BarrierCompute(t) \/ BarrierTransfer(t) \/ BarrierEvents(t) \/ BarrierRecord(t)
         \/ MarkApplied(t) \/ LockBarrier(t)
         \/ (LockSync(t) \/ LockPool(t)) /\ call[t].op # "finish"
  PROVE  SyncInv'
<1>1. FrontOf(t)
  BY QuietNoTake, WorkNoTake, StreamPlaces DEF NoTake
<1>2. /\ Fresh(t) /\ WithStream(t)
      /\ index' = index /\ lastSync' = lastSync /\ event' = event /\ done' = done
      /\ call' = call /\ got' = got
  BY ZenonT(150) DEF ApplyBarrier, EnqueueEventsWait, Launch, BarrierCompute, BarrierTransfer,
     BarrierEvents, BarrierRecord, MarkApplied, LockBarrier, LockSync, LockPool, Put, Fresh,
     WithStream, indices, events, device, callVars
<1>3. launched' = launched \/ front'[got[t].stream] = {call[t].id}
  <2>1. CASE Launch(t) \/ BarrierRecord(t)
    <3>1. front' = [front EXCEPT ![got[t].stream] = {call[t].id}]
      BY <2>1 DEF Launch, BarrierRecord, Put
    <3>2. front \in [Streams -> SUBSET Ids] /\ got[t].stream \in Streams
      BY <1>2 DEF IInv, Types, ThreadInv
    <3> QED
      BY <3>1, <3>2
  <2>2. CASE ~(Launch(t) \/ BarrierRecord(t))
    BY <2>2 DEF ApplyBarrier, EnqueueEventsWait, BarrierCompute, BarrierTransfer,
       BarrierEvents, MarkApplied, LockBarrier, LockSync, LockPool, device
  <2> QED
    BY <2>1, <2>2
<1> QED
  BY <1>1, <1>2, <1>3, WorkSync

\* The steps of a call that has no stream, or is done with it.
LEMMA IdleStepsSync ==
  ASSUME OneThread, IInv, IInv', SyncInv, NEW t \in Threads,
         \/ NoReuse(t) \/ CreateStream(t) \/ StreamWait(t) \/ EventWait(t) \/ Return(t)
         \/ LockSync(t) /\ call[t].op = "finish"
  PROVE  SyncInv'
<1>0. pc \in [Threads -> Labels] /\ call \in [Threads -> CallRec]
  BY DEF IInv, Types
<1>1. /\ pc[t] \notin Syncing /\ index' = index /\ lastSync' = lastSync /\ event' = event
      /\ done' = done /\ front' = front
  BY DEF NoReuse, CreateStream, StreamWait, EventWait, Return, LockSync, indices,
     events, device, Syncing
<1>2. Ahead' /\ PendingCovered' /\ TokensTell'
  <2>1. FrontOf(t)
    BY <1>1 DEF FrontOf
  <2> QED
    BY <1>1, <2>1, SyncKept
<1>3. HasTaken(t)'
  <2>1. PICK label : /\ pc' = [pc EXCEPT ![t] = label]
                     /\ \/ label \in {"create", "take", "return", "idle"}
                        \/ label = "lockPool" /\ call' = call /\ call[t].op = "finish"
    BY DEF NoReuse, CreateStream, StreamWait, EventWait, Return, LockSync, Goto,
       callVars
  <2>2. pc'[t] = label
    BY <1>0, <2>1
  <2> QED
    BY <2>1, <2>2 DEF HasTaken, WithStream, Active, Fresh
<1>4. FinishInv(t)'
  <2>1. CASE NoReuse(t) \/ CreateStream(t)
    BY <2>1, ActiveOp, NotFinish DEF NoReuse, CreateStream, Active, Fresh, callVars
  <2>2. CASE StreamWait(t) \/ EventWait(t)
    BY <2>2, NotFinish DEF StreamWait, EventWait, callVars, IInv, ThreadInv
  <2>3. CASE Return(t)
    <3>1. call'[t] = NoCall
      BY <1>0, <2>3 DEF Return
    <3>2. NoCall.op = "none"
      BY DEF NoCall
    <3> QED
      BY <3>1, <3>2, NotFinish
  <2>4. CASE LockSync(t)
    <3>1. pc'[t] = "lockPool" /\ call' = call
      BY <1>0, <2>4 DEF LockSync, Goto, callVars
    <3> QED
      BY <1>1, <3>1 DEF FinishInv, Finished, SyncInv, Enqueued, Returned, QueueOf
  <2> QED
    BY <2>1, <2>2, <2>3, <2>4
<1> QED
  BY <1>2, <1>3, <1>4, SyncAlone

LEMMA CallSync ==
  ASSUME OneThread, IInv, IInv', SyncInv, NEW t \in Threads, Call(t)
  PROVE  SyncInv'
<1>0. pc \in [Threads -> Labels] /\ call \in [Threads -> CallRec]
  BY DEF IInv, Types
<1>1. /\ pc[t] \notin Syncing /\ index' = index /\ lastSync' = lastSync /\ event' = event
      /\ done' = done /\ front' = front
  BY DEF Call, indices, events, device, Syncing
<1>2. Ahead' /\ PendingCovered' /\ TokensTell'
  <2>1. FrontOf(t)
    BY <1>1 DEF FrontOf
  <2> QED
    BY <1>1, <2>1, SyncKept
<1>3. PICK op \in Ops, q \in Queues, list \in SUBSET Returned : Called(t, op, q, list)
  BY CallParts
<1>4. /\ call'[t].op = op /\ call'[t].q = q
      /\ op = "finish" => call'[t].before = Enqueued(q)
  BY <1>3 DEF Called
<1>5. /\ pc'[t] \in {"select", "create", "lockSync", "eventWait"}
      /\ pc'[t] = "lockSync" => op = "finish"
  BY <1>3, StartLabels, OpsAssumption DEF Called, AllOps
<1>6. HasTaken(t)'
  BY <1>4, <1>5 DEF HasTaken, WithStream, Active, Fresh
<1>7. FinishInv(t)'
  <2>1. op = "finish" => call'[t].before \subseteq Enqueued(call[t].q)'
    BY <1>1, <1>4 DEF Enqueued, Returned, QueueOf
  <2> QED
    BY <1>4, <1>5, <2>1 DEF FinishInv, Finished
<1> QED
  BY <1>2, <1>6, <1>7, SyncAlone

\* The pool of a stream.
LEMMA PoolParts ==
  ASSUME NEW s \in Streams
  PROVE  s[1] = <<s[1][1], s[1][2]>>
  BY SMTT(20), StreamParts DEF Pools

LEMMA ReuseSync ==
  ASSUME OneThread, IInv, IInv', SyncInv, NEW t \in Threads, ReuseStream(t)
  PROVE  SyncInv'
<1>1. /\ Active(t) /\ index' = index /\ lastSync' = lastSync /\ event' = event
      /\ done' = done /\ front' = front /\ call' = call
  BY DEF ReuseStream, events, device, callVars, Active, Fresh
<1>2. Ahead' /\ PendingCovered' /\ TokensTell'
  <2>1. FrontOf(t)
    BY <1>1 DEF FrontOf
  <2> QED
    BY <1>1, <2>1, ActiveOp, SyncKept
<1>3. FinishInv(t)'
  BY <1>1, ActiveOp, NotFinish
<1>4. PICK e \in Reusable(call[t].q, call[t].list) :
         got' = [got EXCEPT ![t] = [stream |-> event[e].stream, token |-> event[e].token]]
  BY DEF ReuseStream
<1>5. PICK s, k : s = event[e].stream /\ k = event[e].token
  OBVIOUS
<1>6. got'[t].stream = s /\ got'[t].token = k /\ pc'[t] = "apply"
  BY <1>4, <1>5 DEF IInv, Types, ReuseStream, Goto
<1>7. /\ e \in Returned /\ QueueOf(e) = call[t].q /\ k # NoToken
      /\ ~(lastSync[<<call[t].q, "compute">>] > k)
  BY <1>1, <1>5 DEF Reusable, CanReuseStream, HasBeenSynchronized, IInv, ThreadInv
<1>8. /\ s \in Streams /\ s[1][2] = "compute" /\ k < index[s[1]] /\ s[2] = k % ComputeStreams
      /\ s[1][1] = call[t].q
  BY <1>5, <1>7 DEF SyncInv, TokensTell, IInv, Global, ReturnedKnown, QueueOf
<1>9. s[1] = <<call[t].q, "compute">> /\ s[1] \in Pools /\ Size(s[1]) = ComputeStreams
  <2>1. s[1] = <<call[t].q, "compute">>
    BY <1>8, PoolParts
  <2>2. s[1] \in Pools
    BY <1>8, StreamParts
  <2> QED
    BY <1>8, <2>1, <2>2 DEF Size
<1>10. k \in Nat
  <2>1. event[e] \in EventRec
    BY <1>7 DEF Returned, IInv, Types
  <2> QED
    BY SMTT(20), <1>5, <2>1, UintAssumption DEF EventRec, Uint
<1>11. k \in lastSync[s[1]] .. index[s[1]] - 1
  <2>1. index[s[1]] \in Nat /\ lastSync[s[1]] \in Nat
    BY <1>9, PoolType
  <2>2. ~(lastSync[s[1]] > k)
    BY <1>7, <1>9
  <2> QED
    BY <1>8, <1>10, <2>1, <2>2
<1>12. HasTaken(t)'
  BY <1>1, <1>6, <1>7, <1>8, <1>9, <1>10, <1>11 DEF HasTaken, TakenAs
<1> QED
  BY <1>2, <1>3, <1>12, SyncAlone

LEMMA TakeSync ==
  ASSUME OneThread, IInv, IInv', SyncInv, NoWrap, NEW t \in Threads, TakeStream(t)
  PROVE  SyncInv'
<1>0. PICK p : p = PoolOf(call[t])
  OBVIOUS
<1>1. /\ Active(t) /\ lastSync' = lastSync /\ event' = event /\ done' = done
      /\ front' = front /\ call' = call /\ range' = range
      /\ index' = [index EXCEPT ![p] = (@ + 1) % UintMod]
  BY <1>0 DEF TakeStream, events, device, callVars, Active, Fresh
<1>2. p \in Pools /\ Size(p) # 0
  BY <1>0, <1>1, CallPool
<1>3. index'[p] = (index[p] + 1) % UintMod /\ \A r \in Pools : r # p => index'[r] = index[r]
  BY <1>1, <1>2 DEF IInv, Types
<1>4. index[p] \in Nat /\ index[p] < UintMod - 1 /\ lastSync[p] <= index[p] /\ lastSync[p] \in Nat
  BY <1>2, PoolType DEF NoWrap, SyncInv, Ahead
<1>5. index'[p] = index[p] + 1
  BY <1>3, <1>4, UintAssumption
<1>6. ASSUME NEW r \in Pools
      PROVE  /\ index[r] \in Nat /\ index'[r] \in Nat /\ index[r] <= index'[r]
             /\ lastSync[r] \in Nat /\ lastSync[r] <= index'[r]
  <2>1. index[r] \in Nat /\ lastSync[r] \in Nat /\ lastSync[r] <= index[r]
    BY PoolType DEF SyncInv, Ahead
  <2> QED
    BY <1>3, <1>4, <1>5, <2>1
<1>7. \A u \in Threads : pc[u] \notin Syncing
  BY <1>1, ActiveOp DEF OneThread
<1>8. Ahead'
  BY <1>1, <1>6 DEF Ahead
<1>9. PendingCovered'
  <2>1. ASSUME NEW s \in Streams, NEW k \in Nat, TakenAs(s, k) PROVE TakenAs(s, k)'
    <3>1. s[1] \in Pools
      BY StreamParts
    <3> QED
      BY <1>1, <1>6, <2>1, <3>1 DEF TakenAs
  <2> QED
    BY <1>1, <1>7, <2>1 DEF SyncInv, PendingCovered, Covered, Idle
<1>10. TokensTell'
  <2>1. ASSUME NEW i \in Returned, event[i].token < index[event[i].stream[1]]
        PROVE  event[i].token < index'[event[i].stream[1]]
    <3>1. event[i].stream[1] \in Pools /\ event[i] \in EventRec
      BY StreamParts DEF IInv, Global, ReturnedKnown, Types, Returned
    <3>2. event[i].token \in Nat
      BY SMTT(20), <3>1, UintAssumption DEF EventRec, Uint
    <3> QED
      BY <1>6, <2>1, <3>1, <3>2
  <2>2. Returned' = Returned /\ \A u \in Threads : pc[u] # "syncCompute"
    BY <1>1, <1>7 DEF Returned, Syncing
  <2> QED
    BY <1>1, <2>1, <2>2 DEF SyncInv, TokensTell
<1>11. FinishInv(t)'
  BY <1>1, ActiveOp, NotFinish
<1>12. HasTaken(t)'
  <2>1. CASE pc'[t] = "create"
    BY <2>1 DEF HasTaken, WithStream
  <2>2. CASE pc'[t] # "create"
    <3>1. PICK s, k : s = <<p, index[p] % Size(p)>> /\ k = index[p]
      OBVIOUS
    <3>2. pc'[t] = "apply" /\ got' = [got EXCEPT ![t] = [stream |-> s, token |-> k]]
      BY <1>0, <2>2, <3>1 DEF TakeStream, Goto, IInv, Types
    <3>3. got'[t].stream = s /\ got'[t].token = k
      BY <3>2 DEF IInv, Types
    <3>4. s[1] = p /\ s[2] = k % Size(p) /\ k \in Nat
      BY <1>4, <3>1
    <3>5. k \in lastSync[p] .. index'[p] - 1 /\ k # NoToken
      BY <1>4, <1>5, <3>1, UintAssumption DEF NoToken
    <3>6. call[t].op \notin Transfers => p[2] = "compute"
      BY <1>0 DEF PoolOf
    <3> QED
      BY <1>1, <3>2, <3>3, <3>4, <3>5, <3>6 DEF HasTaken, TakenAs
  <2> QED
    BY <2>1, <2>2
<1> QED
  BY <1>8, <1>9, <1>10, <1>11, <1>12, SyncAlone

LEMMA RecordSync ==
  ASSUME OneThread, IInv, IInv', SyncInv, NEW t \in Threads, Record(t)
  PROVE  SyncInv'
<1>0. PICK n, s : n = call[t].id /\ s = got[t].stream
  OBVIOUS
<1>1. /\ Active(t) /\ WithStream(t) /\ index' = index /\ lastSync' = lastSync
      /\ done' = done /\ front' = front /\ call' = call /\ pc[t] = "record"
  BY DEF Record, indices, device, callVars, Active, WithStream
<1>2. \A u \in Threads : pc[u] \notin Syncing
  BY <1>1, ActiveOp DEF OneThread
<1>3. /\ TakenAs(s, got[t].token) /\ got[t].token \in Nat /\ got[t].token # NoToken
      /\ call[t].op \notin Transfers => s[1][2] = "compute"
      /\ front[s] = {n} /\ s \in Streams /\ s[1] \in Pools
  BY <1>0, <1>1, StreamParts DEF SyncInv, HasTaken, IInv, ThreadInv
<1>4. Ahead' /\ PendingCovered'
  BY <1>1, <1>2 DEF SyncInv, Ahead, PendingCovered, Idle, Covered, TakenAs
<1>5. FinishInv(t)'
  BY <1>1, ActiveOp, NotFinish
<1>6. HasTaken(t)'
  <2>1. pc'[t] \in {"streamWait", "return"}
    BY DEF Record, Goto, IInv, Types
  <2> QED
    BY <2>1 DEF HasTaken, Active, Fresh
<1>7. PICK e : /\ event' = [event EXCEPT ![n] = e] /\ e.stream = s /\ e.at = {n}
               /\ e.token = IF call[t].op \in {"kernel", "barrier"} THEN got[t].token ELSE NoToken
  <2>1. PICK k : event' = [event EXCEPT ![n] =
             [op |-> call[t].op, stream |-> s, id |-> k,
              token |-> IF call[t].op \in {"kernel", "barrier"} THEN got[t].token ELSE NoToken,
              at |-> {n}]]
    BY <1>0, <1>3 DEF Record
  <2>2. PICK e : e = [op |-> call[t].op, stream |-> s, id |-> k,
              token |-> IF call[t].op \in {"kernel", "barrier"} THEN got[t].token ELSE NoToken,
              at |-> {n}]
    OBVIOUS
  <2>3. /\ event' = [event EXCEPT ![n] = e] /\ e.stream = s /\ e.at = {n}
        /\ e.token = IF call[t].op \in {"kernel", "barrier"} THEN got[t].token ELSE NoToken
    BY <2>1, <2>2
  <2> QED
    BY <2>3
<1>8. /\ event'[n] = e /\ \A i \in Ids : i # n => event'[i] = event[i]
      /\ Returned' \subseteq Returned \cup {n}
  <2>1. n \in Ids /\ event \in [Ids -> EventRec]
    BY <1>0, <1>1, ActiveId DEF IInv, Types
  <2> QED
    BY <1>7, <2>1 DEF Returned
<1>9. e.token # NoToken => /\ e.token = got[t].token /\ s[1][2] = "compute"
                           /\ Size(s[1]) = ComputeStreams
  <2>1. "kernel" \notin Transfers /\ "barrier" \notin Transfers
    BY DEF Transfers
  <2> QED
    BY <1>3, <1>7, <2>1 DEF Size
<1>10. /\ got[t].token < index[s[1]] /\ ~(got[t].token < lastSync[s[1]])
       /\ s[2] = got[t].token % Size(s[1])
  <2>1. index[s[1]] \in Nat /\ lastSync[s[1]] \in Nat
    BY <1>3, PoolType
  <2> QED
    BY <1>3, <2>1 DEF TakenAs
<1>11. TokensTell'
  <2> SUFFICES ASSUME NEW i \in Returned'
               PROVE  /\ event'[i].at = {i}
                      /\ event'[i].token # NoToken =>
                           /\ event'[i].stream[1][2] = "compute"
                           /\ event'[i].token < index[event'[i].stream[1]]
                           /\ event'[i].stream[2] = event'[i].token % ComputeStreams
                           /\ event'[i].token < lastSync[event'[i].stream[1]] => i \in done
    BY <1>1 DEF TokensTell
  <2>1. CASE i = n
    BY <1>7, <1>8, <1>9, <1>10, <2>1
  <2>2. CASE i # n
    <3>1. i \in Returned /\ event'[i] = event[i]
      BY <1>8, <2>2 DEF Returned
    <3>2. \A u \in Threads : pc[u] # "syncCompute"
      BY <1>2 DEF Syncing
    <3> QED
      BY <3>1, <3>2 DEF SyncInv, TokensTell
  <2> QED
    BY <2>1, <2>2
<1> QED
  BY <1>4, <1>5, <1>6, <1>11, SyncAlone

\* urQueueFinish moves LastSync of a pool to the index and visits the streams between.
LEMMA LockSyncs ==
  ASSUME OneThread, CountFacts, IInv, IInv', CreatedOK, SyncInv, NEW t \in Threads,
         NEW kind \in {"compute", "transfer"}, NEW p \in Pools, p = <<call[t].q, kind>>,
         Size(p) # 0, call[t].op = "finish", call' = call, ~Active(t)', pc[t] \notin Syncing,
         pc[t] # "take", pc'[t] \in Syncing, pc'[t] = "syncCompute" <=> kind = "compute",
         kind = "transfer" => PoolIdle(call[t].q, "compute"),
         range' = [range EXCEPT ![t] = SyncRange(p)], range \in [Threads -> SUBSET Streams],
         lastSync' = [lastSync EXCEPT ![p] = SyncEnd(p)],
         index' = index, event' = event, front' = front, done' = done
  PROVE  SyncInv'
<1>0. range'[t] = SyncRange(p) /\ lastSync'[p] = SyncEnd(p)
      /\ \A r \in Pools : r # p => lastSync'[r] = lastSync[r]
  BY DEF IInv, Types
<1>1. \A u \in Threads : pc[u] \notin Syncing /\ pc[u] # "take"
  BY DEF OneThread
<1>2. Takers(p) = {}
  BY <1>1 DEF Takers
<1>3. lastSync'[p] = index[p]
  <2>1. created[p] < Size(p) => created[p] = index[p] + 0
    BY <1>2 DEF CreatedOK, CountFacts
  <2> QED
    BY SMTT(20), <1>0, <2>1, PoolType DEF SyncEnd
<1>4. Ahead'
  <2>1. index[p] <= index[p]
    BY PoolType
  <2> QED
    BY <1>0, <1>3, <2>1 DEF SyncInv, Ahead
<1>5. ASSUME NEW s \in Streams PROVE Idle(s)' \/ Covered(s)' \/ (s[1] = p /\ s \in range'[t])
  <2>1. Idle(s) \/ Covered(s)
    BY <1>1 DEF SyncInv, PendingCovered
  <2>2. Idle(s) => Idle(s)'
    BY DEF Idle
  <2>3. Covered(s) /\ s[1] = p => s \in range'[t]
    BY <1>0, <1>2, RangeCovers DEF SyncInv
  <2>4. Covered(s) /\ s[1] # p => Covered(s)'
    <3>1. s[1] \in Pools
      BY StreamParts
    <3> QED
      BY <1>0, <3>1 DEF Covered, TakenAs
  <2> QED
    BY <2>1, <2>2, <2>3, <2>4
<1>6. PendingCovered'
  BY <1>5 DEF PendingCovered
<1>7. TokensTell'
  <2>1. Returned' = Returned
    BY DEF Returned
  <2>2. \A u \in Threads : pc[u] # "syncCompute"
    BY <1>1 DEF Syncing
  <2>3. ASSUME NEW i \in Returned, event[i].token # NoToken,
               event[i].token < lastSync'[event[i].stream[1]]
        PROVE  i \in done \/ (pc'[t] = "syncCompute" /\ call'[t].q = QueueOf(i)')
    <3>1. event[i].stream \in Streams /\ event[i].stream[1] \in Pools
      BY StreamParts DEF IInv, Global, ReturnedKnown
    <3>2. CASE event[i].stream[1] # p
      <4>1. event[i].token < lastSync[event[i].stream[1]]
        BY <1>0, <2>3, <3>1, <3>2
      <4> QED
        BY <2>2, <2>3, <4>1 DEF SyncInv, TokensTell
    <3>3. CASE event[i].stream[1] = p
      <4>1. event[i].stream[1][2] = "compute"
        BY <2>3 DEF SyncInv, TokensTell
      <4>2. p[1] = call[t].q /\ p[2] = kind
        OBVIOUS
      <4> QED
        BY <3>3, <4>1, <4>2 DEF QueueOf
    <3> QED
      BY <3>2, <3>3
  <2> QED
    BY <2>1, <2>3 DEF SyncInv, TokensTell
<1>8. HasTaken(t)'
  BY DEF HasTaken
<1>9. FinishInv(t)'
  <2>1. ASSUME NEW s \in Streams, s[1] = p PROVE Idle(s)' \/ s \in range'[t]
    <3>1. ~Covered(s)'
      <4>1. index[p] \in Nat
        BY PoolType
      <4>2. \A k \in Nat : ~(k \in index[p] .. index[p] - 1)
        BY <4>1
      <4> QED
        BY <1>3, <2>1, <4>2 DEF Covered, TakenAs
    <3> QED
      BY <1>5, <3>1
  <2>2. call'[t].before \subseteq Enqueued(call[t].q)'
    BY DEF SyncInv, FinishInv, Enqueued, Returned, QueueOf
  <2>3. CASE kind = "compute"
    BY <2>1, <2>2, <2>3 DEF FinishInv, Finished, PoolVisited, Syncing
  <2>4. CASE kind = "transfer"
    BY <2>1, <2>2, <2>4 DEF FinishInv, Finished, PoolVisited, PoolIdle, Idle, Syncing
  <2> QED
    BY <2>3, <2>4
<1> QED
  BY <1>4, <1>6, <1>7, <1>8, <1>9, SyncAlone

\* A command whose stream has no unfinished work is done.
LEMMA IdleDone ==
  ASSUME IInv, NEW i \in Returned, Idle(event[i].stream)
  PROVE  i \in done
<1>1. Implies(front[event[i].stream], i)
  BY DEF IInv, Global, FrontImplies
<1>2. done \in SUBSET Ids /\ \A k \in done : deps[k] \subseteq done
  BY DEF IInv, Types, Global, DoneClosed
<1> QED
  BY <1>1, <1>2 DEF Implies, Imp, Idle

LEMMA LockStepsSync ==
  ASSUME OneThread, CountFacts, IInv, IInv', CreatedOK, OtherTypes, CallsPlaced, SyncInv,
         NEW t \in Threads,
         (LockPool(t) /\ call[t].op = "finish") \/ FinishLockTransfer(t)
  PROVE  SyncInv'
<1>0. range \in [Threads -> SUBSET Streams] /\ pc \in [Threads -> Labels]
  BY DEF OtherTypes, IInv, Types
<1>1. /\ index' = index /\ event' = event /\ front' = front /\ done' = done /\ call' = call
      /\ pc[t] \notin Syncing /\ pc[t] # "take" /\ pc[t] # "idle"
  BY DEF LockPool, FinishLockTransfer, events, device, callVars, Syncing
<1>2. call[t].op = "finish" /\ call[t].q \in Queues
  BY <1>1 DEF FinishLockTransfer, IInv, ThreadInv, CallsPlaced
<1>3. CASE LockPool(t)
  <2>0. PICK p : p = <<call[t].q, "compute">>
    OBVIOUS
  <2>1. /\ range' = [range EXCEPT ![t] = SyncRange(p)]
        /\ lastSync' = [lastSync EXCEPT ![p] = SyncEnd(p)] /\ pc'[t] = "syncCompute"
    BY <1>0, <1>2, <1>3, <2>0 DEF LockPool, Goto
  <2>2. p \in Pools /\ Size(p) # 0
    BY <1>2, <2>0, SizesAssumption DEF Pools, Size
  <2>3. ~Active(t)' /\ pc'[t] \in Syncing
    BY <2>1 DEF Active, Fresh, Syncing
  <2> QED
    BY <1>0, <1>1, <1>2, <2>0, <2>1, <2>2, <2>3, LockSyncs
<1>4. CASE FinishLockTransfer(t)
  <2>0. PICK p : p = <<call[t].q, "transfer">>
    OBVIOUS
  <2>1. /\ range' = [range EXCEPT ![t] = SyncRange(p)]
        /\ lastSync' = [lastSync EXCEPT ![p] = SyncEnd(p)] /\ pc'[t] = "syncTransfer"
        /\ pc[t] = "lockTransfer"
    BY <1>0, <1>4, <2>0 DEF FinishLockTransfer, Goto
  <2>2. p \in Pools /\ Size(p) # 0
    BY <1>2, <2>0, <2>1 DEF Pools, Size, CallsPlaced
  <2>3. ~Active(t)' /\ pc'[t] \in Syncing /\ pc'[t] # "syncCompute"
    BY <2>1 DEF Active, Fresh, Syncing
  <2>4. PoolIdle(call[t].q, "compute")
    BY <2>1 DEF SyncInv, FinishInv
  <2> QED
    BY <1>0, <1>1, <1>2, <2>0, <2>1, <2>2, <2>3, <2>4, LockSyncs
<1> QED
  BY <1>3, <1>4

LEMMA SyncStreamSync ==
  ASSUME OneThread, IInv, IInv', OtherTypes, SyncInv, NEW t \in Threads, SyncStream(t)
  PROVE  SyncInv'
<1>0. range \in [Threads -> SUBSET Streams]
  BY DEF OtherTypes
<1>1. /\ index' = index /\ lastSync' = lastSync /\ event' = event /\ front' = front
      /\ done' = done /\ call' = call /\ got' = got /\ pc' = pc /\ pc[t] \in Syncing
  BY DEF SyncStream, events, device, callVars, Syncing
<1>2. PICK s \in range[t] : Idle(s) /\ range' = [range EXCEPT ![t] = range[t] \ {s}]
  BY DEF SyncStream, Idle
<1>3. range'[t] = range[t] \ {s} /\ \A r : Idle(r)' = Idle(r)
  BY <1>0, <1>1, <1>2 DEF Idle
<1>4. \A u \in Threads : u = t
  BY DEF OneThread
<1>5. PendingCovered'
  BY <1>1, <1>2, <1>3, <1>4 DEF SyncInv, PendingCovered, Covered, TakenAs
<1>6. Ahead' /\ TokensTell'
  BY <1>1 DEF SyncInv, Ahead, TokensTell, Returned, QueueOf
<1>7. HasTaken(t)'
  BY <1>1 DEF SyncInv, HasTaken, WithStream, Active, Fresh, TakenAs
<1>8. FinishInv(t)'
  BY <1>1, <1>2, <1>3 DEF SyncInv, FinishInv, Finished, PoolIdle, PoolVisited,
     Enqueued, Returned, QueueOf
<1> QED
  BY <1>5, <1>6, <1>7, <1>8, SyncAlone

LEMMA SyncedStepsSync ==
  ASSUME OneThread, IInv, IInv', SyncInv, NEW t \in Threads,
         SyncedCompute(t) \/ SyncedTransfer(t)
  PROVE  SyncInv'
<1>1. /\ index' = index /\ lastSync' = lastSync /\ event' = event /\ front' = front
      /\ done' = done /\ call' = call /\ range[t] = {}
      /\ \A r : Idle(r)' = Idle(r)
  BY DEF SyncedCompute, SyncedTransfer, indices, events, device, callVars, Idle
<1>2. /\ SyncedCompute(t) => /\ pc[t] = "syncCompute"
                             /\ TransferStreams # 0 => pc'[t] = "lockTransfer"
                             /\ TransferStreams = 0 => pc'[t] = "return"
      /\ SyncedTransfer(t) => pc[t] = "syncTransfer" /\ pc'[t] = "return"
  BY DEF SyncedCompute, SyncedTransfer, Goto, IInv, Types
<1>3. \A u \in Threads : u = t
  BY DEF OneThread
<1>4. Ahead' /\ PendingCovered'
  BY <1>1, <1>3 DEF SyncInv, Ahead, PendingCovered, Covered, TakenAs
<1>5. SyncedCompute(t) => PoolIdle(call[t].q, "compute")
  BY <1>1, <1>2 DEF SyncInv, FinishInv, PoolVisited, PoolIdle
<1>6. TokensTell'
  <2>1. ASSUME NEW i \in Returned, event[i].token # NoToken, pc[t] = "syncCompute",
               call[t].q = QueueOf(i)
        PROVE  i \in done
    <3>1. SyncedCompute(t)
      BY <1>2, <2>1
    <3>2. event[i].stream \in Streams /\ event[i].stream[1][2] = "compute"
      BY <2>1 DEF SyncInv, TokensTell, IInv, Global, ReturnedKnown
    <3>3. event[i].stream[1] = <<call[t].q, "compute">>
      BY <2>1, <3>2, PoolParts DEF QueueOf
    <3> QED
      BY <1>5, <3>1, <3>2, <3>3, IdleDone DEF PoolIdle
  <2>2. Returned' = Returned
    BY <1>1 DEF Returned
  <2> QED
    BY <1>1, <1>3, <2>1, <2>2 DEF SyncInv, TokensTell
<1>7. HasTaken(t)'
  BY <1>2 DEF HasTaken, Active, Fresh
<1>8. FinishInv(t)'
  <2>1. call[t].op = "finish" => call'[t].before \subseteq Enqueued(call[t].q)'
    BY <1>1 DEF SyncInv, FinishInv, Enqueued, Returned, QueueOf
  <2>2. PoolIdle(call[t].q, "compute")
    BY <1>2, <1>5 DEF SyncInv, FinishInv
  <2>3. pc'[t] = "return" => PoolIdle(call[t].q, "transfer")
    <3>1. CASE SyncedTransfer(t)
      BY <1>1, <1>2, <3>1 DEF SyncInv, FinishInv, PoolVisited, PoolIdle
    <3>2. CASE TransferStreams = 0
      <4>1. ASSUME NEW s \in Streams, NEW q, s[1] = <<q, "transfer">> PROVE FALSE
        BY <3>2, <4>1, StreamParts DEF Size
      <4> QED
        BY <4>1 DEF PoolIdle
    <3> QED
      BY <1>2, <3>1, <3>2
  <2> QED
    BY <1>1, <1>2, <2>1, <2>2, <2>3 DEF FinishInv, Finished, PoolIdle
<1> QED
  BY <1>4, <1>6, <1>7, <1>8, SyncAlone

LEMMA ExecuteSync ==
  ASSUME SyncInv, Execute \/ UNCHANGED vars
  PROVE  SyncInv'
<1>1. /\ index' = index /\ lastSync' = lastSync /\ event' = event /\ front' = front
      /\ done \subseteq done' /\ call' = call /\ got' = got /\ pc' = pc /\ range' = range
  BY DEF Execute, vars, indices, events, callVars
<1>2. \A s : Idle(s) => Idle(s)'
  BY <1>1 DEF Idle
<1>3. Ahead' /\ PendingCovered'
  BY <1>1, <1>2 DEF SyncInv, Ahead, PendingCovered, Covered, TakenAs
<1>4. TokensTell'
  BY <1>1 DEF SyncInv, TokensTell, Returned, QueueOf
<1>5. ASSUME NEW t \in Threads PROVE HasTaken(t)' /\ FinishInv(t)'
  <2>1. HasTaken(t)'
    BY <1>1 DEF SyncInv, HasTaken, WithStream, Active, Fresh, TakenAs
  <2>2. FinishInv(t)'
    BY <1>1, <1>2 DEF SyncInv, FinishInv, Finished, PoolIdle, PoolVisited,
       Enqueued, Returned, QueueOf
  <2> QED
    BY <2>1, <2>2
<1> QED
  BY <1>3, <1>4, <1>5 DEF SyncInv

LEMMA NextSync ==
  ASSUME OneThread, CountFacts, IInv, IInv', CreatedOK, OtherTypes, CallsPlaced, NoWrap,
         SyncInv, [Next]_vars
  PROVE  SyncInv'
<1>1. ASSUME NEW t \in Threads, Call(t) \/ Step(t) PROVE SyncInv'
  BY <1>1, CallSync, WorkStepsSync, IdleStepsSync, ReuseSync, TakeSync, RecordSync,
     LockStepsSync, SyncStreamSync, SyncedStepsSync DEF Step
<1> QED
  BY <1>1, ExecuteSync DEF Next

LEMMA InitSync ==
  ASSUME Init
  PROVE  SyncInv
<1>1. Returned = {} /\ \A t \in Threads : pc[t] = "idle" /\ call[t] = NoCall
  BY DEF Init, Returned
<1>2. Ahead
  <2>1. \A p \in Pools : lastSync[p] = index[p]
    BY DEF Init
  <2>2. \A p \in Pools : index[p] <= index[p]
    BY InitIInv, PoolType
  <2> QED
    BY <2>1, <2>2 DEF Ahead
<1>3. PendingCovered
  BY DEF PendingCovered, Idle, Init
<1>4. TokensTell
  BY <1>1 DEF TokensTell
<1>5. NoCall.op = "none"
  BY DEF NoCall
<1>6. \A t \in Threads : HasTaken(t) /\ FinishInv(t)
  BY <1>1, <1>5 DEF HasTaken, Active, Fresh, FinishInv, Finished
<1> QED
  BY <1>2, <1>3, <1>4, <1>6 DEF SyncInv

-----------------------------------------------------------------------------
\* What the stream of a call waits for, when one thread uses the queues.

\* Done already, or done whenever the commands of A are.
Met(A, i) == i \in done \/ Implies(A, i)

\* BarrierEvent stands for every barrier of its queue, and so does a stream that has
\* applied it.
BarriersHeld ==
  \A q \in Queues : \A b \in Barriers(q) :
    barrierEvent[q].made /\ Implies(barrierEvent[q].at, b)
AppliedHold ==
  \A s \in Streams : applied[s] => \A b \in Barriers(s[1][1]) : Implies(front[s], b)

\* A launched command waits for everything it was to run after.
DepsMeet ==
  \A i \in launched : \A j \in asked[i].list \cup asked[i].after : Met(deps[i], j)

\* The commands the call of t comes after, beyond its wait list.
After(t) == IF InOrder \/ (call[t].op = "barrier" /\ call[t].list = {})
            THEN Enqueued(call[t].q) ELSE Barriers(call[t].q)
AskedAfter(t) ==
  Fresh(t) => call[t].op # "native" /\ asked[call[t].id].after \subseteq After(t)

\* The stream of the call has the barriers of the queue ahead of the command.
SeesBarriers(t) ==
  Fresh(t) /\ WithStream(t) /\ pc[t] # "apply" =>
    \A b \in Barriers(call[t].q) : Implies(front[got[t].stream], b)

\* How far urEnqueueEventsWaitWithBarrier has come.
AllMet(t, S) == \A i \in S : Met(front[got[t].stream], i)
OfKind(q, kind) == {i \in Enqueued(q) : event[i].stream[1][2] = kind}
BarrierInv(t) ==
  /\ pc[t] = "barrierEvents" => call[t].list # {}
  /\ Fresh(t) /\ pc[t] \in {"lockSync", "lockPool", "barrierCompute", "barrierTransfer"}
       => call[t].list = {}
  /\ pc[t] = "barrierTransfer" => AllMet(t, OfKind(call[t].q, "compute"))
  /\ pc[t] = "barrierRecord" => /\ AllMet(t, call[t].list)
                                /\ call[t].list = {} => AllMet(t, Enqueued(call[t].q))
  /\ pc[t] = "record" /\ call[t].op = "barrier" =>
       /\ \A s \in Streams : s[1][1] = call[t].q => ~applied[s]
       /\ barrierEvent[call[t].q].made /\ barrierEvent[call[t].q].at = {call[t].id}

OrderInv(t) == /\ AskedAfter(t) /\ SeesBarriers(t) /\ BarrierInv(t)
               /\ pc[t] = "launch" => call[t].op \in WaitingOps

OrderIInv == BarriersHeld /\ AppliedHold /\ DepsMeet /\ \A t \in Threads : OrderInv(t)

\* No step takes an implication away.
Stable ==
  /\ \A A, i : Implies(A, i) => Imp(launched', deps', A, i)
  /\ \A s \in Streams : \A i : Implies(front[s], i) => Imp(launched', deps', front'[s], i)
  /\ done \subseteq done'

LEMMA GrowStable ==
  ASSUME launched' = launched, deps' = deps, done \subseteq done',
         \A s \in Streams : front[s] \subseteq front'[s]
  PROVE  Stable
<1>1. \A s \in Streams : \A i : Implies(front[s], i) => Imp(launched', deps', front'[s], i)
  BY ImpMono DEF Implies
<1> QED
  BY <1>1 DEF Stable, Implies

LEMMA MetStays ==
  ASSUME Stable
  PROVE  /\ \A A, i : Met(A, i) => i \in done' \/ Imp(launched', deps', A, i)
         /\ \A s \in Streams : \A i :
              Met(front[s], i) => i \in done' \/ Imp(launched', deps', front'[s], i)
  BY DEF Stable, Met

\* A step that records no event and no barrier.
LEMMA HeldKept ==
  ASSUME BarriersHeld, AppliedHold, Stable, event' = event, barrierEvent' = barrierEvent
  PROVE  /\ BarriersHeld'
         /\ applied' = applied => AppliedHold'
         /\ \A q : Enqueued(q)' = Enqueued(q) /\ Barriers(q)' = Barriers(q)
<1>1. \A q : Enqueued(q)' = Enqueued(q) /\ Barriers(q)' = Barriers(q)
  BY DEF Barriers, Enqueued, Returned, QueueOf
<1>2. BarriersHeld'
  BY <1>1 DEF BarriersHeld, Stable, Implies
<1>3. applied' = applied => AppliedHold'
  BY <1>1 DEF AppliedHold, Stable, Implies
<1> QED
  BY <1>1, <1>2, <1>3

LEMMA DepsKept ==
  ASSUME DepsMeet, Stable, launched' = launched, deps' = deps,
         \A i \in launched : asked'[i] = asked[i]
  PROVE  DepsMeet'
  BY MetStays DEF DepsMeet, Met, Implies

\* The call goes on with the same command.
LEMMA AskedKept ==
  ASSUME NEW t \in Threads, AskedAfter(t), Fresh(t), event' = event, call' = call,
         asked' = asked
  PROVE  AskedAfter(t)'
<1>1. After(t)' = After(t)
  BY DEF After, Barriers, Enqueued, Returned, QueueOf
<1> QED
  BY <1>1 DEF AskedAfter

LEMMA OrderAlone ==
  ASSUME OneThread, NEW t \in Threads, BarriersHeld', AppliedHold', DepsMeet', OrderInv(t)'
  PROVE  OrderIInv'
<1>1. \A u \in Threads : u = t
  BY DEF OneThread
<1> QED
  BY <1>1 DEF OrderIInv

\* A step that touches neither the device, the events nor the barriers, and after which
\* the call has no command or no stream yet.
LEMMA QuietOrder ==
  ASSUME OneThread, OrderIInv, NEW t \in Threads, event' = event,
         barrierEvent' = barrierEvent, applied' = applied, front' = front, deps' = deps,
         launched' = launched, done' = done, asked' = asked,
         \/ ~Active(t)'
         \/ Fresh(t) /\ call' = call /\ pc'[t] \in {"create", "take", "apply"}
  PROVE  OrderIInv'
<1>1. Stable
  BY GrowStable
<1>2. BarriersHeld' /\ AppliedHold' /\ DepsMeet'
  BY <1>1, HeldKept, DepsKept DEF OrderIInv
<1>3. CASE ~Active(t)'
  BY <1>2, <1>3, OrderAlone DEF OrderInv, AskedAfter, SeesBarriers, BarrierInv, Active, Fresh
<1>4. CASE Fresh(t) /\ call' = call /\ pc'[t] \in {"create", "take", "apply"}
  <2>1. AskedAfter(t)'
    BY <1>4, AskedKept DEF OrderIInv, OrderInv
  <2>2. SeesBarriers(t)' /\ BarrierInv(t)' /\ pc'[t] # "launch"
    BY <1>4 DEF SeesBarriers, WithStream, BarrierInv
  <2> QED
    BY <1>2, <2>1, <2>2, OrderAlone DEF OrderInv
<1> QED
  BY <1>3, <1>4

LEMMA QuietStepsOrder ==
  ASSUME OneThread, IInv, OrderIInv, NEW t \in Threads,
         \/ ReuseStream(t) \/ NoReuse(t) \/ CreateStream(t) \/ TakeStream(t)
         \/ StreamWait(t) \/ EventWait(t) \/ Return(t)
         \/ SyncStream(t) \/ SyncedCompute(t) \/ FinishLockTransfer(t) \/ SyncedTransfer(t)
         \/ (LockSync(t) \/ LockPool(t)) /\ call[t].op = "finish"
  PROVE  OrderIInv'
<1>0. pc \in [Threads -> Labels]
  BY DEF IInv, Types
<1>1. /\ event' = event /\ barrierEvent' = barrierEvent /\ applied' = applied
      /\ front' = front /\ deps' = deps /\ launched' = launched /\ done' = done
      /\ asked' = asked
  BY ZenonT(150) DEF ReuseStream, NoReuse, CreateStream, TakeStream, StreamWait, EventWait,
     Return, SyncStream, SyncedCompute, FinishLockTransfer, SyncedTransfer, LockSync,
     LockPool, barrierVars, events, device, callVars
<1>2. CASE ReuseStream(t) \/ NoReuse(t) \/ CreateStream(t) \/ TakeStream(t)
  <2>1. Fresh(t) /\ call' = call
    BY <1>2 DEF ReuseStream, NoReuse, CreateStream, TakeStream, callVars, Fresh
  <2>2. pc'[t] \in {"create", "take", "apply"}
    BY <1>0, <1>2 DEF ReuseStream, NoReuse, CreateStream, TakeStream, Goto
  <2> QED
    BY <1>1, <2>1, <2>2, QuietOrder
<1>3. CASE StreamWait(t) \/ EventWait(t) \/ Return(t) \/ SyncStream(t) \/ SyncedCompute(t)
           \/ FinishLockTransfer(t) \/ SyncedTransfer(t)
  <2>1. pc'[t] \in {"return", "idle", "syncCompute", "syncTransfer", "lockTransfer"}
    BY <1>0, <1>3 DEF StreamWait, EventWait, Return, SyncStream, SyncedCompute,
       FinishLockTransfer, SyncedTransfer, Goto
  <2> QED
    BY <1>1, <2>1, QuietOrder DEF Active, Fresh
<1>4. CASE (LockSync(t) \/ LockPool(t)) /\ call[t].op = "finish"
  <2>1. pc'[t] \in {"lockPool", "syncCompute"} /\ call' = call
    BY <1>0, <1>4 DEF LockSync, LockPool, Goto, callVars
  <2> QED
    BY <1>1, <1>4, <2>1, QuietOrder DEF Active, Fresh
<1> QED
  BY <1>2, <1>3, <1>4

LEMMA CallOrder ==
  ASSUME OneThread, "native" \notin Ops, IInv, OrderIInv, NEW t \in Threads, Call(t)
  PROVE  OrderIInv'
<1>1. /\ event' = event /\ barrierEvent' = barrierEvent /\ applied' = applied
      /\ front' = front /\ deps' = deps /\ launched' = launched /\ done' = done
  BY DEF Call, barrierVars, events, device
<1>2. Stable
  BY <1>1, GrowStable
<1>3. PICK op \in Ops, q \in Queues, list \in SUBSET Returned : Called(t, op, q, list)
  BY CallParts
<1>4. \A i \in launched : asked'[i] = asked[i]
  <2>1. \E a : asked' = asked \/ asked' = [asked EXCEPT ![calls + 1] = a]
    BY DEF Call
  <2>2. \A i \in launched : i # calls + 1 /\ i \in Ids
    BY SMTT(20) DEF IInv, Types
  <2> QED
    BY <2>1, <2>2 DEF IInv, Types
<1>5. BarriersHeld' /\ AppliedHold' /\ DepsMeet'
  BY <1>1, <1>2, <1>4, HeldKept, DepsKept DEF OrderIInv
<1>6. /\ pc'[t] \in {"select", "create", "lockSync", "eventWait"}
      /\ pc'[t] = "lockSync" => op = "finish"
      /\ pc'[t] \in {"select", "create"} => op \notin {"finish", "wait"}
      /\ op # "native"
  BY <1>3, StartLabels, OpsAssumption DEF Called, AllOps
<1>7. AskedAfter(t)'
  <2>1. \A r : Enqueued(r)' = Enqueued(r) /\ Barriers(r)' = Barriers(r)
    BY <1>1, <1>2, HeldKept DEF OrderIInv
  <2>2. Fresh(t)' => op \notin {"finish", "wait"}
    BY <1>3, <1>6 DEF Fresh, Called
  <2> QED
    BY <1>3, <1>6, <2>1, <2>2 DEF AskedAfter, After, Called
<1>8. SeesBarriers(t)' /\ BarrierInv(t)' /\ pc'[t] # "launch"
  BY <1>3, <1>6 DEF SeesBarriers, WithStream, BarrierInv, Fresh, Called
<1> QED
  BY <1>5, <1>7, <1>8, OrderAlone DEF OrderInv

\* A step of a call that has its stream, short of putting its command there.
WorkStep(t) ==
  /\ Fresh(t) /\ WithStream(t)
  /\ event' = event /\ barrierEvent' = barrierEvent /\ asked' = asked /\ call' = call
  /\ got' = got /\ launched' = launched /\ deps' = deps /\ done' = done
  /\ \A s \in Streams : front[s] \subseteq front'[s]

LEMMA WorkSteps ==
  ASSUME IInv, NEW t \in Threads,
         \/ ApplyBarrier(t) \/ MarkApplied(t) \/ EnqueueEventsWait(t) \/ LockBarrier(t)
         \/ (LockSync(t) \/ LockPool(t)) /\ call[t].op # "finish"
         \/ BarrierCompute(t) \/ BarrierTransfer(t) \/ BarrierEvents(t)
  PROVE  WorkStep(t)
<1>1. Fresh(t) /\ WithStream(t)
  BY DEF ApplyBarrier, MarkApplied, EnqueueEventsWait, LockBarrier, LockSync, LockPool,
     BarrierCompute, BarrierTransfer, BarrierEvents, Fresh, WithStream
<1>2. /\ event' = event /\ barrierEvent' = barrierEvent /\ asked' = asked /\ call' = call
      /\ got' = got /\ launched' = launched /\ deps' = deps /\ done' = done
  BY ZenonT(150) DEF ApplyBarrier, MarkApplied, EnqueueEventsWait, LockBarrier, LockSync,
     LockPool, BarrierCompute, BarrierTransfer, BarrierEvents, barrierVars, events, device,
     callVars
<1>3. \E W : front' = front \/ front' = [front EXCEPT ![got[t].stream] = @ \cup W]
  <2>1. CASE ApplyBarrier(t)
    BY <2>1 DEF ApplyBarrier
  <2>2. CASE EnqueueEventsWait(t)
    BY <2>2 DEF EnqueueEventsWait
  <2>3. CASE BarrierCompute(t) \/ BarrierTransfer(t)
    BY <2>3 DEF BarrierCompute, BarrierTransfer, WaitForStreams
  <2>4. CASE BarrierEvents(t)
    BY <2>4 DEF BarrierEvents
  <2>5. CASE MarkApplied(t) \/ LockBarrier(t) \/ LockSync(t) \/ LockPool(t)
    BY <2>5 DEF MarkApplied, LockBarrier, LockSync, LockPool, device
  <2> QED
    BY <2>1, <2>2, <2>3, <2>4, <2>5
<1>4. front \in [Streams -> SUBSET Ids]
  BY DEF IInv, Types
<1>5. \A s \in Streams : front[s] \subseteq front'[s]
  BY <1>3, <1>4
<1> QED
  BY <1>1, <1>2, <1>5 DEF WorkStep

\* What is left to show of such a step.
LEMMA WorkOrder ==
  ASSUME OneThread, OrderIInv, IInv, NEW t \in Threads, WorkStep(t),
         applied' = applied \/ AppliedHold', pc[t] # "apply" \/ SeesBarriers(t)',
         BarrierInv(t)', pc'[t] = "launch" => call[t].op \in WaitingOps
  PROVE  OrderIInv'
<1>1. Stable
  BY GrowStable DEF WorkStep
<1>2. BarriersHeld' /\ AppliedHold' /\ DepsMeet'
  BY <1>1, HeldKept, DepsKept DEF OrderIInv, WorkStep
<1>3. AskedAfter(t)'
  BY AskedKept DEF OrderIInv, OrderInv, WorkStep
<1>4. SeesBarriers(t)'
  <2>1. CASE pc[t] # "apply"
    <3>1. \A b \in Barriers(call[t].q) : Implies(front[got[t].stream], b)
      BY <2>1 DEF WorkStep, OrderIInv, OrderInv, SeesBarriers
    <3>2. got[t].stream \in Streams /\ got' = got /\ call' = call
      BY DEF WorkStep, IInv, ThreadInv
    <3>3. Barriers(call[t].q)' = Barriers(call[t].q)
      BY DEF WorkStep, Barriers, Enqueued, Returned, QueueOf
    <3> QED
      BY <1>1, <3>1, <3>2, <3>3 DEF SeesBarriers, Stable, Implies
  <2> QED
    BY <2>1
<1> QED
  BY <1>2, <1>3, <1>4, OrderAlone DEF OrderInv, WorkStep

\* Where a call goes on with its stream.
LEMMA AfterLabels ==
  ASSUME NEW op \in EnqueueOps, op # "native"
  PROVE  /\ AfterStream(op) \in {"waits", "lockBarrier", "return"}
         /\ AfterStream(op) = "waits" => op \in WaitingOps
  BY DEF AfterStream, EnqueueOps, Selecting, Transfers, WaitingOps

\* The stream waits for the last barrier, or has done so, or there was none.
LEMMA ApplyOrder ==
  ASSUME OneThread, IInv, OrderIInv, NEW t \in Threads, ApplyBarrier(t)
  PROVE  OrderIInv'
<1>0. PICK q, s : q = call[t].q /\ s = got[t].stream
  OBVIOUS
<1>1. /\ WorkStep(t) /\ applied' = applied /\ pc[t] = "apply" /\ Fresh(t) /\ WithStream(t)
      /\ event' = event /\ call' = call /\ got' = got
  BY WorkSteps DEF ApplyBarrier, barrierVars, WorkStep
<1>2. Stable
  BY <1>1, GrowStable DEF WorkStep
<1>3. q \in Queues /\ s \in Streams /\ s[1][1] = q /\ call[t].op \in EnqueueOps
  BY <1>0, <1>1 DEF IInv, ThreadInv, Active
<1>4. call[t].op # "native"
  BY <1>1 DEF OrderIInv, OrderInv, AskedAfter
<1>5. pc'[t] \in {"applied", "waits", "lockBarrier", "return"}
  BY <1>3, <1>4, AfterLabels DEF ApplyBarrier, Goto, IInv, Types
<1>6. ASSUME NEW b \in Barriers(q) PROVE Imp(launched', deps', front'[s], b)
  <2>1. barrierEvent[q].made /\ Implies(barrierEvent[q].at, b)
    BY <1>3 DEF OrderIInv, BarriersHeld
  <2>2. CASE applied[s]
    BY <1>2, <1>3, <2>2 DEF OrderIInv, AppliedHold, Stable
  <2>3. CASE ~applied[s]
    <3>1. front' = [front EXCEPT ![s] = @ \cup barrierEvent[q].at]
      BY <1>0, <2>1, <2>3 DEF ApplyBarrier
    <3>2. barrierEvent[q].at \subseteq front'[s]
      BY <1>3, <3>1 DEF IInv, Types
    <3>3. Imp(launched', deps', barrierEvent[q].at, b)
      BY <1>2, <2>1 DEF Stable
    <3> QED
      BY <3>2, <3>3, ImpMono
  <2> QED
    BY <2>2, <2>3
<1>7. Barriers(q)' = Barriers(q)
  BY <1>1 DEF Barriers, Enqueued, Returned, QueueOf
<1>8. SeesBarriers(t)'
  BY <1>0, <1>1, <1>6, <1>7 DEF SeesBarriers, Implies
<1>9. BarrierInv(t)' /\ pc'[t] # "launch"
  BY <1>5 DEF BarrierInv
<1> QED
  BY <1>1, <1>8, <1>9, WorkOrder

LEMMA MarkOrder ==
  ASSUME OneThread, IInv, OrderIInv, NEW t \in Threads, MarkApplied(t)
  PROVE  OrderIInv'
<1>0. PICK q, s : q = call[t].q /\ s = got[t].stream
  OBVIOUS
<1>1. /\ WorkStep(t) /\ pc[t] = "applied" /\ Fresh(t) /\ WithStream(t) /\ front' = front
      /\ event' = event /\ barrierEvent' = barrierEvent
      /\ applied' = [applied EXCEPT ![s] = TRUE]
  BY <1>0, WorkSteps DEF MarkApplied, WorkStep, device
<1>2. Stable
  BY <1>1, GrowStable DEF WorkStep
<1>3. s \in Streams /\ s[1][1] = q /\ call[t].op \in EnqueueOps
  BY <1>0, <1>1 DEF IInv, ThreadInv, Active
<1>4. call[t].op # "native" /\ \A b \in Barriers(q) : Implies(front[s], b)
  BY <1>0, <1>1 DEF OrderIInv, OrderInv, AskedAfter, SeesBarriers
<1>5. pc'[t] \in {"waits", "lockBarrier", "return"}
  BY <1>3, <1>4, AfterLabels DEF MarkApplied, Goto, IInv, Types
<1>6. AppliedHold'
  <2>1. \A r : Barriers(r)' = Barriers(r)
    BY <1>1, <1>2, HeldKept DEF OrderIInv
  <2>2. \A u \in Streams : applied'[u] => applied[u] \/ u = s
    BY SMTT(20), <1>1
  <2>3. \A u \in Streams : applied'[u] => \A b \in Barriers(u[1][1]) : Implies(front[u], b)
    BY <1>3, <1>4, <2>2 DEF OrderIInv, AppliedHold
  <2> QED
    BY <1>2, <2>1, <2>3 DEF AppliedHold, Stable, Implies
<1>7. BarrierInv(t)' /\ pc'[t] # "launch"
  BY <1>5 DEF BarrierInv
<1> QED
  BY <1>1, <1>6, <1>7, WorkOrder

LEMMA LockOrder ==
  ASSUME OneThread, IInv, OrderIInv, NEW t \in Threads,
         \/ EnqueueEventsWait(t) \/ LockBarrier(t)
         \/ (LockSync(t) \/ LockPool(t)) /\ call[t].op # "finish"
  PROVE  OrderIInv'
<1>1. WorkStep(t) /\ call' = call
  BY WorkSteps DEF WorkStep
<1>2. applied' = applied /\ pc[t] # "apply"
  BY DEF EnqueueEventsWait, LockBarrier, LockSync, LockPool, barrierVars
<1>3. pc \in [Threads -> Labels]
  BY DEF IInv, Types
<1>4. CASE EnqueueEventsWait(t)
  <2>1. pc'[t] = "launch" /\ call[t].op \in WaitingOps
    BY <1>3, <1>4 DEF EnqueueEventsWait, Goto, IInv, ThreadInv
  <2>2. BarrierInv(t)'
    BY <2>1 DEF BarrierInv
  <2> QED
    BY <1>1, <1>2, <2>1, <2>2, WorkOrder
<1>5. CASE LockBarrier(t)
  <2>1. \/ pc'[t] = "lockSync" /\ call[t].list = {}
        \/ pc'[t] = "barrierEvents" /\ call[t].list # {}
    BY <1>3, <1>5 DEF LockBarrier, Goto
  <2>2. BarrierInv(t)' /\ pc'[t] # "launch"
    BY <1>1, <2>1 DEF BarrierInv
  <2> QED
    BY <1>1, <1>2, <2>2, WorkOrder
<1>6. CASE (LockSync(t) \/ LockPool(t)) /\ call[t].op # "finish"
  <2>1. pc'[t] \in {"lockPool", "barrierCompute"} /\ pc[t] \in {"lockSync", "lockPool"}
    BY <1>3, <1>6 DEF LockSync, LockPool, Goto
  <2>2. call[t].list = {}
    BY <1>6, <2>1 DEF OrderIInv, OrderInv, BarrierInv, Fresh
  <2>3. BarrierInv(t)' /\ pc'[t] # "launch"
    BY <1>1, <2>1, <2>2 DEF BarrierInv
  <2> QED
    BY <1>1, <1>2, <2>3, WorkOrder
<1> QED
  BY <1>4, <1>5, <1>6

\* The barrier's stream waits for the range of a pool, and so for every command
\* enqueued to the pool that is not done.
LEMMA VisitMeets ==
  ASSUME OneThread, CountFacts, IInv, CreatedOK, SyncInv, NEW t \in Threads, WorkStep(t),
         pc[t] \in {"barrierCompute", "barrierTransfer"},
         NEW kind \in {"compute", "transfer"}, NEW p, p = <<call[t].q, kind>>,
         WaitForStreams(t, SyncRange(p)), NEW i \in OfKind(call[t].q, kind)
  PROVE  Met(front'[got[t].stream], i)
<1>0. PICK s, u : s = got[t].stream /\ u = event[i].stream
  OBVIOUS
<1>1. /\ i \in Returned /\ u \in Streams /\ u[1][1] = call[t].q /\ u[1][2] = kind
      /\ s \in Streams
  BY <1>0 DEF OfKind, Enqueued, QueueOf, IInv, Global, ReturnedKnown, ThreadInv, WorkStep
<1>2. u[1] = p
  BY <1>1, PoolParts
<1>3. \A v \in Threads : pc[v] \notin Syncing /\ pc[v] # "take"
  BY DEF OneThread, Syncing
<1>4. Idle(u) \/ Covered(u)
  BY <1>1, <1>3 DEF SyncInv, PendingCovered
<1>5. CASE Idle(u)
  BY <1>0, <1>1, <1>5, IdleDone DEF Met
<1>6. CASE Covered(u)
  <2>1. Takers(u[1]) = {}
    BY <1>3 DEF Takers
  <2>2. u \in SyncRange(p)
    BY <1>1, <1>2, <1>6, <2>1, RangeCovers DEF SyncInv
  <2>3. front'[s] = front[s] \cup UNION {front[v] : v \in SyncRange(p) \ {s}}
    BY <1>0, <1>1 DEF WaitForStreams, IInv, Types
  <2>4. front[u] \subseteq front'[s]
    BY <2>2, <2>3
  <2>5. Implies(front[u], i)
    BY <1>0, <1>1 DEF IInv, Global, FrontImplies
  <2> QED
    BY <1>0, <2>4, <2>5, ImpMono DEF Met, Implies
<1> QED
  BY <1>4, <1>5, <1>6

LEMMA VisitOrder ==
  ASSUME OneThread, CountFacts, IInv, CreatedOK, SyncInv, OrderIInv, NEW t \in Threads,
         BarrierCompute(t) \/ BarrierTransfer(t)
  PROVE  OrderIInv'
<1>1. WorkStep(t) /\ call' = call /\ got' = got /\ event' = event /\ got[t].stream \in Streams
  BY WorkSteps DEF WorkStep, IInv, ThreadInv
<1>2. applied' = applied /\ pc[t] # "apply"
  BY DEF BarrierCompute, BarrierTransfer, barrierVars
<1>3. pc \in [Threads -> Labels]
  BY DEF IInv, Types
<1>4. call[t].list = {}
  BY DEF BarrierCompute, BarrierTransfer, OrderIInv, OrderInv, BarrierInv, Fresh
<1>5. \A A, i : Met(A, i)' <=> Met(A, i)
  BY <1>1 DEF WorkStep, Met, Implies
<1>6. CASE BarrierCompute(t)
  <2>1. /\ pc[t] = "barrierCompute" /\ pc'[t] = "barrierTransfer"
        /\ WaitForStreams(t, SyncRange(<<call[t].q, "compute">>))
    BY <1>3, <1>6 DEF BarrierCompute, Goto
  <2>2. \A i \in OfKind(call[t].q, "compute") : Met(front'[got[t].stream], i)
    BY <1>1, <2>1, VisitMeets
  <2>3. OfKind(call[t].q, "compute")' = OfKind(call[t].q, "compute")
    BY <1>1 DEF OfKind, Enqueued, Returned, QueueOf
  <2>4. AllMet(t, OfKind(call[t].q, "compute"))'
    BY <1>1, <1>5, <2>2, <2>3 DEF AllMet, Met, Implies, WorkStep
  <2>5. BarrierInv(t)' /\ pc'[t] # "launch"
    BY <1>1, <1>4, <2>1, <2>4 DEF BarrierInv
  <2> QED
    BY <1>1, <1>2, <2>5, WorkOrder
<1>7. CASE BarrierTransfer(t)
  <2>1. pc[t] = "barrierTransfer" /\ pc'[t] = "barrierRecord"
    BY <1>3, <1>7 DEF BarrierTransfer, Goto
  <2>2. ASSUME NEW i \in OfKind(call[t].q, "compute") PROVE Met(front'[got[t].stream], i)
    <3>1. Met(front[got[t].stream], i)
      BY <2>1 DEF OrderIInv, OrderInv, BarrierInv, AllMet
    <3>2. front[got[t].stream] \subseteq front'[got[t].stream]
      BY <1>1 DEF WorkStep
    <3> QED
      BY <3>1, <3>2, ImpMono DEF Met, Implies
  <2>3. ASSUME NEW i \in OfKind(call[t].q, "transfer") PROVE Met(front'[got[t].stream], i)
    <3>0. PICK p : p = <<call[t].q, "transfer">>
      OBVIOUS
    <3>1. /\ event[i].stream \in Streams /\ event[i].stream[1][1] = call[t].q
          /\ event[i].stream[1][2] = "transfer"
      BY DEF OfKind, Enqueued, QueueOf, IInv, Global, ReturnedKnown
    <3>2. event[i].stream[1] = p /\ Size(p) # 0
      BY <3>0, <3>1, PoolParts, StreamParts
    <3>3. WaitForStreams(t, SyncRange(p))
      BY <1>7, <3>0, <3>2 DEF BarrierTransfer
    <3> QED
      BY <1>1, <2>1, <2>3, <3>0, <3>3, VisitMeets
  <2>4. ASSUME NEW i \in Enqueued(call[t].q)
        PROVE  i \in OfKind(call[t].q, "compute") \/ i \in OfKind(call[t].q, "transfer")
    <3>1. event[i].stream[1] \in Pools
      BY StreamPool DEF Enqueued, IInv, Global, ReturnedKnown
    <3>2. event[i].stream[1][2] \in {"compute", "transfer"}
      BY <3>1 DEF Pools
    <3> QED
      BY <3>2 DEF OfKind
  <2>5. Enqueued(call[t].q)' = Enqueued(call[t].q)
    BY <1>1 DEF Enqueued, Returned, QueueOf
  <2>6. AllMet(t, Enqueued(call[t].q))'
    BY <1>1, <1>5, <2>2, <2>3, <2>4, <2>5 DEF AllMet, Met, Implies, WorkStep
  <2>7. AllMet(t, call[t].list)'
    BY <1>1, <1>4 DEF AllMet
  <2>8. BarrierInv(t)' /\ pc'[t] # "launch"
    BY <1>1, <1>4, <2>1, <2>6, <2>7 DEF BarrierInv
  <2> QED
    BY <1>1, <1>2, <2>8, WorkOrder
<1> QED
  BY <1>6, <1>7

\* But during a urQueueFinish, a command whose token hasBeenSynchronized accepts is done.
LEMMA SyncedDone ==
  ASSUME IInv, SyncInv, NEW i \in Returned, NotFinishing(QueueOf(i)),
         HasBeenSynchronized(QueueOf(i), event[i].token)
  PROVE  i \in done
<1>1. /\ event[i].token # NoToken /\ lastSync[<<QueueOf(i), "compute">>] > event[i].token
      /\ event[i].stream \in Streams /\ event[i] \in EventRec
  BY DEF HasBeenSynchronized, IInv, Global, ReturnedKnown, Types, Returned
<1>2. event[i].stream[1][2] = "compute"
  BY <1>1 DEF SyncInv, TokensTell
<1>3. event[i].stream[1] = <<QueueOf(i), "compute">> /\ event[i].stream[1] \in Pools
  <2>1. event[i].stream[1] = <<QueueOf(i), "compute">>
    BY <1>1, <1>2, PoolParts DEF QueueOf
  <2> QED
    BY <1>1, <2>1, StreamParts
<1>4. event[i].token < lastSync[event[i].stream[1]]
  <2>1. event[i].token \in Nat
    BY SMTT(20), <1>1, UintAssumption DEF EventRec, Uint
  <2>2. lastSync[event[i].stream[1]] \in Nat /\ lastSync[event[i].stream[1]] > event[i].token
    BY <1>1, <1>3, PoolType
  <2> QED
    BY <2>1, <2>2
<1>5. ~\E t \in Threads : pc[t] = "syncCompute" /\ call[t].q = QueueOf(i)
  BY DEF NotFinishing
<1> QED
  BY <1>1, <1>4, <1>5 DEF SyncInv, TokensTell

\* The barrier's stream waits for the latest event of every stream of the wait list, but
\* for those that are done.
LEMMA EventsOrder ==
  ASSUME OneThread, MaxFacts, IInv, SyncInv, OrderIInv, NEW t \in Threads, BarrierEvents(t)
  PROVE  OrderIInv'
<1>0. PICK s : s = got[t].stream
  OBVIOUS
<1>1. /\ WorkStep(t) /\ call' = call /\ got' = got /\ s \in Streams
      /\ applied' = applied /\ pc[t] = "barrierEvents" /\ pc'[t] = "barrierRecord"
  BY <1>0, WorkSteps DEF WorkStep, IInv, ThreadInv, Types, BarrierEvents, barrierVars, Goto
<1>2. call[t].list \subseteq Returned /\ call[t].list # {}
  BY <1>1 DEF IInv, ThreadInv, Active, Fresh, OrderIInv, OrderInv, BarrierInv
<1>3. ASSUME NEW j \in call[t].list PROVE Met(front'[s], j)
  <2>1. PICK f \in LatestEvents(call[t].list) :
           event[f].stream = event[j].stream /\ event[j].id <= event[f].id
    BY <1>2, LatestExists DEF IInv, Global
  <2>2. f \in Returned /\ j \in Returned
    BY <1>2 DEF LatestEvents
  <2>3. Implies(event[f].at, j)
    BY <2>1, <2>2 DEF IInv, Global, EventImplies
  <2>4. CASE HasBeenSynchronized(QueueOf(f), event[f].token)
    <3>1. NotFinishing(QueueOf(f))
      BY <1>1 DEF NotFinishing, OneThread
    <3>2. f \in done /\ event[f].at = {f}
      BY <2>2, <2>4, <3>1, SyncedDone DEF SyncInv, TokensTell
    <3>3. done \in SUBSET Ids /\ \A k \in done : deps[k] \subseteq done
      BY DEF IInv, Types, Global, DoneClosed
    <3> QED
      BY SMTT(20), <2>3, <3>2, <3>3, ImpClosed DEF Met, Implies
  <2>5. CASE ~HasBeenSynchronized(QueueOf(f), event[f].token)
    <3>1. front'[s] = front[s] \cup
            UNION {event[e].at : e \in {g \in LatestEvents(call[t].list) :
                     ~HasBeenSynchronized(QueueOf(g), event[g].token)}}
      BY <1>0, <1>1 DEF BarrierEvents, IInv, Types
    <3>2. event[f].at \subseteq front'[s]
      BY <2>5, <3>1
    <3> QED
      BY <2>3, <3>2, ImpMono DEF Met, Implies
  <2> QED
    BY <2>4, <2>5
<1>4. AllMet(t, call[t].list)'
  BY <1>0, <1>1, <1>3 DEF AllMet, Met, Implies, WorkStep
<1>5. BarrierInv(t)' /\ pc'[t] # "launch"
  BY <1>1, <1>2, <1>4 DEF BarrierInv
<1> QED
  BY <1>1, <1>5, WorkOrder

\* An in-order queue has one stream, as the constructor stream_queue_t sees to.
OneLane == InOrder => TransferStreams = 0

LEMMA OneStream ==
  ASSUME OneLane, InOrder, NEW s \in Streams, NEW u \in Streams, s[1][1] = u[1][1]
  PROVE  s = u
<1>1. ASSUME NEW v \in Streams PROVE v[1] = <<v[1][1], "compute">> /\ v[2] = 0
  <2>1. v[1][2] = "compute" /\ Size(v[1]) = 1
    BY StreamParts DEF Size, OneLane, InOrder
  <2>2. v[2] = 0
    BY SMTT(20), <2>1, StreamParts
  <2> QED
    BY <2>1, <2>2, PoolParts
<1> QED
  BY SMTT(20), <1>1, StreamParts

\* The command of the call is put on its stream.
LEMMA PutParts ==
  ASSUME IInv, NEW t \in Threads, Fresh(t), WithStream(t), NEW n, NEW s,
         n = call[t].id, s = got[t].stream, Put(n, s)
  PROVE  /\ Stable /\ done' = done /\ launched' = launched \cup {n} /\ deps'[n] = front[s]
         /\ \A i \in launched : deps'[i] = deps[i]
         /\ \A i : Implies(front[s], i) => Imp(launched', deps', {n}, i)
<1>1. /\ n \in Ids /\ n \notin launched /\ s \in Streams
  BY ActiveId DEF IInv, ThreadInv, Active
<1>2. /\ deps \in [Ids -> SUBSET Ids] /\ front \in [Streams -> SUBSET Ids]
      /\ launched \in SUBSET Ids /\ front[s] \in SUBSET Ids
  BY <1>1 DEF IInv, Types
<1>3. /\ deps' = [deps EXCEPT ![n] = front[s]] /\ front' = [front EXCEPT ![s] = {n}]
      /\ launched' = launched \cup {n} /\ done' = done
  BY DEF Put
<1>4. \A A, i : /\ Implies(A, i) => Imp(launched', deps', A, i)
                /\ Implies(front[s], i) => Imp(launched', deps', {n}, i)
  BY <1>1, <1>2, <1>3, ImpPut DEF Implies
<1>5. front'[s] = {n} /\ \A u \in Streams : u # s => front'[u] = front[u]
  BY <1>1, <1>2, <1>3
<1>6. Stable
  BY <1>3, <1>4, <1>5 DEF Stable
<1>7. deps'[n] = front[s] /\ \A i \in launched : deps'[i] = deps[i]
  BY <1>1, <1>2, <1>3
<1> QED
  BY <1>3, <1>4, <1>6, <1>7

\* What the command was asked to run after is done or ahead of it on its stream.
LEMMA PutDeps ==
  ASSUME OneLane, IInv, OrderIInv, NEW t \in Threads, pc[t] \in {"launch", "barrierRecord"},
         Put(call[t].id, got[t].stream), asked' = asked
  PROVE  DepsMeet'
<1>0. PICK n, s : n = call[t].id /\ s = got[t].stream
  OBVIOUS
<1>1. Fresh(t) /\ WithStream(t) /\ pc[t] # "apply" /\ Active(t) /\ Put(n, s)
  BY <1>0 DEF Fresh, WithStream, Active
<1>2. /\ Stable /\ done' = done /\ launched' = launched \cup {n} /\ deps'[n] = front[s]
      /\ \A i \in launched : deps'[i] = deps[i]
  BY ZenonT(150), <1>0, <1>1, PutParts
<1>3. s \in Streams /\ s[1][1] = call[t].q /\ asked[n].list = call[t].list
  BY <1>0, <1>1 DEF IInv, ThreadInv
<1>4. ASSUME NEW j \in asked[n].list PROVE Met(front[s], j)
  <2>1. CASE pc[t] = "launch"
    BY <1>0, <1>3, <2>1 DEF OrderIInv, OrderInv, IInv, ThreadInv, Met
  <2>2. CASE pc[t] = "barrierRecord"
    BY <1>0, <1>3, <2>2 DEF OrderIInv, OrderInv, BarrierInv, AllMet
  <2> QED
    BY <2>1, <2>2
<1>5. ASSUME NEW j \in asked[n].after PROVE Met(front[s], j)
  <2>1. j \in After(t)
    BY <1>0, <1>1 DEF OrderIInv, OrderInv, AskedAfter
  <2>2. CASE InOrder
    <3>1. j \in Returned /\ event[j].stream \in Streams /\ event[j].stream[1][1] = call[t].q
      BY <2>1 DEF After, Barriers, Enqueued, QueueOf, IInv, Global, ReturnedKnown
    <3>2. event[j].stream = s
      BY <1>3, <2>2, <3>1, OneStream
    <3> QED
      BY <3>1, <3>2 DEF IInv, Global, FrontImplies, Met
  <2>3. CASE call[t].op = "barrier" /\ call[t].list = {} /\ ~InOrder
    <3>1. pc[t] = "barrierRecord"
      BY <2>3 DEF OrderIInv, OrderInv, WaitingOps, Transfers
    <3> QED
      BY <1>0, <2>1, <2>3, <3>1 DEF OrderIInv, OrderInv, BarrierInv, AllMet, After
  <2>4. CASE ~(call[t].op = "barrier" /\ call[t].list = {}) /\ ~InOrder
    BY <1>0, <1>1, <2>1, <2>4 DEF OrderIInv, OrderInv, SeesBarriers, After, Met
  <2> QED
    BY <2>2, <2>3, <2>4
<1>6. \A j \in asked[n].list \cup asked[n].after : Met(deps[n], j)'
  BY <1>2, <1>4, <1>5, MetStays DEF Met, Implies
<1>7. ASSUME NEW i \in launched, NEW j \in asked[i].list \cup asked[i].after
      PROVE  Met(deps[i], j)'
  BY <1>2, MetStays DEF OrderIInv, DepsMeet, Met, Implies
<1> QED
  BY <1>2, <1>6, <1>7 DEF DepsMeet

LEMMA LaunchOrder ==
  ASSUME OneThread, OneLane, IInv, OrderIInv, NEW t \in Threads, Launch(t)
  PROVE  OrderIInv'
<1>1. /\ pc[t] = "launch" /\ pc'[t] = "record" /\ Put(call[t].id, got[t].stream)
      /\ event' = event /\ applied' = applied /\ barrierEvent' = barrierEvent
      /\ asked' = asked /\ call' = call
  BY DEF Launch, Goto, IInv, Types, events, barrierVars, callVars
<1>2. Stable
  BY <1>1, PutParts DEF Fresh, WithStream
<1>3. BarriersHeld' /\ AppliedHold' /\ DepsMeet'
  BY <1>1, <1>2, HeldKept, PutDeps DEF OrderIInv
<1>4. call[t].op # "barrier"
  BY <1>1 DEF OrderIInv, OrderInv, WaitingOps, Transfers
<1>5. OrderInv(t)'
  BY <1>1, <1>4 DEF OrderInv, AskedAfter, SeesBarriers, BarrierInv, Fresh
<1> QED
  BY <1>3, <1>5, OrderAlone

LEMMA BarrierRecordOrder ==
  ASSUME OneThread, OneLane, IInv, OrderIInv, NEW t \in Threads, BarrierRecord(t)
  PROVE  OrderIInv'
<1>0. PICK n, s, q : n = call[t].id /\ s = got[t].stream /\ q = call[t].q
  OBVIOUS
<1>1. /\ pc[t] = "barrierRecord" /\ pc'[t] = "record" /\ Put(n, s)
      /\ event' = event /\ asked' = asked /\ call' = call
      /\ barrierEvent' = [barrierEvent EXCEPT ![q] = [made |-> TRUE, at |-> {n}]]
      /\ applied' = [u \in Streams |-> applied[u] /\ u[1][1] # q]
  BY <1>0 DEF BarrierRecord, Goto, IInv, Types, events, callVars
<1>2. Fresh(t) /\ WithStream(t) /\ Active(t)
  BY <1>1 DEF Fresh, WithStream, Active
<1>3. Stable /\ \A i : Implies(front[s], i) => Imp(launched', deps', {n}, i)
  BY <1>0, <1>1, <1>2, PutParts
<1>4. DepsMeet'
  BY <1>0, <1>1, PutDeps
<1>5. /\ barrierEvent'[q].made /\ barrierEvent'[q].at = {n} /\ q \in Queues
      /\ \A r \in Queues : r # q => barrierEvent'[r] = barrierEvent[r]
  <2>1. q \in Queues
    BY <1>0, <1>2 DEF IInv, ThreadInv
  <2>2. PICK e : e = [made |-> TRUE, at |-> {n}]
    OBVIOUS
  <2>3. e.made /\ e.at = {n}
    BY <2>2
  <2>4. barrierEvent'[q] = e /\ \A r \in Queues : r # q => barrierEvent'[r] = barrierEvent[r]
    BY <1>1, <2>1, <2>2 DEF IInv, Types
  <2> QED
    BY <2>1, <2>3, <2>4
<1>6. \A r : Barriers(r)' = Barriers(r)
  BY <1>1 DEF Barriers, Enqueued, Returned, QueueOf
<1>7. BarriersHeld'
  <2>1. ASSUME NEW r \in Queues, NEW b \in Barriers(r)
        PROVE  barrierEvent'[r].made /\ Imp(launched', deps', barrierEvent'[r].at, b)
    <3>1. CASE r = q
      <4>1. Implies(front[s], b)
        BY <1>0, <1>1, <1>2, <3>1 DEF OrderIInv, OrderInv, SeesBarriers
      <4> QED
        BY <1>3, <1>5, <3>1, <4>1
    <3>2. CASE r # q
      BY <1>3, <1>5, <3>2 DEF OrderIInv, BarriersHeld, Stable
    <3> QED
      BY <3>1, <3>2
  <2> QED
    BY <1>6, <2>1 DEF BarriersHeld, Implies
<1>8. AppliedHold'
  BY <1>1, <1>3, <1>6 DEF OrderIInv, AppliedHold, Stable, Implies
<1>9. OrderInv(t)'
  BY <1>0, <1>1, <1>5 DEF OrderInv, AskedAfter, SeesBarriers, BarrierInv, Fresh
<1> QED
  BY <1>4, <1>7, <1>8, <1>9, OrderAlone

LEMMA RecordOrder ==
  ASSUME OneThread, IInv, OrderIInv, NEW t \in Threads, Record(t)
  PROVE  OrderIInv'
<1>0. PICK n, s, q : n = call[t].id /\ s = got[t].stream /\ q = call[t].q
  OBVIOUS
<1>1. /\ pc[t] = "record" /\ barrierEvent' = barrierEvent /\ applied' = applied
      /\ front' = front /\ deps' = deps /\ launched' = launched /\ done' = done
      /\ asked' = asked /\ call' = call
  BY DEF Record, device, barrierVars, callVars
<1>2. Stable
  BY <1>1, GrowStable
<1>3. n \in Ids /\ s[1][1] = q /\ q \in Queues
  BY <1>0, <1>1, ActiveId DEF IInv, ThreadInv, Active, WithStream
<1>4. PICK e : event' = [event EXCEPT ![n] = e] /\ e.op = call[t].op /\ e.stream = s
  <2>1. PICK k, tok, at : event' = [event EXCEPT ![n] =
             [op |-> call[t].op, stream |-> s, id |-> k, token |-> tok, at |-> at]]
    BY <1>0 DEF Record
  <2>2. PICK e : e = [op |-> call[t].op, stream |-> s, id |-> k, token |-> tok, at |-> at]
    OBVIOUS
  <2>3. event' = [event EXCEPT ![n] = e] /\ e.op = call[t].op /\ e.stream = s
    BY <2>1, <2>2
  <2> QED
    BY <2>3
<1>5. event'[n] = e /\ \A i \in Ids : i # n => event'[i] = event[i]
  BY <1>3, <1>4 DEF IInv, Types
<1>6. ASSUME NEW r, NEW b \in Barriers(r)'
      PROVE  b \in Barriers(r) \/ (b = n /\ r = q /\ call[t].op = "barrier")
  <2>1. b \in Ids /\ event'[b] # NoEvent /\ event'[b].stream[1][1] = r /\ event'[b].op = "barrier"
    BY <1>6 DEF Barriers, Enqueued, Returned, QueueOf
  <2>2. CASE b = n
    BY <1>3, <1>4, <1>5, <2>1, <2>2
  <2>3. CASE b # n
    BY <1>5, <2>1, <2>3 DEF Barriers, Enqueued, Returned, QueueOf
  <2> QED
    BY <2>2, <2>3
<1>7. call[t].op = "barrier" =>
        /\ \A u \in Streams : u[1][1] = q => ~applied[u]
        /\ barrierEvent[q].made /\ barrierEvent[q].at = {n}
  BY <1>0, <1>1 DEF OrderIInv, OrderInv, BarrierInv
<1>8. BarriersHeld'
  <2>1. Implies({n}, n)
    BY ImpSelf DEF Implies
  <2> QED
    BY <1>1, <1>6, <1>7, <2>1 DEF OrderIInv, BarriersHeld, Implies
<1>9. AppliedHold'
  BY <1>1, <1>6, <1>7 DEF OrderIInv, AppliedHold, Implies
<1>10. DepsMeet'
  BY <1>1, <1>2, DepsKept DEF OrderIInv
<1>11. pc'[t] \in {"streamWait", "return"}
  BY DEF Record, Goto, IInv, Types
<1>12. OrderInv(t)'
  BY <1>11 DEF OrderInv, AskedAfter, SeesBarriers, BarrierInv, Fresh
<1> QED
  BY <1>8, <1>9, <1>10, <1>12, OrderAlone

LEMMA ExecuteOrder ==
  ASSUME OrderIInv, Execute \/ UNCHANGED vars
  PROVE  OrderIInv'
<1>1. /\ event' = event /\ barrierEvent' = barrierEvent /\ applied' = applied
      /\ front' = front /\ deps' = deps /\ launched' = launched /\ done \subseteq done'
      /\ asked' = asked /\ call' = call /\ got' = got /\ pc' = pc
  BY DEF Execute, vars, barrierVars, events, callVars
<1>2. Stable
  BY <1>1, GrowStable
<1>3. BarriersHeld' /\ AppliedHold' /\ DepsMeet'
  BY <1>1, <1>2, HeldKept, DepsKept DEF OrderIInv
<1>4. ASSUME NEW t \in Threads PROVE OrderInv(t)'
  <2>1. \A q : Enqueued(q)' = Enqueued(q) /\ Barriers(q)' = Barriers(q)
    BY <1>1 DEF Barriers, Enqueued, Returned, QueueOf
  <2>2. AskedAfter(t)' /\ SeesBarriers(t)'
    BY <1>1, <2>1 DEF OrderIInv, OrderInv, AskedAfter, SeesBarriers, After, Fresh, WithStream,
       Implies
  <2>3. \A A, i : Met(A, i) => Met(A, i)'
    BY <1>1 DEF Met, Implies
  <2>4. /\ \A S : AllMet(t, S) => \A i \in S : Met(front[got[t].stream], i)'
        /\ OfKind(call[t].q, "compute")' = OfKind(call[t].q, "compute")
    BY <1>1, <2>1, <2>3 DEF AllMet, OfKind, Met, Implies
  <2>5. BarrierInv(t)'
    <3>1. BarrierInv(t) /\ Fresh(t)' = Fresh(t)
      BY <1>1 DEF OrderIInv, OrderInv, Fresh
    <3>2. pc[t] = "barrierTransfer" => AllMet(t, OfKind(call[t].q, "compute"))'
      BY <1>1, <2>4, <3>1 DEF BarrierInv, AllMet
    <3>3. pc[t] = "barrierRecord" =>
            /\ AllMet(t, call[t].list)'
            /\ call[t].list = {} => AllMet(t, Enqueued(call[t].q))'
      BY <1>1, <2>1, <2>4, <3>1 DEF BarrierInv, AllMet
    <3> QED
      BY <1>1, <3>1, <3>2, <3>3 DEF BarrierInv
  <2> QED
    BY <1>1, <2>2, <2>5 DEF OrderIInv, OrderInv
<1> QED
  BY <1>3, <1>4 DEF OrderIInv

LEMMA NextOrder ==
  ASSUME OneThread, OneLane, "native" \notin Ops, MaxFacts, CountFacts, IInv, CreatedOK,
         SyncInv, OrderIInv, [Next]_vars
  PROVE  OrderIInv'
<1>1. ASSUME NEW t \in Threads, Call(t) \/ Step(t) PROVE OrderIInv'
  BY <1>1, CallOrder, QuietStepsOrder, ApplyOrder, MarkOrder, LockOrder, VisitOrder,
     EventsOrder, LaunchOrder, BarrierRecordOrder, RecordOrder DEF Step
<1> QED
  BY <1>1, ExecuteOrder DEF Next

LEMMA InitOrder ==
  ASSUME Init
  PROVE  OrderIInv
<1>1. /\ Returned = {} /\ launched = {} /\ \A t \in Threads : pc[t] = "idle"
      /\ \A q : Barriers(q) = {}
  BY DEF Init, Returned, Barriers, Enqueued
<1> QED
  BY <1>1 DEF OrderIInv, BarriersHeld, AppliedHold, DepsMeet, OrderInv, AskedAfter,
     SeesBarriers, BarrierInv, Fresh

-----------------------------------------------------------------------------
\* The library's facts on finite sets, and that its cardinality is ours.
FST == INSTANCE FiniteSetTheorems

LEMMA SameFinite == \A S : FST!IsFiniteSet(S) <=> IsFiniteSet(S)
  BY DEF FST!IsFiniteSet, IsFiniteSet

LEMMA SameCardinality == \A S : FST!Cardinality(S) = Cardinality(S)
  BY DEF FST!Cardinality, Cardinality

LEMMA CountNone == IsFiniteSet({}) /\ Cardinality({}) = 0
  BY FST!FS_EmptySet, SameFinite, SameCardinality

LEMMA CountAdd ==
  ASSUME NEW S, IsFiniteSet(S), NEW x, x \notin S
  PROVE  /\ IsFiniteSet(S \cup {x}) /\ Cardinality(S) \in Nat
         /\ Cardinality(S \cup {x}) = Cardinality(S) + 1
  BY FST!FS_CardinalityType, FST!FS_AddElement, SameFinite, SameCardinality

LEMMA CountRemove ==
  ASSUME NEW S, IsFiniteSet(S), NEW x \in S
  PROVE  /\ IsFiniteSet(S \ {x}) /\ Cardinality(S \ {x}) \in Nat
         /\ Cardinality(S) = Cardinality(S \ {x}) + 1
<1>1. IsFiniteSet(S \ {x})
  BY FST!FS_RemoveElement, SameFinite
<1>2. (S \ {x}) \cup {x} = S /\ x \notin S \ {x}
  OBVIOUS
<1>3. /\ Cardinality(S \ {x}) \in Nat
      /\ Cardinality((S \ {x}) \cup {x}) = Cardinality(S \ {x}) + 1
  BY <1>1, <1>2, CountAdd
<1> QED
  BY <1>1, <1>2, <1>3

\* A set of commands has no more members than there may be calls.
LEMMA CountIds ==
  ASSUME NEW S \in SUBSET Ids
  PROVE  IsFiniteSet(S) /\ Cardinality(S) \in 0 .. MaxCalls
<1>1. 1 \in Int /\ MaxCalls \in Int
  BY BoundAssumption
<1>2. /\ IsFiniteSet(Ids)
      /\ Cardinality(Ids) = IF 1 > MaxCalls THEN 0 ELSE MaxCalls - 1 + 1
  BY <1>1, FST!FS_Interval, SameFinite, SameCardinality DEF Ids
<1>3. Cardinality(Ids) = MaxCalls
  BY <1>2, BoundAssumption
<1>4. IsFiniteSet(S) /\ Cardinality(S) <= MaxCalls
  BY <1>2, <1>3, FST!FS_Subset, SameFinite, SameCardinality
<1>5. Cardinality(S) \in Nat
  BY <1>4, FST!FS_CardinalityType, SameFinite, SameCardinality
<1> QED
  BY <1>4, <1>5, BoundAssumption


LEMMA CountFactsHold == CountFacts
  BY CountNone, CountAdd, CountRemove DEF CountFacts

\* The library's facts on well-founded orders.
WFI == INSTANCE WellFoundedInduction

\* A bounded nonempty set of numbers has a largest one.
LEMMA MaxExists ==
  ASSUME NEW S \in SUBSET Nat, NEW n \in Nat, \A x \in S : x <= n, NEW e \in S
  PROVE  \E m \in S : \A x \in S : x <= m
<1> DEFINE T == {n - x : x \in S}
<1>1. T \subseteq Nat /\ n - e \in T
  BY SMTT(20)
<1>2. PICK y \in T : \A z \in T : ~(<<z, y>> \in WFI!OpToRel(<, Nat))
  BY <1>1, WFI!NatLessThanWellFounded, WFI!WFMin
<1>3. \A z \in T : ~(z < y)
  BY <1>1, <1>2 DEF WFI!OpToRel
<1>4. PICK m \in S : y = n - m
  OBVIOUS
<1>5. \A x \in S : ~(n - x < n - m)
  BY <1>3, <1>4
<1> QED
  BY SMTT(20), <1>4, <1>5

LEMMA MaxFactsHold == MaxFacts
  BY MaxExists DEF MaxFacts

-----------------------------------------------------------------------------
\* The invariants hold, and what follows.

LEMMA IInvHolds == Spec => []IInv
<1>1. Init => IInv
  BY InitIInv
<1>2. IInv /\ [Next]_vars => IInv'
  BY NextIInv, MaxFactsHold
<1> QED
  BY <1>1, <1>2, PTL DEF Spec

\* Whatever the threads do and however often the stream indices wrap, a kernel or a
\* copy completes only after the commands of its wait list: enqueueEventsWait waits
\* for the latest event of each stream only, and skips the call's own stream.
THEOREM WaitListsHonouredAlways == Spec => []WaitListsHonoured
<1>1. IInv => WaitListsHonoured
  <2> SUFFICES ASSUME IInv, NEW i \in done, asked[i].op \in WaitingOps,
                      NEW j \in asked[i].list
               PROVE  j \in done
    BY DEF WaitListsHonoured, WaitingOps
  <2>1. Implies(deps[i], j)
    BY DEF IInv, Global, DepsImplyList, Types
  <2>2. done \in SUBSET Ids /\ \A k \in done : deps[k] \subseteq done
    BY DEF IInv, Types, Global, DoneClosed
  <2> QED
    BY <2>1, <2>2, ImpClosed DEF Implies
<1> QED
  BY <1>1, IInvHolds, PTL

\* urEventWait returns only when all the commands of its list are done, although it
\* synchronizes with the latest event of each stream only, and a blocking copy
\* returns only when its own command is done.
THEOREM HostWaitsTruthfulAlways == Spec => []HostWaitsTruthful
<1>1. IInv => HostWaitsTruthful
  BY DEF IInv, ThreadInv, HostWaitsTruthful
<1> QED
  BY <1>1, IInvHolds, PTL

LEMMA NextNumbered ==
  ASSUME IInv, Numbered, [Next]_vars
  PROVE  Numbered'
<1>1. ASSUME NEW t \in Threads, Record(t) PROVE Numbered'
  <2>0. PICK n, q, s : n = call[t].id /\ q = call[t].q /\ s = got[t].stream
    OBVIOUS
  <2>1. n \in Ids /\ q \in Queues /\ event[n] = NoEvent /\ s[1][1] = q
        /\ call[t].op # "none"
    <3>1. Active(t) /\ WithStream(t)
      BY <1>1 DEF Record, Active, WithStream
    <3>2. call[t].op \in EnqueueOps
      BY <3>1 DEF IInv, ThreadInv
    <3> QED
      BY <2>0, <3>1, <3>2, ActiveId
         DEF IInv, ThreadInv, EnqueueOps, Selecting, Transfers
  <2>2. PICK e : event' = [event EXCEPT ![n] = e] /\ e.op = call[t].op /\ e.stream = s
    <3>1. PICK k, tok, at :
             event' = [event EXCEPT ![n] = [op |-> call[t].op, stream |-> s, id |-> k,
                                            token |-> tok, at |-> at]]
      BY <1>1, <2>0 DEF Record
    <3>2. PICK e : e = [op |-> call[t].op, stream |-> s, id |-> k, token |-> tok, at |-> at]
      OBVIOUS
    <3>3. event' = [event EXCEPT ![n] = e] /\ e.op = call[t].op /\ e.stream = s
      BY <3>1, <3>2
    <3> QED
      BY <3>3
  <2>3. e # NoEvent
    <3>1. NoEvent.op = "none"
      BY DEF NoEvent
    <3> QED
      BY <2>1, <2>2, <3>1
  <2>4. event'[n] = e /\ \A i \in Ids : i # n => event'[i] = event[i]
    BY <2>1, <2>2 DEF IInv, Types
  <2>5. n \notin Enqueued(q) /\ Enqueued(q)' = Enqueued(q) \cup {n}
    BY <2>1, <2>2, <2>3, <2>4 DEF Enqueued, Returned, QueueOf
  <2>6. ASSUME NEW r \in Queues, r # q PROVE Enqueued(r)' = Enqueued(r)
    BY <2>1, <2>2, <2>4, <2>6 DEF Enqueued, Returned, QueueOf
  <2>7. Enqueued(q) \in SUBSET Ids
    BY DEF Enqueued, Returned
  <2>8. Cardinality(Enqueued(q)') = Cardinality(Enqueued(q)) + 1
    BY <2>5, <2>7, CountIds, CountAdd
  <2>9. /\ eventCount'[q] = eventCount[q] + 1
        /\ \A r \in Queues : r # q => eventCount'[r] = eventCount[r]
    BY <1>1, <2>0, <2>1 DEF Record, IInv, Types
  <2>10. ASSUME NEW r \in Queues PROVE eventCount'[r] = Cardinality(Enqueued(r)')
    <3>1. CASE r = q
      BY <2>8, <2>9, <3>1 DEF Numbered
    <3>2. CASE r # q
      BY <2>6, <2>9, <3>2 DEF Numbered
    <3> QED
      BY <3>1, <3>2
  <2> QED
    BY <2>10 DEF Numbered
<1>2. CASE UNCHANGED events
  BY <1>2 DEF events, Numbered, Enqueued, Returned, QueueOf
<1> QED
  BY ZenonT(150), <1>1, <1>2 DEF Next, Execute, Call, Step, ReuseStream, NoReuse,
     CreateStream, TakeStream, ApplyBarrier, MarkApplied, EnqueueEventsWait, Launch,
     StreamWait, LockSync, LockPool, LockBarrier, BarrierCompute, BarrierTransfer,
     BarrierEvents, BarrierRecord, SyncStream, SyncedCompute, FinishLockTransfer,
     SyncedTransfer, EventWait, Return, vars, events

CreatedInv == CreatedOK /\ InUse /\ OtherTypes /\ CallsPlaced /\ Numbered

LEMMA InitCreated == Init => CreatedInv
<1> SUFFICES ASSUME Init
             PROVE  CreatedInv
  OBVIOUS
<1>1. PICK k \in StartIndices :
         /\ index = [p \in Pools |-> IF Size(p) = 0 THEN 0 ELSE k]
         /\ created = [p \in Pools |-> IF k < Size(p) THEN k ELSE Size(p)]
  BY DEF Init
<1>2. k \in Nat
  BY StartAssumption, UintAssumption
<1>3. \A t \in Threads : pc[t] = "idle" /\ got[t] = NotGot
  BY DEF Init
<1>4. Returned = {}
  BY DEF Init, Returned
<1>5. ASSUME NEW p \in Pools
      PROVE  /\ created[p] \in 0 .. Size(p)
             /\ IsFiniteSet(Takers(p))
             /\ created[p] < Size(p) => created[p] = index[p] + Cardinality(Takers(p))
  <2>1. Takers(p) = {}
    BY <1>3 DEF Takers
  <2>2. IsFiniteSet(Takers(p)) /\ Cardinality(Takers(p)) = 0
    BY <2>1, CountNone
  <2>3. /\ index[p] = IF Size(p) = 0 THEN 0 ELSE k
        /\ created[p] = IF k < Size(p) THEN k ELSE Size(p)
    BY <1>1
  <2> QED
    BY SMTT(20), <1>2, <2>2, <2>3, SizeNat
<1>6. InUse
  <2>1. NotGot.stream = NoStream
    BY DEF NotGot
  <2> QED
    BY <1>3, <1>4, <2>1 DEF InUse, Init
<1>7. Numbered
  <2>1. \A q \in Queues : Enqueued(q) = {}
    BY <1>4 DEF Enqueued
  <2> QED
    BY <2>1, CountNone DEF Numbered, Init
<1>8. OtherTypes
  BY DEF OtherTypes, Init
<1> QED
  BY <1>3, <1>5, <1>6, <1>7, <1>8 DEF CreatedInv, CreatedOK, CallsPlaced

LEMMA CreatedHolds == Spec => [](IInv /\ CreatedInv)
<1>1. Init => CreatedInv
  BY InitCreated
<1>2. IInv /\ CreatedInv /\ [Next]_vars => CreatedInv'
  BY CountFactsHold, NextCreated, NextOtherTypes, NextCallsPlaced, NextNumbered
     DEF CreatedInv
<1> QED
  BY <1>1, <1>2, IInvHolds, PTL DEF Spec

\* Every variable has its type and no stream is given work before it was created, for
\* any number of threads: getNextComputeStream creates a stream under the mutex of the
\* pool, drops the mutex and only then takes an index, which other threads may have
\* moved, and urQueueFinish visits streams by their numbers.
THEOREM TypeCorrect == Spec => []TypeOK
<1>1. IInv /\ CreatedInv => TypeOK
  <2> SUFFICES ASSUME IInv, CreatedInv
               PROVE  TypeOK
    OBVIOUS
  <2>1. eventCount \in [Queues -> 0 .. MaxCalls]
    <3>1. eventCount \in [Queues -> Nat]
      BY DEF IInv, Types
    <3>2. ASSUME NEW q \in Queues PROVE eventCount[q] \in 0 .. MaxCalls
      <4>1. Enqueued(q) \in SUBSET Ids
        BY DEF Enqueued, Returned
      <4> QED
        BY <4>1, CountIds DEF CreatedInv, Numbered
    <3> QED
      BY <3>1, <3>2
  <2>2. ASSUME NEW i \in Ids PROVE event[i].id \in 0 .. MaxCalls
    <3>1. CASE event[i] = NoEvent
      BY <3>1, BoundAssumption DEF NoEvent
    <3>2. CASE event[i] # NoEvent
      <4>1. i \in Returned
        BY <3>2 DEF Returned
      <4>2. event[i].id <= eventCount[QueueOf(i)] /\ QueueOf(i) \in Queues
        BY <4>1, StreamPool DEF IInv, Global, ReturnedKnown, QueueOf
      <4>3. event[i].id \in Nat
        BY DEF IInv, Types, EventRec
      <4>4. eventCount[QueueOf(i)] \in 0 .. MaxCalls
        BY <2>1, <4>2
      <4> QED
        BY <4>2, <4>3, <4>4, BoundAssumption
    <3> QED
      BY <3>1, <3>2
  <2>3. event \in [Ids -> [op : AllOps \cup {"none"}, stream : Streams \cup {NoStream},
                           token : Uint, id : 0 .. MaxCalls, at : SUBSET Ids]]
    <3>1. event \in [Ids -> EventRec]
      BY DEF IInv, Types
    <3> QED
      BY <2>2, <3>1 DEF EventRec
  <2>4. \A s \in Streams : front[s] # {} => s[2] < created[s[1]]
    BY DEF CreatedInv, InUse, Exists
  <2> QED
    BY <2>1, <2>3, <2>4 DEF TypeOK, IInv, Types, CreatedInv, CreatedOK, OtherTypes, CallRec,
       AskedRec, GotRec
<1> QED
  BY <1>1, CreatedHolds, PTL

\* What is shown below is for one thread and before an index wraps: then the streams
\* taken since the last urQueueFinish are told by comparing numbers.
LEMMA SyncHolds ==
  ASSUME OneThread
  PROVE  Spec /\ []NoWrap => [](IInv /\ CreatedInv /\ SyncInv)
<1>1. Init => SyncInv
  BY InitSync
<1>2. IInv /\ IInv' /\ CreatedInv /\ NoWrap /\ SyncInv /\ [Next]_vars => SyncInv'
  BY CountFactsHold, NextSync DEF CreatedInv
<1> QED
  BY <1>1, <1>2, CreatedHolds, PTL DEF Spec

\* When urQueueFinish returns, every command whose enqueue call returned before it was
\* called is done, although it waits only for the streams between LastSync and the
\* index: every stream with unfinished work was taken since LastSync was moved, and the
\* range of numbers modulo the size of the pool holds all streams that were taken.
THEOREM FinishDrainsAlone ==
  ASSUME OneThread
  PROVE  Spec /\ []NoWrap => []FinishDrains
<1>1. IInv /\ SyncInv => FinishDrains
  <2> SUFFICES ASSUME IInv, SyncInv, NEW t \in Threads, Finished(t), NEW i \in call[t].before
               PROVE  i \in done
    BY DEF FinishDrains, Finished
  <2>1. /\ i \in Enqueued(call[t].q)
        /\ PoolIdle(call[t].q, "compute") /\ PoolIdle(call[t].q, "transfer")
    BY DEF SyncInv, FinishInv, Finished
  <2>2. i \in Returned /\ event[i].stream[1][1] = call[t].q /\ event[i].stream \in Streams
    BY <2>1 DEF Enqueued, QueueOf, IInv, Global, ReturnedKnown
  <2>3. event[i].stream[1][2] = "compute" \/ event[i].stream[1][2] = "transfer"
    BY <2>2, StreamParts DEF Pools
  <2>4. event[i].stream[1] = <<call[t].q, event[i].stream[1][2]>>
    BY <2>2, PoolParts
  <2>5. Idle(event[i].stream)
    BY <2>1, <2>2, <2>3, <2>4 DEF PoolIdle
  <2> QED
    BY <2>2, <2>5, IdleDone
<1> QED
  BY <1>1, SyncHolds, PTL

\* But during a urQueueFinish, a command whose token hasBeenSynchronized accepts is
\* done, so the barrier that skips its event and the call that does not reuse its
\* stream are right to do so.
THEOREM SyncedTokensDoneAlone ==
  ASSUME OneThread
  PROVE  Spec /\ []NoWrap => []SyncedTokensDone
<1>1. IInv /\ SyncInv => SyncedTokensDone
  BY SyncedDone DEF SyncedTokensDone
<1> QED
  BY <1>1, SyncHolds, PTL

\* Between calls, every stream with unfinished work is in the range of streams that the
\* next syncStreams visits, wherever in the vector the range begins and ends.
THEOREM PendingInRangeAlone ==
  ASSUME OneThread
  PROVE  Spec /\ []NoWrap => []PendingInRange
<1>1. IInv /\ CreatedInv /\ SyncInv => PendingInRange
  <2> SUFFICES ASSUME IInv, CreatedInv, SyncInv, \A t \in Threads : pc[t] = "idle",
                      NEW s \in Streams, ~Idle(s)
               PROVE  s \in SyncRange(s[1])
    BY DEF PendingInRange, Idle
  <2>1. Covered(s)
    BY DEF SyncInv, PendingCovered, Syncing
  <2>2. Takers(s[1]) = {}
    BY DEF Takers
  <2> QED
    BY <2>1, <2>2, CountFactsHold, RangeCovers DEF CreatedInv, SyncInv
<1> QED
  BY <1>1, SyncHolds, PTL

\* A command runs after the commands of its wait list, after every barrier enqueued
\* before it and, on an in-order queue, after every command enqueued before it; a barrier
\* without a wait list runs after every command enqueued before it.  This is for calls
\* that wait for their list, all but urEnqueueNativeCommandExp.
THEOREM NeedsMetAlone ==
  ASSUME OneThread, OneLane, "native" \notin Ops
  PROVE  Spec /\ []NoWrap => []NeedsMet
<1>1. Init => OrderIInv
  BY InitOrder
<1>2. IInv /\ CreatedInv /\ SyncInv /\ OrderIInv /\ [Next]_vars => OrderIInv'
  BY MaxFactsHold, CountFactsHold, NextOrder DEF CreatedInv
<1>3. IInv /\ OrderIInv => NeedsMet
  <2> SUFFICES ASSUME IInv, OrderIInv, NEW i \in done,
                      NEW j \in asked[i].list \cup asked[i].after
               PROVE  j \in done
    BY DEF NeedsMet
  <2>1. Met(deps[i], j) /\ deps[i] \subseteq done
    BY DEF OrderIInv, DepsMeet, IInv, Types, Global, DoneClosed
  <2>2. done \in SUBSET Ids /\ \A k \in done : deps[k] \subseteq done
    BY DEF IInv, Types, Global, DoneClosed
  <2> QED
    BY <2>1, <2>2, ImpClosed DEF Met, Implies
<1> QED
  BY <1>1, <1>2, <1>3, SyncHolds, PTL DEF Spec

=============================================================================
