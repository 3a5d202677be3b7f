-------------------------- MODULE OutOfOrderQueue --------------------------
(***************************************************************************)
(* The out-of-order immediate queue of the Level Zero v2 adapter           *)
(* (queue_immediate_out_of_order.hpp and .cpp) with what it shares between *)
(* commands: the pool its events come from and return to (event_pool.cpp,  *)
(* event.cpp) and the memory freed by commands that waits to be given out  *)
(* again (enqueued_pool.cpp, usm.cpp, command_list_manager.cpp).           *)
(*                                                                         *)
(* The queue has a few in-order command lists, used round-robin; all are   *)
(* behind one lock, the round-robin index is not.  An event is counter     *)
(* based: a wait stands for the command that signalled the event last when *)
(* the wait was appended.  The application is assumed to use memory and    *)
(* events properly; see CallEnqueue.                                       *)
(***************************************************************************)
EXTENDS Lanes, Sequences

CONSTANTS Threads,   \* host threads
          NumLists,  \* numCommandLists
          Ptrs,      \* allocations of one USM pool, all of the same size
          Ops,       \* the API calls the threads make
          Silent,    \* those among them also made without asking for an event
          MaxWaits,  \* bound on the length of an event wait list
          None       \* "no thread", "no allocation", "no event"

\* Calls that append to one command list, ...
Plain == {"kernel", "read", "alloc", "free"}
\* ... urEnqueueEventsWait with a wait list and without, ...
Markers == {"eventswait", "waitall"}
\* ... and the other calls.
AllOps == Plain \cup Markers \cup {"barrier", "wait", "finish", "release"}

ASSUME ListsAssumption == NumLists \in Nat \ {0}
ASSUME OpsAssumption == Ops \subseteq AllOps /\ Silent \subseteq Ops
ASSUME BoundAssumption == MaxWaits \in Nat
ASSUME NoneAssumption == None \notin Threads \cup Ptrs

Lists == 0 .. NumLists - 1
\* The event pool grows when it is empty; an event is named by the command it was
\* created for.
Events == Ids

VARIABLES
  index,     \* commandListIndex
  lock,      \* the lock of commandListManagers
  pool,      \* the event pool: its freelist (a stack), the events created, and of each
             \* event RefCount and the command that signalled it last, 0 if none
  usm,       \* allocations UMF holds as free
  async,     \* Freelist of the EnqueuedPool: allocations, each with the event (and
             \* the command) that freed it
  owned,     \* allocations the application holds
  held,      \* (auxiliary) events the application holds a reference to ...
  meaning,   \* ... and the command it takes each for
  uses,      \* (auxiliary) what each command uses: an allocation, and how often
             \* that allocation had been handed out
  handed,    \* (auxiliary) how often each allocation was handed out
  alloc,     \* (auxiliary) the command that allocated what is owned, 0 if none
  kind, needs, issued, \* (auxiliary) as in AbstractQueue
  calls,     \* commands enqueued so far (bounded by MaxCommands)
  pc, call,  \* where each thread is, and its call
  list       \* the command list its call has got

vars == <<lanes, index, lock, pool, usm, async, owned, held, meaning, uses, handed,
          alloc, kind, needs, issued, calls, pc, call, list>>
memory == <<usm, async, owned, uses, handed, alloc>>
handles == <<held, meaning>>
promise == <<kind, needs, issued>>

NoUse == [ptr |-> None, gen |-> 0]
NoCall == [op |-> "none", id |-> 0, list |-> {}, ptr |-> None, ev |-> FALSE,
           owed |-> {}]

Contract == INSTANCE AbstractQueue WITH
  Commands <- Ids, InOrder <- NumLists = 1,
  call <- [t \in Threads |-> [cmd |-> IF call[t].id = 0 THEN {} ELSE {call[t].id},
                              owed |-> call[t].owed]]

\* The constructor, for a pool whose allocations the application holds already.
Init ==
  /\ LanesInit(Lists)
  /\ index = 0 /\ lock = None
  /\ pool = [free |-> <<>>, created |-> {}, refs |-> [e \in Events |-> 0],
             signals |-> [e \in Events |-> 0]]
  /\ usm = {} /\ async = {} /\ owned = Ptrs
  /\ held = {} /\ meaning = [e \in Events |-> 0]
  /\ uses = [i \in Ids |-> NoUse]
  /\ handed = [p \in Ptrs |-> 0] /\ alloc = [p \in Ptrs |-> 0]
  /\ kind = [i \in Ids |-> "none"] /\ needs = [i \in Ids |-> {}] /\ issued = {}
  /\ calls = 0
  /\ pc = [t \in Threads |-> "idle"]
  /\ call = [t \in Threads |-> NoCall]
  /\ list = [t \in Threads |-> 0]

Goto(t, label) == pc' = [pc EXCEPT ![t] = label]

KindOf(op) ==
  CASE op \in Plain -> "plain"
    [] op \in Markers -> "marker"
    [] op = "barrier" -> "barrier"

-----------------------------------------------------------------------------
\* A thread calls the API.

\* The commands the application knows to be over when those of s are: what barriers
\* of s run after counts too.
Implied(s) == s \cup UNION {needs[b] : b \in {c \in s : kind[c] = "barrier"}}

\* The application orders the use of an allocation after the command that allocated
\* it, and its release by urEnqueueUSMFreeExp after its uses.
Users(p) == {i \in Ids : uses[i] = [ptr |-> p, gen |-> handed[p]]}
ProperUse(op, p, after) ==
  CASE op = "kernel" -> p \in owned /\ alloc[p] \in Implied(after) \cup done \cup {0}
    [] op = "free" -> /\ p \in owned
                      /\ Users(p) \subseteq Implied(after) \cup done
    [] OTHER -> p = None

\* getNextCommandListId, without the lock
GetNextCommandListId(t) ==
  /\ list' = [list EXCEPT ![t] = index % NumLists]
  /\ index' = index + 1

\* The events the application has got from calls that have returned
Usable == {e \in held : meaning[e] \in issued}

\* An enqueue call up to its turn at the lock: all but a barrier have picked their list
\* by then.  Wait lists hold events the application has; ev says whether it asks for
\* one.
CallEnqueue(t) ==
  /\ pc[t] = "idle"
  /\ calls < MaxCommands
  /\ \E op \in Ops \cap (Plain \cup Markers \cup {"barrier"}), es \in SUBSET Usable,
        p \in Ptrs \cup {None}, ev \in BOOLEAN :
       LET id == calls + 1
           after == Contract!OrderedAfter(KindOf(op), {meaning[e] : e \in es})
       IN
       /\ Cardinality(es) <= MaxWaits
       /\ op = "eventswait" => es # {}
       /\ op = "waitall" => es = {}
       /\ ev \/ op \in Silent
       /\ ProperUse(op, p, after)
       /\ calls' = id
       /\ call' = [call EXCEPT ![t] =
            [op |-> op, id |-> id, list |-> es, ptr |-> p, ev |-> ev,
             owed |-> IF op = "read" THEN {id} ELSE {}]]
       /\ kind' = [kind EXCEPT ![id] = KindOf(op)]
       /\ needs' = [needs EXCEPT ![id] = after]
       /\ uses' = IF op = "kernel"
                  THEN [uses EXCEPT ![id] = [ptr |-> p, gen |-> handed[p]]] ELSE uses
       /\ owned' = IF op = "free" THEN owned \ {p} ELSE owned
       /\ IF op = "barrier" THEN Goto(t, "barrier") /\ UNCHANGED <<index, list>>
          ELSE Goto(t, "append") /\ GetNextCommandListId(t)
  /\ UNCHANGED <<lanes, lock, pool, usm, async, handed, alloc, handles, issued>>

\* urEventWait
CallWait(t) ==
  /\ pc[t] = "idle" /\ "wait" \in Ops
  /\ \E es \in SUBSET Usable :
       /\ es # {} /\ Cardinality(es) <= MaxWaits
       /\ call' = [call EXCEPT ![t] = [NoCall EXCEPT !.op = "wait", !.list = es,
                                        !.owed = {meaning[e] : e \in es}]]
  /\ Goto(t, "eventWait")
  /\ UNCHANGED <<lanes, index, lock, pool, memory, handles, promise, calls, list>>

\* urQueueFinish, with the lock
CallFinish(t) ==
  /\ pc[t] = "idle" /\ "finish" \in Ops
  /\ lock = None
  /\ lock' = t
  /\ call' = [call EXCEPT ![t] = [NoCall EXCEPT !.op = "finish", !.owed = issued]]
  /\ Goto(t, "sync")
  /\ UNCHANGED <<lanes, index, pool, memory, handles, promise, calls, list>>

Return(t) ==
  /\ issued' = IF call[t].id = 0 THEN issued ELSE issued \cup {call[t].id}
  /\ call' = [call EXCEPT ![t] = NoCall]
  /\ list' = [list EXCEPT ![t] = 0]
  /\ Goto(t, "idle")
  /\ UNCHANGED <<kind, needs>>

-----------------------------------------------------------------------------
\* The event pool

\* event_pool::allocate: the event on top of the stack; the pool grows when it is empty
NextEvent(p, id) == IF p.free = <<>> THEN id ELSE p.free[Len(p.free)]

\* The event is signalled by command id and has n references.
TakeEvent(p, id, n) ==
  LET e == NextEvent(p, id) IN
  [free |-> IF p.free = <<>> THEN <<>> ELSE SubSeq(p.free, 1, Len(p.free) - 1),
   created |-> p.created \cup {e},
   refs |-> [p.refs EXCEPT ![e] = n],
   signals |-> [p.signals EXCEPT ![e] = id]]

\* Variant: gives up an event that another holder still has.
ReleaseEvent_Early(p, e) ==
  IF p.refs[e] > 2 THEN [p EXCEPT !.refs[e] = @ - 1]
  ELSE [p EXCEPT !.free = Append(@, e)]

\* ur_event_handle_t_::release; event_pool::free takes the last reference over.
ReleaseEvent(p, e) ==
  IF p.refs[e] > 1 THEN [p EXCEPT !.refs[e] = @ - 1]
  ELSE [p EXCEPT !.free = Append(@, e)]

\* The application gets the event of command id.
GiveEvent(id) ==
  /\ held' = held \cup {NextEvent(pool, id)}
  /\ meaning' = [meaning EXCEPT ![NextEvent(pool, id)] = id]

\* createEventIfRequested
PoolAfter(t) == IF call[t].ev THEN TakeEvent(pool, call[t].id, 1) ELSE pool
EventIfRequested(t) == IF call[t].ev THEN GiveEvent(call[t].id) ELSE UNCHANGED handles

\* urEventRelease of an event that no call in progress was given
CallRelease(t) ==
  /\ pc[t] = "idle" /\ "release" \in Ops
  /\ \E e \in Usable :
       /\ \A u \in Threads : e \notin call[u].list
       /\ pool' = ReleaseEvent(pool, e)
       /\ held' = held \ {e}
       /\ meaning' = [meaning EXCEPT ![e] = 0]
  /\ UNCHANGED <<lanes, index, lock, memory, promise, calls, pc, call, list>>

-----------------------------------------------------------------------------
\* Commands on one list

\* What the events of a wait list stand for when the wait is appended
SignalsOf(es) == {pool.signals[e] : e \in es}

\* zeCommandListAppend...: the command of t goes on its list, after these commands.
AppendTo(t, after) ==
  /\ deps' = [deps EXCEPT ![call[t].id] = front[list[t]] \cup after]
  /\ front' = [front EXCEPT ![list[t]] = {call[t].id}]
  /\ launched' = launched \cup {call[t].id}
  /\ UNCHANGED done

\* A kernel launch, a copy or a wait.  A blocking copy keeps the lock until its list
\* is synchronized.
AppendCommand(t) ==
  /\ pc[t] = "append" /\ call[t].op \in {"kernel", "read"} \cup Markers
  /\ lock = None
  /\ AppendTo(t, SignalsOf(call[t].list))
  /\ pool' = PoolAfter(t)
  /\ EventIfRequested(t)
  /\ IF call[t].op = "read"
     THEN lock' = t /\ Goto(t, "syncCopy") /\ UNCHANGED <<promise, call, list>>
     ELSE Return(t) /\ UNCHANGED lock
  /\ UNCHANGED <<index, memory, calls>>

SyncCopy(t) ==
  /\ pc[t] = "syncCopy"
  /\ Drained(list[t])
  /\ lock' = None
  /\ Return(t)
  /\ UNCHANGED <<lanes, index, pool, memory, handles, calls>>

\* The application is given allocation p, which it may use once the command is done.
HandOut(t, p) ==
  /\ owned' = owned \cup {p}
  /\ handed' = [handed EXCEPT ![p] = @ + 1]
  /\ uses' = [uses EXCEPT ![call[t].id] = [ptr |-> p, gen |-> handed[p] + 1]]
  /\ alloc' = [alloc EXCEPT ![p] = call[t].id]

\* Variant: the event is released but not waited for, as on an in-order queue.
AppendReuse_NoWait(t) ==
  /\ pc[t] = "append" /\ call[t].op = "alloc"
  /\ lock = None
  /\ \E a \in async :
       /\ AppendTo(t, SignalsOf(call[t].list))
       /\ pool' = ReleaseEvent(PoolAfter(t), a.event)
       /\ async' = async \ {a}
       /\ HandOut(t, a.ptr)
  /\ EventIfRequested(t)
  /\ Return(t)
  /\ UNCHANGED <<index, lock, usm, calls>>

\* appendUSMAllocHelper with memory that a command of this queue has freed: it waits
\* for the event of that command, whose reference is then given up ...
AppendReuse(t) ==
  /\ pc[t] = "append" /\ call[t].op = "alloc"
  /\ lock = None
  /\ \E a \in async :
       /\ AppendTo(t, SignalsOf(call[t].list \cup {a.event}))
       /\ pool' = ReleaseEvent(PoolAfter(t), a.event)
       /\ async' = async \ {a}
       /\ HandOut(t, a.ptr)
  /\ EventIfRequested(t)
  /\ Return(t)
  /\ UNCHANGED <<index, lock, usm, calls>>

\* ... or, if there is none, with new memory from UMF
AppendAlloc(t) ==
  /\ pc[t] = "append" /\ call[t].op = "alloc"
  /\ lock = None
  /\ async = {}
  /\ \E p \in usm :
       /\ usm' = usm \ {p}
       /\ HandOut(t, p)
  /\ AppendTo(t, SignalsOf(call[t].list))
  /\ pool' = PoolAfter(t)
  /\ EventIfRequested(t)
  /\ Return(t)
  /\ UNCHANGED <<index, lock, async, calls>>

\* pPool->allocate fails; the event was made before, but nothing will signal it.
AllocFails(t) ==
  /\ pc[t] = "append" /\ call[t].op = "alloc"
  /\ lock = None
  /\ async = {} /\ usm = {}
  /\ pool' = [PoolAfter(t) EXCEPT !.signals = pool.signals]
  /\ call' = [call EXCEPT ![t] = NoCall]
  /\ list' = [list EXCEPT ![t] = 0]
  /\ Goto(t, "idle")
  /\ UNCHANGED <<lanes, index, lock, memory, handles, promise, calls>>

\* Variant: the pool gets no reference of its own.
AppendFree_NoRetain(t) ==
  LET c == call[t] IN
  /\ pc[t] = "append" /\ c.op = "free"
  /\ lock = None
  /\ AppendTo(t, SignalsOf(c.list))
  /\ pool' = TakeEvent(pool, c.id, 1)
  /\ async' = async \cup
       {[ptr |-> c.ptr, event |-> NextEvent(pool, c.id), id |-> c.id]}
  /\ EventIfRequested(t)
  /\ Return(t)
  /\ UNCHANGED <<index, lock, usm, owned, uses, handed, alloc, calls>>

\* enqueueUSMFreeExp: an event is made whether or not the application asks for it,
\* and appendUSMFreeExp retains it for the pool.
AppendFree(t) ==
  LET c == call[t] IN
  /\ pc[t] = "append" /\ c.op = "free"
  /\ lock = None
  /\ AppendTo(t, SignalsOf(c.list))
  /\ pool' = TakeEvent(pool, c.id, 2)
  /\ async' = async \cup
       {[ptr |-> c.ptr, event |-> NextEvent(pool, c.id), id |-> c.id]}
  /\ EventIfRequested(t)
  /\ Return(t)
  /\ UNCHANGED <<index, lock, usm, owned, uses, handed, alloc, calls>>

-----------------------------------------------------------------------------
\* Variant: the lists wait for the barrier event of the first one only.
Barrier_FirstOnly(t) ==
  LET id == call[t].id IN
  /\ pc[t] = "barrier"
  /\ lock = None
  /\ deps' = [deps EXCEPT ![id] = SignalsOf(call[t].list) \cup front[0]]
  /\ front' = [l \in Lists |-> {id}]
  /\ launched' = launched \cup {id}
  /\ pool' = PoolAfter(t)
  /\ EventIfRequested(t)
  /\ Return(t)
  /\ UNCHANGED <<done, index, lock, memory, calls>>

\* enqueueEventsWaitWithBarrier: under the lock every list signals its barrier event,
\* the first one after the wait list, and then waits for all the barrier events; the
\* command stands for that wait.
Barrier(t) ==
  LET id == call[t].id IN
  /\ pc[t] = "barrier"
  /\ lock = None
  /\ deps' = [deps EXCEPT ![id] =
                SignalsOf(call[t].list) \cup UNION {front[l] : l \in Lists}]
  /\ front' = [l \in Lists |-> {id}]
  /\ launched' = launched \cup {id}
  /\ pool' = PoolAfter(t)
  /\ EventIfRequested(t)
  /\ Return(t)
  /\ UNCHANGED <<done, index, lock, memory, calls>>

-----------------------------------------------------------------------------
\* queueFinish keeps the lock, so that no list grows, until each is synchronized.
Synced(t) == pc[t] = "sync" /\ \A l \in Lists : Drained(l)

\* Then cleanupPoolsForQueue gives what was freed on this queue back to UMF.
Cleanup(t) ==
  /\ Synced(t)
  /\ \E a \in async :
       /\ usm' = usm \cup {a.ptr}
       /\ pool' = ReleaseEvent(pool, a.event)
       /\ async' = async \ {a}
  /\ UNCHANGED <<lanes, index, lock, owned, uses, handed, alloc, handles, promise,
                 calls, pc, call, list>>

EndFinish(t) ==
  /\ Synced(t)
  /\ async = {}
  /\ lock' = None
  /\ Return(t)
  /\ UNCHANGED <<lanes, index, pool, memory, handles, calls>>

\* urEventWait
EventWait(t) ==
  /\ pc[t] = "eventWait"
  /\ SignalsOf(call[t].list) \subseteq done
  /\ Return(t)
  /\ UNCHANGED <<lanes, index, lock, pool, memory, handles, calls>>

Execute ==
  /\ \E i \in Ids : Complete(i)
  /\ UNCHANGED <<index, lock, pool, memory, handles, promise, calls, pc, call, list>>

Step(t) ==
  \/ AppendCommand(t) \/ SyncCopy(t)
  \/ AppendReuse(t) \/ AppendAlloc(t) \/ AllocFails(t) \/ AppendFree(t)
  \/ Barrier(t) \/ Cleanup(t) \/ EndFinish(t) \/ EventWait(t)

Next ==
  \/ Execute
  \/ \E t \in Threads : CallEnqueue(t) \/ CallWait(t) \/ CallFinish(t)
                        \/ CallRelease(t) \/ Step(t)

Spec == Init /\ [][Next]_vars

-----------------------------------------------------------------------------
Labels == {"idle", "append", "syncCopy", "barrier", "sync",
           "eventWait"}

\* Every variable has its type, and the stack of the event pool holds no event twice.
TypeOK ==
  /\ front \in [Lists -> SUBSET launched] /\ deps \in [Ids -> SUBSET launched]
  /\ done \subseteq launched /\ launched \subseteq Ids
  /\ index \in Nat /\ lock \in Threads \cup {None}
  /\ pool.free \in Seq(pool.created) /\ pool.created \subseteq Events
  /\ pool.refs \in [Events -> Nat] /\ pool.signals \in [Events -> launched \cup {0}]
  /\ \A m, n \in DOMAIN pool.free : pool.free[m] = pool.free[n] => m = n
  /\ usm \subseteq Ptrs /\ owned \subseteq Ptrs
  /\ async \in SUBSET [ptr : Ptrs, event : Events, id : Ids]
  /\ held \subseteq Events /\ meaning \in [Events -> launched \cup {0}]
  /\ handed \in [Ptrs -> Nat] /\ alloc \in [Ptrs -> issued \cup {0}]
  /\ kind \in [Ids -> Contract!Kinds \cup {"none"}]
  /\ needs \in [Ids -> SUBSET issued] /\ issued \subseteq launched
  /\ calls \in 0 .. MaxCommands
  /\ pc \in [Threads -> Labels]
  /\ list \in [Threads -> Lists]

\* The queue keeps the promises of the API although its commands are spread over
\* command lists that run independently and handles are recycled meanwhile.
ImplementsQueue == Contract!Spec

\* Memory freed by a command is given out again before that command has run; still
\* no use of the earlier owner is outstanding when one of a later owner has run, nor
\* when the memory is back with UMF.
MemoryExclusive ==
  /\ \A i, j \in Ids : uses[i].ptr # None /\ uses[i].ptr = uses[j].ptr
                         /\ uses[i].gen < uses[j].gen /\ j \in done => i \in done
  /\ \A p \in usm : \A i \in Ids : uses[i].ptr = p => i \in done

\* While the application or the pool of freed memory holds an event it stands for the
\* command it was made for: it is not recycled, whoever releases it first.
EventsKeepMeaning ==
  /\ \A e \in held : pool.signals[e] = meaning[e]
  /\ \A a \in async : pool.signals[a.event] = a.id

\* The references that are accounted for: the application's and the memory pool's
Holders(e) == (IF e \in held THEN 1 ELSE 0)
                + Cardinality({a \in async : a.event = e})

\* Every event that nobody holds is back in the event pool once the calls have
\* returned.
EventsReturn ==
  (\A t \in Threads : pc[t] = "idle")
    => \A e \in pool.created :
         Holders(e) = 0 => \E n \in DOMAIN pool.free : pool.free[n] = e

\* "If the event list is empty, it waits for all previously enqueued commands to
\* complete" (urEnqueueEventsWait).
MarkersWait ==
  \A i \in done : kind[i] = "marker" => needs[i] \subseteq done

=============================================================================
