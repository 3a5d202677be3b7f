----------------------- MODULE OutOfOrderQueueProofs -----------------------
(***************************************************************************)
(* Proof that the out-of-order queue implements AbstractQueue, and that    *)
(* memory freed and given out again has one owner at a time, for every     *)
(* number of threads, lists, events, allocations and commands.             *)
(*                                                                         *)
(* What a command waits for on the device is known only through chains of  *)
(* waits: list fronts, events, barriers.  No induction on chains is        *)
(* needed: a set of commands is closed when it holds what its members wait *)
(* for, and the invariant speaks of every closed set.  The commands that   *)
(* are done form one, and so do they with a command that may complete.     *)
(***************************************************************************)
EXTENDS OutOfOrderQueue, TLAPS

\* The prover of the leaves that name none
USE Zenon

-----------------------------------------------------------------------------
\* The event pool

Stacked(p) == {p.free[n] : n \in 1 .. Len(p.free)}

\* The pool as it always is: what is on the stack was created and is there once.
PoolOK(p) ==
  /\ p \in [free : Seq(Ids), created : SUBSET Ids, refs : [Ids -> Nat],
            signals : [Ids -> Ids \cup {0}]]
  /\ Stacked(p) \subseteq p.created
  /\ \A m, n \in 1 .. Len(p.free) : p.free[m] = p.free[n] => m = n

\* event_pool::allocate returns an event that was on the stack or is new, and takes it
\* off the stack.
LEMMA TakeFacts ==
  ASSUME NEW p, PoolOK(p), NEW id \in Ids, id \notin p.created, NEW n \in Nat
  PROVE  LET e == NextEvent(p, id)
             q == TakeEvent(p, id, n)
         IN  /\ PoolOK(q)
             /\ e \in Ids /\ (e \in Stacked(p) \/ e = id)
             /\ Stacked(q) = Stacked(p) \ {e}
             /\ q.created = p.created \cup {e}
             /\ q.refs = [p.refs EXCEPT ![e] = n]
             /\ q.signals = [p.signals EXCEPT ![e] = id]
<1> DEFINE e == NextEvent(p, id)
           q == TakeEvent(p, id, n)
<1>u. /\ \A i, j \in 1 .. Len(p.free) : p.free[i] = p.free[j] => i = j
      /\ Stacked(p) \subseteq p.created
  BY DEF PoolOK
<1>0. /\ p.free \in Seq(Ids) /\ p.created \in SUBSET Ids /\ p.refs \in [Ids -> Nat]
      /\ p.signals \in [Ids -> Ids \cup {0}]
  BY DEF PoolOK
<1>a. /\ q.created = p.created \cup {e}
      /\ q.refs = [p.refs EXCEPT ![e] = n]
      /\ q.signals = [p.signals EXCEPT ![e] = id]
  BY DEF TakeEvent
<1>b. ASSUME e \in Ids, q.free \in Seq(Ids)
      PROVE  q \in [free : Seq(Ids), created : SUBSET Ids, refs : [Ids -> Nat],
                    signals : [Ids -> Ids \cup {0}]]
  BY <1>0, <1>b DEF TakeEvent
<1>1. CASE p.free = <<>>
  <2>   e = id /\ q.free = <<>>
    BY <1>1 DEF NextEvent, TakeEvent
  <2>2. Stacked(p) = {} /\ Stacked(q) = {}
    BY SMTT(20), Z3T(20), <1>1 DEF Stacked
  <2>3. PoolOK(q)
    <3>1. q.free \in Seq(Ids) /\ e \in Ids
      BY SMTT(20), Z3T(20)
    <3>2. \A i, j \in 1 .. Len(q.free) : q.free[i] = q.free[j] => i = j
      BY SMTT(20), Z3T(20)
    <3> QED  BY <1>b, <2>2, <3>1, <3>2 DEF PoolOK
  <2> HIDE DEF e, q
  <2>4. /\ PoolOK(q) /\ e \in Ids /\ (e \in Stacked(p) \/ e = id)
        /\ Stacked(q) = Stacked(p) \ {e}
    BY <2>2, <2>3
  <2> QED  BY <1>a, <2>4 DEF e, q
<1>2. CASE p.free # <<>>
  <2> DEFINE k == Len(p.free)
  <2>   k \in Nat \ {0} /\ k \in 1 .. k
    BY SMTT(20), Z3T(20), <1>0, <1>2
  <2>2. e = p.free[k] /\ e \in Ids
    BY SMTT(20), Z3T(20), <1>0, <1>2 DEF NextEvent
  <2>3. /\ q.free = SubSeq(p.free, 1, k - 1)
        /\ q.free \in Seq(Ids) /\ Len(q.free) = k - 1
        /\ \A m \in 1 .. k - 1 : q.free[m] = p.free[m]
    BY SMTT(20), Z3T(20), <1>0, <1>2 DEF TakeEvent
  <2>4. Stacked(q) = Stacked(p) \ {e}
    <3> HIDE DEF e, q
    <3>1. \A x : x \in Stacked(q) <=> \E m \in 1 .. k - 1 : x = p.free[m]
      BY <2>3 DEF Stacked
    <3>2. \A x : x \in Stacked(p) <=> \E m \in 1 .. k : x = p.free[m]
      BY DEF Stacked
    <3>3. \A m \in 1 .. k - 1 : m \in 1 .. k /\ p.free[m] # e
      BY SMTT(20), Z3T(20), <2>2 DEF PoolOK
    <3>4. \A m \in 1 .. k : m \in 1 .. k - 1 \/ m = k
      BY SMTT(20), Z3T(20)
    <3> QED  BY <2>2, <3>1, <3>2, <3>3, <3>4
  <2>5. e \in Stacked(p)
    BY <2>2 DEF Stacked
  <2>6. PoolOK(q)
    <3> HIDE DEF q, e
    <3>a. Len(q.free) = k - 1 /\ \A m \in 1 .. k - 1 : q.free[m] = p.free[m]
      BY <2>3
    <3>b. \A m \in 1 .. k - 1 : m \in 1 .. Len(p.free)
      BY SMTT(20), Z3T(20)
    <3> HIDE DEF k
    <3>1. \A i, j \in 1 .. Len(q.free) : q.free[i] = q.free[j] => i = j
      BY <1>u, <3>a, <3>b
    <3>2. Stacked(q) \subseteq q.created
      BY <1>a, <1>u, <2>4
    <3> QED  BY <1>b, <2>2, <2>3, <3>1, <3>2 DEF PoolOK
  <2> HIDE DEF e, q
  <2> QED  BY <1>a, <2>2, <2>4, <2>5, <2>6 DEF e, q
<1> QED  BY <1>1, <1>2

\* ur_event_handle_t_::release of an event that is in use puts it on the stack if its
\* last reference goes, and leaves every other event alone.
LEMMA ReleaseFacts ==
  ASSUME NEW p, PoolOK(p), NEW e \in p.created, e \notin Stacked(p)
  PROVE  LET q == ReleaseEvent(p, e)
         IN  /\ PoolOK(q)
             /\ q.created = p.created /\ q.signals = p.signals
             /\ \/ /\ p.refs[e] > 1 /\ q.refs = [p.refs EXCEPT ![e] = @ - 1]
                   /\ Stacked(q) = Stacked(p)
                \/ /\ p.refs[e] <= 1 /\ q.refs = p.refs
                   /\ Stacked(q) = Stacked(p) \cup {e}
<1> DEFINE q == ReleaseEvent(p, e)
<1>u. /\ \A i, j \in 1 .. Len(p.free) : p.free[i] = p.free[j] => i = j
      /\ Stacked(p) \subseteq p.created
  BY DEF PoolOK
<1>0. /\ p.free \in Seq(Ids) /\ p.created \in SUBSET Ids /\ p.refs \in [Ids -> Nat]
      /\ p.signals \in [Ids -> Ids \cup {0}] /\ e \in Ids
  BY DEF PoolOK
<1>1. CASE p.refs[e] > 1
  <2>1. q = [p EXCEPT !.refs = [p.refs EXCEPT ![e] = p.refs[e] - 1]]
    BY <1>0, <1>1 DEF ReleaseEvent
  <2>a. [p.refs EXCEPT ![e] = p.refs[e] - 1] \in [Ids -> Nat]
    BY SMTT(20), Z3T(20), <1>0, <1>1
  <2>   /\ q.free = p.free /\ q.created = p.created /\ q.signals = p.signals
        /\ q.refs = [p.refs EXCEPT ![e] = p.refs[e] - 1]
        /\ q \in [free : Seq(Ids), created : SUBSET Ids, refs : [Ids -> Nat],
                  signals : [Ids -> Ids \cup {0}]]
    BY <2>1, <2>a DEF PoolOK
  <2> HIDE DEF q
  <2>   Stacked(q) = Stacked(p)
    BY SMTT(20), Z3T(20) DEF Stacked
  <2>4. PoolOK(q)
    BY DEF PoolOK
  <2> QED  BY <1>1, <2>4 DEF q
<1>2. CASE ~(p.refs[e] > 1)
  <2> DEFINE k == Len(p.free)
  <2>1. q = [p EXCEPT !.free = Append(p.free, e)]
    BY <1>2 DEF ReleaseEvent
  <2>a. Append(p.free, e) \in Seq(Ids)
    BY SMTT(20), Z3T(20), <1>0
  <2>2. /\ q.free = Append(p.free, e) /\ q.created = p.created
        /\ q.signals = p.signals /\ q.refs = p.refs
        /\ q \in [free : Seq(Ids), created : SUBSET Ids, refs : [Ids -> Nat],
                  signals : [Ids -> Ids \cup {0}]]
    BY <2>1, <2>a DEF PoolOK
  <2> HIDE DEF q
  <2>   /\ k \in Nat /\ Len(q.free) = k + 1
        /\ q.free[k + 1] = e /\ \A m \in 1 .. k : q.free[m] = p.free[m]
    BY SMTT(20), Z3T(20), <1>0, <2>2
  <2>4. Stacked(q) = Stacked(p) \cup {e}
    <3>1. \A x : x \in Stacked(q) <=> \E m \in 1 .. k + 1 : x = q.free[m]
      BY DEF Stacked
    <3>2. \A x : x \in Stacked(p) <=> \E m \in 1 .. k : x = p.free[m]
      BY DEF Stacked
    <3>3. \A m : m \in 1 .. k + 1 <=> m \in 1 .. k \/ m = k + 1
      BY SMTT(20), Z3T(20)
    <3>4. ASSUME NEW x \in Stacked(q) PROVE x \in Stacked(p) \cup {e}
      <4>1. PICK m \in 1 .. k + 1 : x = q.free[m]
        BY <3>1
      <4>2. CASE m \in 1 .. k
        BY <3>2, <4>1, <4>2
      <4>3. CASE m = k + 1
        BY <4>1, <4>3
      <4> QED  BY <3>3, <4>2, <4>3
    <3>5. ASSUME NEW x \in Stacked(p) PROVE x \in Stacked(q)
      <4>1. PICK m \in 1 .. k : x = p.free[m]
        BY <3>2
      <4>2. m \in 1 .. k + 1 /\ x = q.free[m]
        BY <3>3, <4>1
      <4> QED  BY <3>1, <4>2
    <3>6. e \in Stacked(q)
      <4>1. k + 1 \in 1 .. k + 1
        BY SMTT(20), Z3T(20)
      <4> QED  BY <3>1, <4>1
    <3> QED  BY <3>4, <3>5, <3>6
  <2>5. \A m, n \in 1 .. k + 1 : q.free[m] = q.free[n] => m = n
    <3>1. \A m \in 1 .. k : q.free[m] # e
      BY DEF Stacked
    <3>2. \A m : m \in 1 .. k + 1 <=> m \in 1 .. k \/ m = k + 1
      BY SMTT(20), Z3T(20)
    <3> QED  BY <1>u, <3>1, <3>2
  <2>6. PoolOK(q)
    BY <2>2, <2>4, <2>5 DEF PoolOK
  <2>7. p.refs[e] <= 1
    BY SMTT(20), Z3T(20), <1>0, <1>2
  <2> QED  BY <2>2, <2>4, <2>6, <2>7 DEF q
<1> QED  BY <1>1, <1>2


-----------------------------------------------------------------------------
\* The invariant

\* Sets of commands that hold what is done and what their members wait for.
Closed(D) ==
  /\ done \subseteq D /\ D \subseteq launched
  /\ \A i \in D : deps[i] \subseteq D

Barriers == {b \in launched : kind[b] = "barrier"}

LanesOK ==
  /\ front \in [Lists -> SUBSET launched] /\ deps \in [Ids -> SUBSET launched]
  /\ done \subseteq launched /\ launched \subseteq Ids
  /\ \A i \in done : deps[i] \subseteq done

\* The auxiliary promises
PromiseOK ==
  /\ kind \in [Ids -> {"none", "plain", "marker", "barrier"}]
  /\ needs \in [Ids -> SUBSET issued] /\ issued \subseteq launched
  /\ \A i \in Ids : i \notin needs[i]
  /\ calls \in Nat /\ calls <= MaxCommands
  /\ \A i \in Ids : i > calls => kind[i] = "none"
  /\ \A i \in launched : i <= calls /\ kind[i] # "none"

\* Who holds an event of pool p (h: the application, which takes it for a command as
\* m says; as: freed memory), and that it stands for the command it was made for
Holding(p, h, m, as, la) ==
  /\ PoolOK(p)
  /\ h \subseteq p.created
  /\ m \in [Ids -> la \cup {0}]
  /\ as \subseteq [ptr : Ptrs \cup {None}, event : p.created, id : la]
  /\ \A e \in h : e \notin Stacked(p) /\ p.signals[e] = m[e] /\ m[e] \in la
  /\ \A a \in as : /\ a.event \notin Stacked(p) /\ p.signals[a.event] = a.id
                   /\ a.event \in h => p.refs[a.event] > 1
  /\ \A a, b \in as : a.event = b.event => a = b

HandlesOK == Holding(pool, held, meaning, async, launched)

Waiting == {"append", "barrier"}

\* What a call in progress has been promised, and what it may rely on
CallOK(t) ==
  LET c == call[t] IN
  /\ pc[t] \in Labels
  /\ list[t] \in Lists
  /\ pc[t] = "idle" => c = NoCall
  /\ pc[t] \in {"sync", "eventWait"} => c.id = 0
  /\ pc[t] = "sync" => lock = t /\ c.owed \subseteq issued /\ c.list = {}
  /\ pc[t] = "eventWait" =>
       /\ c.list \subseteq held
       /\ c.owed \subseteq SignalsOf(c.list)
  /\ pc[t] = "syncCopy" =>
       /\ lock = t /\ front[list[t]] = {c.id} /\ c.owed = {c.id}
       /\ c.id \in launched
  /\ pc[t] \in Waiting =>
       /\ c.id \in 1 .. calls /\ c.id \notin launched \cup pool.created
       /\ kind[c.id] = KindOf(c.op)
       /\ c.list \subseteq held
       /\ c.ev \in BOOLEAN
       /\ c.op # "read" => c.owed = {}
       /\ c.op = "read" => c.owed = {c.id}
       /\ pc[t] = "barrier" <=> c.op = "barrier"
       /\ c.op \in Plain \cup Markers \cup {"barrier"}
       /\ c.ptr \in Ptrs \cup {None}
       /\ c.op # "barrier" /\ NumLists # 1
            => needs[c.id] \subseteq SignalsOf(c.list) \cup Barriers

CallsOK ==
  /\ pc \in [Threads -> Labels] /\ DOMAIN call = Threads
  /\ list \in [Threads -> Lists]
  /\ index \in Nat
  /\ pool.created \subseteq 1 .. calls
  /\ \A t \in Threads : CallOK(t)
  /\ \A t, u \in Threads : call[t].id = call[u].id /\ call[t].id # 0 => t = u

\* A command runs after all it must run after, a list holds every barrier, and
\* together the lists hold everything.
OrderOK ==
  \A D \in SUBSET launched : Closed(D) =>
    /\ \A i \in D : needs[i] \subseteq D
    /\ \A l \in Lists : front[l] \subseteq D => Barriers \subseteq D
    /\ (\A l \in Lists : front[l] \subseteq D) => launched \subseteq D

Inv == LanesOK /\ PromiseOK /\ HandlesOK /\ CallsOK /\ OrderOK

-----------------------------------------------------------------------------
\* What a step of thread t leaves to the calls of the other threads

Frame(t) ==
  /\ \A u \in Threads : u # t => /\ pc'[u] = pc[u] /\ call'[u] = call[u]
                                 /\ list'[u] = list[u]
  /\ \A u \in Threads : u # t /\ lock = u => lock' = u /\ front' = front
  /\ launched \subseteq launched' /\ launched' \subseteq launched \cup {call[t].id}
  /\ issued \subseteq issued'
  /\ pool'.created \subseteq pool.created \cup {call[t].id}
  /\ \A u \in Threads : u # t => held \cap call[u].list \subseteq held'
  /\ \A e \in held : pool'.signals[e] = pool.signals[e]
  /\ calls \in Nat /\ calls' \in Nat /\ calls <= calls'
  /\ \A i \in Ids : i <= calls => kind'[i] = kind[i] /\ needs'[i] = needs[i]

\* The command of a call was numbered.
LEMMA CallIds ==
  ASSUME Inv, NEW t \in Threads
  PROVE  /\ call[t].id \in 0 .. calls
         /\ pc[t] \in Waiting \cup {"syncCopy"} => call[t].id \in Ids
         /\ call[t].id # 0 => call[t].id \in Ids /\ pc[t] \in Waiting \cup {"syncCopy"}
<1>   CallOK(t) /\ calls \in Nat /\ calls <= MaxCommands /\ MaxCommands \in Nat
  BY MaxCommandsAssumption DEF Inv, CallsOK, PromiseOK
<1>2. CASE pc[t] = "idle"
  BY SMTT(20), Z3T(20), <1>2 DEF CallOK, NoCall, Waiting
<1>3. CASE pc[t] \in {"sync", "eventWait"}
  BY SMTT(20), Z3T(20), <1>3 DEF CallOK, Waiting
<1>4. CASE pc[t] = "syncCopy"
  <2>1. call[t].id \in launched
    BY <1>4 DEF CallOK
  <2>   call[t].id \in Ids /\ call[t].id <= calls
    BY <2>1 DEF Inv, LanesOK, PromiseOK
  <2>3. call[t].id \in 0 .. calls
    BY SMTT(20), Z3T(20) DEF Ids
  <2> QED  BY <1>4, <2>3
<1>5. CASE pc[t] \in Waiting
  BY SMTT(20), Z3T(20), <1>5 DEF CallOK, Ids
<1> QED  BY <1>2, <1>3, <1>4, <1>5 DEF CallOK, Labels, Waiting

\* The calls of the other threads keep what they rely on.
LEMMA FrameCalls ==
  ASSUME Inv, NEW t \in Threads, Frame(t), NEW u \in Threads, u # t
  PROVE  CallOK(u)'
<1>   CallOK(u) /\ call[u].id \in 0 .. calls
  BY CallIds DEF Inv, CallsOK
<1>2. pc'[u] = pc[u] /\ call'[u] = call[u] /\ list'[u] = list[u]
  BY DEF Frame
<1>3. ASSUME call[u].list \subseteq held
      PROVE  call[u].list \subseteq held' /\ SignalsOf(call[u].list)' = SignalsOf(call[u].list)
  BY SMTT(20), Z3T(20), <1>2, <1>3 DEF Frame, SignalsOf
<1>4. Barriers \subseteq Barriers'
  BY DEF Barriers, Frame, Inv, PromiseOK, LanesOK
<1>5. ASSUME call[u].id # 0
      PROVE  call[u].id # call[t].id
  BY <1>5 DEF Inv, CallsOK
<1>6. pc[u] \in Waiting => call[u].id \in Ids /\ call[u].id <= calls
  BY SMTT(20), Z3T(20), CallIds
<1>7. CASE pc[u] \in {"idle", "sync", "syncCopy"}
  BY <1>2, <1>7 DEF CallOK, Frame, Waiting
<1>8. CASE pc[u] = "eventWait"
  BY <1>2, <1>3, <1>8 DEF CallOK, Waiting
<1>9. CASE pc[u] \in Waiting
  <2>1. /\ call[u].id \in 1 .. calls' /\ call[u].id \notin launched' \cup pool'.created
        /\ kind'[call[u].id] = kind[call[u].id] /\ needs'[call[u].id] = needs[call[u].id]
    BY SMTT(20), Z3T(20), <1>5, <1>6, <1>9 DEF CallOK, Frame
  <2>2. call[u].list \subseteq held
    BY <1>9 DEF CallOK
  <2> QED  BY <1>2, <1>3, <1>4, <1>9, <2>1, <2>2 DEF CallOK, Waiting
<1> QED  BY <1>7, <1>8, <1>9 DEF CallOK, Labels, Waiting

-----------------------------------------------------------------------------
\* The lists: adding a command, and completing one

\* A new command takes nothing from a closed set.
LEMMA ClosedBefore ==
  ASSUME LanesOK, NEW id \in Ids \ launched,
         launched' = launched \cup {id}, done' = done,
         \A i \in Ids \ {id} : deps'[i] = deps[i],
         NEW D \in SUBSET launched', Closed(D)'
  PROVE  /\ D \ {id} \in SUBSET launched /\ Closed(D \ {id})
         /\ id \in D => deps'[id] \subseteq D
  BY DEF LanesOK, Closed

\* A command put on one list, after commands that are in the lists already
LEMMA AppendOrder ==
  ASSUME LanesOK, PromiseOK, OrderOK, NEW id \in Ids \ launched, NEW l \in Lists,
         NEW after \in SUBSET launched,
         deps' = [deps EXCEPT ![id] = front[l] \cup after],
         front' = [front EXCEPT ![l] = {id}],
         launched' = launched \cup {id}, done' = done,
         kind' = kind, needs' = needs,
         kind[id] # "barrier",
         NumLists # 1 => needs[id] \subseteq after \cup Barriers
  PROVE  LanesOK' /\ OrderOK'
<1>1. LanesOK'
  <2>1. front' \in [Lists -> SUBSET launched'] /\ deps' \in [Ids -> SUBSET launched']
    BY DEF LanesOK
  <2>2. \A i \in done' : deps'[i] \subseteq done'
    BY DEF LanesOK
  <2> QED  BY <2>1, <2>2 DEF LanesOK
<1>2. SUFFICES ASSUME NEW D \in SUBSET launched', Closed(D)'
               PROVE  /\ \A i \in D : needs[i] \subseteq D
                      /\ \A k \in Lists : front'[k] \subseteq D => Barriers' \subseteq D
                      /\ (\A k \in Lists : front'[k] \subseteq D)
                           => launched' \subseteq D
  BY <1>1 DEF OrderOK
<1> DEFINE E == D \ {id}
<1>3. E \in SUBSET launched /\ Closed(E) /\ (id \in D => deps'[id] \subseteq D)
  BY <1>2, ClosedBefore DEF LanesOK
<1>4. id \in D => front[l] \subseteq E /\ after \subseteq E
  BY <1>3 DEF LanesOK
<1>5. Barriers' = Barriers
  BY DEF Barriers, LanesOK
<1> HIDE DEF E
<1>6. /\ \A i \in E : needs[i] \subseteq E
      /\ \A k \in Lists : front[k] \subseteq E => Barriers \subseteq E
      /\ (\A k \in Lists : front[k] \subseteq E) => launched \subseteq E
  BY <1>3 DEF OrderOK
<1>7. E \subseteq D /\ (\A i \in D : i = id \/ i \in E)
  BY DEF E
<1>8. ASSUME id \in D
      PROVE  needs[id] \subseteq E
  <2>1. CASE NumLists = 1
    <3>1. Lists = {0} /\ l = 0
      BY SMTT(20), Z3T(20), <2>1 DEF Lists
    <3>2. launched \subseteq E
      BY <1>4, <1>6, <1>8, <3>1
    <3> QED  BY <3>2 DEF PromiseOK
  <2>2. CASE NumLists # 1
    BY <1>4, <1>6, <1>8, <2>2
  <2> QED  BY <2>1, <2>2
<1>9. \A i \in D : needs[i] \subseteq D
  BY <1>6, <1>7, <1>8
<1>10. ASSUME NEW k \in Lists, front'[k] \subseteq D
       PROVE  front[k] \subseteq E /\ (k = l => id \in D)
  BY <1>4, <1>10 DEF E, LanesOK
<1>11. \A k \in Lists : front'[k] \subseteq D => Barriers' \subseteq D
  BY <1>5, <1>6, <1>7, <1>10
<1>12. (\A k \in Lists : front'[k] \subseteq D) => launched' \subseteq D
  BY <1>6, <1>7, <1>10
<1> QED  BY <1>9, <1>11, <1>12

\* A barrier
LEMMA BarrierOrder ==
  ASSUME LanesOK, PromiseOK, OrderOK, NEW id \in Ids \ launched,
         NEW after \in SUBSET launched,
         deps' = [deps EXCEPT ![id] = after \cup UNION {front[l] : l \in Lists}],
         front' = [l \in Lists |-> {id}],
         launched' = launched \cup {id}, done' = done,
         kind' = kind, needs' = needs
  PROVE  LanesOK' /\ OrderOK'
<1>1. LanesOK'
  <2>1. front' \in [Lists -> SUBSET launched'] /\ deps' \in [Ids -> SUBSET launched']
    BY SMTT(20), Z3T(20) DEF LanesOK
  <2>2. \A i \in done' : deps'[i] \subseteq done'
    BY DEF LanesOK
  <2> QED  BY <2>1, <2>2 DEF LanesOK
<1>2. SUFFICES ASSUME NEW D \in SUBSET launched', Closed(D)'
               PROVE  /\ \A i \in D : needs[i] \subseteq D
                      /\ \A k \in Lists : front'[k] \subseteq D => Barriers' \subseteq D
                      /\ (\A k \in Lists : front'[k] \subseteq D)
                           => launched' \subseteq D
  BY <1>1 DEF OrderOK
<1> DEFINE E == D \ {id}
<1>3. E \in SUBSET launched /\ Closed(E) /\ (id \in D => deps'[id] \subseteq D)
  BY <1>2, ClosedBefore DEF LanesOK
<1>4. id \in D => \A l \in Lists : front[l] \subseteq E
  BY <1>3 DEF LanesOK
<1> HIDE DEF E
<1>5. /\ \A i \in E : needs[i] \subseteq E
      /\ (\A k \in Lists : front[k] \subseteq E) => launched \subseteq E
  BY <1>3 DEF OrderOK
<1>6. E \subseteq D /\ (\A i \in D : i = id \/ i \in E)
  BY DEF E
<1>7. id \in D => launched' \subseteq D
  BY <1>4, <1>5, <1>6
<1>8. needs[id] \subseteq launched
  BY DEF PromiseOK
<1>9. \A k \in Lists : front'[k] \subseteq D => id \in D
  OBVIOUS
<1>10. 0 \in Lists
  BY SMTT(20), Z3T(20), ListsAssumption DEF Lists
<1> QED  BY <1>5, <1>6, <1>7, <1>8, <1>9, <1>10 DEF Barriers

\* A command completes.
LEMMA CompleteOrder ==
  ASSUME LanesOK, PromiseOK, OrderOK, NEW id \in Ids, Complete(id),
         kind' = kind, needs' = needs
  PROVE  LanesOK' /\ OrderOK' /\ needs[id] \subseteq done
<1> USE DEF Complete
<1>1. LanesOK'
  BY DEF LanesOK
<1>2. OrderOK'
  <2>1. \A D : Closed(D)' => Closed(D)
    BY DEF Closed
  <2>2. Barriers' = Barriers
    BY DEF Barriers
  <2> QED  BY <2>1, <2>2 DEF OrderOK
<1>3. done \cup {id} \in SUBSET launched /\ Closed(done \cup {id})
  BY DEF Closed, LanesOK
<1>4. needs[id] \subseteq done \cup {id}
  BY <1>3 DEF OrderOK
<1> QED  BY <1>1, <1>2, <1>4 DEF PromiseOK

\* The commands that are done form a closed set.
LEMMA DoneClosed ==
  ASSUME LanesOK
  PROVE  done \in SUBSET launched /\ Closed(done)
  BY DEF LanesOK, Closed

-----------------------------------------------------------------------------
\* Events handed out and given back

\* What taking an event with n references for command id does
Taken(p, h, m, as, lb, id, n) ==
  LET e == NextEvent(p, id)
      q == TakeEvent(p, id, n)
  IN  /\ Holding(q, h, m, as, lb)
      /\ Holding(q, h \cup {e}, [m EXCEPT ![e] = id], as, lb)
      /\ e \in q.created \ Stacked(q) /\ q.signals[e] = id /\ q.refs[e] = n
      /\ \A b \in as : b.event # e
      /\ q.created \subseteq p.created \cup {id}
      /\ \A x \in h : q.signals[x] = p.signals[x]

\* An event that is taken from the pool is nobody else's.
LEMMA TakeHandles ==
  ASSUME NEW p, NEW h, NEW m, NEW as, NEW la, NEW lb, Holding(p, h, m, as, la),
         la \subseteq lb, NEW id \in lb, id \in Ids \ p.created, NEW n \in Nat
  PROVE  Taken(p, h, m, as, lb, id, n)
<1> DEFINE e == NextEvent(p, id)
           q == TakeEvent(p, id, n)
           k == [m EXCEPT ![e] = id]
<1>1. PoolOK(p)
  BY DEF Holding
<1>2. /\ PoolOK(q)
      /\ e \in Ids /\ (e \in Stacked(p) \/ e = id)
      /\ Stacked(q) = Stacked(p) \ {e}
      /\ q.created = p.created \cup {e}
      /\ q.refs = [p.refs EXCEPT ![e] = n]
      /\ q.signals = [p.signals EXCEPT ![e] = id]
  BY SMTT(20), Z3T(20), <1>1, TakeFacts
<1>3. /\ p.refs \in [Ids -> Nat] /\ p.signals \in [Ids -> Ids \cup {0}]
      /\ p.created \subseteq Ids /\ Stacked(p) \subseteq p.created
  BY <1>1 DEF PoolOK
<1> HIDE DEF e, q
<1>5. /\ h \subseteq p.created /\ m \in [Ids -> la \cup {0}]
      /\ as \subseteq [ptr : Ptrs \cup {None}, event : p.created, id : la]
      /\ \A x \in h : x \notin Stacked(p) /\ p.signals[x] = m[x] /\ m[x] \in la
      /\ \A b \in as : /\ b.event \notin Stacked(p) /\ p.signals[b.event] = b.id
                       /\ b.event \in h => p.refs[b.event] > 1
                       /\ b.event \in p.created
      /\ \A b, c \in as : b.event = c.event => b = c
  BY DEF Holding
<1>6. e \notin h /\ \A b \in as : b.event # e
  <2>1. id \notin p.created
    OBVIOUS
  <2>2. \A x \in h : x \in p.created /\ x \notin Stacked(p)
    BY <1>5
  <2>3. \A b \in as : b.event \in p.created /\ b.event \notin Stacked(p)
    BY <1>5
  <2> QED  BY <1>2, <2>1, <2>2, <2>3
<1>7. /\ m \in [Ids -> lb \cup {0}] /\ k \in [Ids -> lb \cup {0}]
      /\ as \subseteq [ptr : Ptrs \cup {None}, event : q.created, id : lb]
      /\ k[e] = id /\ \A x \in h : k[x] = m[x]
  <2>1. m \in [Ids -> lb \cup {0}] /\ m \in [Ids -> la \cup {0}]
    BY <1>5
  <2>2. k \in [Ids -> lb \cup {0}] /\ k[e] = id
    BY <1>2, <2>1
  <2>3. \A x \in h : k[x] = m[x]
    <3>1. \A x \in h : x \in Ids /\ x # e
      BY <1>3, <1>5, <1>6
    <3> QED  BY <2>1, <3>1
  <2>4. as \subseteq [ptr : Ptrs \cup {None}, event : q.created, id : lb]
    <3>1. p.created \subseteq q.created
      BY <1>2
    <3>2. as \subseteq [ptr : Ptrs \cup {None}, event : p.created, id : la] /\ la \subseteq lb
      BY <1>5
    <3> QED  BY <3>1, <3>2
  <2> QED  BY <2>1, <2>2, <2>3, <2>4
<1>8. \A x \in h : /\ x \notin Stacked(q) /\ q.signals[x] = p.signals[x]
                   /\ q.signals[x] = m[x] /\ m[x] \in lb /\ x \in q.created
                   /\ x \in Ids
  BY <1>2, <1>3, <1>5, <1>6
<1>9. /\ e \notin Stacked(q) /\ q.signals[e] = id /\ q.refs[e] = n /\ e \in q.created
  BY <1>2, <1>3
<1>10. \A b \in as : /\ b.event \notin Stacked(q) /\ q.signals[b.event] = b.id
                     /\ q.refs[b.event] = p.refs[b.event]
  BY ZenonT(30), <1>2, <1>3, <1>5, <1>6
<1> HIDE DEF k
<1>11. Holding(q, h, m, as, lb)
  BY <1>2, <1>5, <1>7, <1>8, <1>10 DEF Holding
<1>12. Holding(q, h \cup {e}, k, as, lb)
  <2>1. h \cup {e} \subseteq q.created
    BY <1>8, <1>9
  <2>2. ASSUME NEW x \in h \cup {e}
        PROVE  x \notin Stacked(q) /\ q.signals[x] = k[x] /\ k[x] \in lb
    <3>1. CASE x \in h
      BY <1>7, <1>8, <3>1
    <3>2. CASE x = e
      BY <1>7, <1>9, <3>2
    <3> QED  BY <3>1, <3>2
  <2>3. ASSUME NEW b \in as
        PROVE  /\ b.event \notin Stacked(q) /\ q.signals[b.event] = b.id
               /\ b.event \in h \cup {e} => q.refs[b.event] > 1
    BY <1>5, <1>6, <1>10
  <2> QED  BY <1>2, <1>5, <1>7, <2>1, <2>2, <2>3 DEF Holding
<1>13. q.created \subseteq p.created \cup {id}
  BY <1>2, <1>3
<1> QED  BY <1>6, <1>8, <1>9, <1>11, <1>12, <1>13 DEF Taken, e, q, k

\* Freed memory comes to hold an event that it alone, or with the application, has.
LEMMA AddFreed ==
  ASSUME NEW q, NEW h, NEW m, NEW as, NEW lb, Holding(q, h, m, as, lb),
         NEW e \in q.created \ Stacked(q), NEW id \in lb, q.signals[e] = id,
         e \in h => q.refs[e] > 1, \A b \in as : b.event # e,
         NEW ptr \in Ptrs \cup {None}
  PROVE  Holding(q, h, m, as \cup {[ptr |-> ptr, event |-> e, id |-> id]}, lb)
<1> DEFINE a == [ptr |-> ptr, event |-> e, id |-> id]
<1>   /\ a.event = e /\ a.id = id
      /\ a \in [ptr : Ptrs \cup {None}, event : q.created, id : lb]
  OBVIOUS
<1> HIDE DEF a
<1>2. as \cup {a} \subseteq [ptr : Ptrs \cup {None}, event : q.created, id : lb]
  BY DEF Holding
<1>3. \A b \in as \cup {a} : /\ b.event \notin Stacked(q) /\ q.signals[b.event] = b.id
                             /\ b.event \in h => q.refs[b.event] > 1
  BY DEF Holding
<1>4. \A b, c \in as \cup {a} : b.event = c.event => b = c
  BY DEF Holding
<1>5. Holding(q, h, m, as \cup {a}, lb)
  BY <1>2, <1>3, <1>4 DEF Holding
<1> QED  BY <1>5 DEF a

\* The application gives an event back.
LEMMA ReleaseHeld ==
  ASSUME NEW p, NEW h, NEW m, NEW as, NEW la, Holding(p, h, m, as, la), NEW e \in h
  PROVE  LET q == ReleaseEvent(p, e)
         IN  /\ Holding(q, h \ {e}, [m EXCEPT ![e] = 0], as, la)
             /\ q.created = p.created /\ q.signals = p.signals
<1> DEFINE q == ReleaseEvent(p, e)
           k == [m EXCEPT ![e] = 0]
<1>   /\ PoolOK(p) /\ h \subseteq p.created /\ m \in [Ids -> la \cup {0}]
      /\ as \subseteq [ptr : Ptrs \cup {None}, event : p.created, id : la]
      /\ \A x \in h : x \notin Stacked(p) /\ p.signals[x] = m[x] /\ m[x] \in la
      /\ \A b \in as : /\ b.event \notin Stacked(p) /\ p.signals[b.event] = b.id
                       /\ b.event \in h => p.refs[b.event] > 1
                       /\ b.event \in p.created
      /\ \A b, c \in as : b.event = c.event => b = c
  BY DEF Holding
<1>2. p.refs \in [Ids -> Nat] /\ p.created \subseteq Ids
  BY DEF PoolOK
<1>   /\ PoolOK(q) /\ q.created = p.created /\ q.signals = p.signals
      /\ \/ /\ p.refs[e] > 1 /\ q.refs = [p.refs EXCEPT ![e] = @ - 1]
            /\ Stacked(q) = Stacked(p)
         \/ /\ p.refs[e] <= 1 /\ q.refs = p.refs
            /\ Stacked(q) = Stacked(p) \cup {e}
  BY ReleaseFacts
<1>4. k \in [Ids -> la \cup {0}] /\ \A x \in h \ {e} : k[x] = m[x]
  BY <1>2
<1> HIDE DEF q, k
<1>5. \A b \in as : /\ b.event \notin Stacked(q)
                    /\ b.event # e => q.refs[b.event] = p.refs[b.event]
  <2> SUFFICES ASSUME NEW b \in as
               PROVE  /\ b.event \notin Stacked(q)
                      /\ b.event # e => q.refs[b.event] = p.refs[b.event]
    OBVIOUS
  <2>1. /\ b.event \in Ids /\ b.event \notin Stacked(p)
        /\ b.event = e => p.refs[e] > 1
    BY <1>2
  <2>2. p.refs[e] \in Nat /\ ~(p.refs[e] > 1 /\ p.refs[e] <= 1)
    BY SMTT(20), Z3T(20), <1>2
  <2> QED  BY <1>2, <2>1, <2>2
<1>6. \A x \in h \ {e} : x \notin Stacked(q)
  OBVIOUS
<1>7. Holding(q, h \ {e}, k, as, la)
  BY <1>4, <1>5, <1>6 DEF Holding
<1> QED  BY <1>7 DEF q, k

\* q holds what p holds, less the memory a.
Released(q, p, h, m, as, la, a) ==
  /\ Holding(q, h, m, as \ {a}, la)
  /\ q.created = p.created /\ q.signals = p.signals

\* Freed memory gives its event back.
LEMMA ReleaseAsync ==
  ASSUME NEW p, NEW h, NEW m, NEW as, NEW la, Holding(p, h, m, as, la), NEW a \in as
  PROVE  Released(ReleaseEvent(p, a.event), p, h, m, as, la, a)
<1> DEFINE e == a.event
           q == ReleaseEvent(p, e)
<1>   /\ PoolOK(p) /\ h \subseteq p.created /\ m \in [Ids -> la \cup {0}]
      /\ as \subseteq [ptr : Ptrs \cup {None}, event : p.created, id : la]
      /\ \A x \in h : x \notin Stacked(p) /\ p.signals[x] = m[x] /\ m[x] \in la
      /\ \A b \in as : /\ b.event \notin Stacked(p) /\ p.signals[b.event] = b.id
                       /\ b.event \in h => p.refs[b.event] > 1
                       /\ b.event \in p.created
      /\ \A b, c \in as : b.event = c.event => b = c
  BY DEF Holding
<1>2. p.refs \in [Ids -> Nat] /\ p.created \subseteq Ids
  BY DEF PoolOK
<1>3. /\ PoolOK(q) /\ q.created = p.created /\ q.signals = p.signals
      /\ \/ /\ p.refs[e] > 1 /\ q.refs = [p.refs EXCEPT ![e] = @ - 1]
            /\ Stacked(q) = Stacked(p)
         \/ /\ p.refs[e] <= 1 /\ q.refs = p.refs
            /\ Stacked(q) = Stacked(p) \cup {e}
  BY ReleaseFacts
<1> HIDE DEF q
<1> HIDE DEF e
<1>4. \A b \in as \ {a} : /\ b.event \notin Stacked(q)
                          /\ q.refs[b.event] = p.refs[b.event]
  <2> SUFFICES ASSUME NEW b \in as \ {a}
               PROVE  /\ b.event \notin Stacked(q)
                      /\ q.refs[b.event] = p.refs[b.event]
    OBVIOUS
  <2>1. b.event \in Ids /\ b.event \notin Stacked(p) /\ b.event # e
    BY <1>2 DEF e
  <2> QED  BY <1>2, <1>3, <2>1
<1>5. \A x \in h : x \notin Stacked(q)
  <2>1. e \in h => p.refs[e] > 1
    BY DEF e
  <2>a. e \in Ids
    BY <1>2 DEF e
  <2>2. p.refs[e] \in Nat /\ ~(p.refs[e] > 1 /\ p.refs[e] <= 1)
    BY SMTT(20), Z3T(20), <1>2, <2>a
  <2>3. \A x \in h : x \notin Stacked(p)
    OBVIOUS
  <2> QED  BY <1>3, <2>1, <2>2, <2>3
<1>6. Holding(q, h, m, as \ {a}, la)
  BY <1>3, <1>4, <1>5 DEF Holding
<1> QED  BY <1>3, <1>6 DEF q, e, Released

-----------------------------------------------------------------------------
\* Steps that keep the invariant

\* A step of t that leaves the other calls alone, seen from its own call
LEMMA CallsStep ==
  ASSUME Inv, NEW t \in Threads, Frame(t), HandlesOK', CallOK(t)',
         pc' \in [Threads -> Labels], DOMAIN call' = Threads,
         list' \in [Threads -> Lists], index' \in Nat,
         call'[t].id \in {0, call[t].id} \cup {calls + 1}
  PROVE  CallsOK'
<1>1. \A u \in Threads : CallOK(u)'
  BY FrameCalls
<1>2. \A u \in Threads : call[u].id \in 0 .. calls
  BY CallIds
<1>3. pool'.created \subseteq 1 .. calls'
  <2>1. pool'.created \subseteq Ids
    BY DEF HandlesOK, Holding, PoolOK
  <2>2. \A i \in pool'.created : i \in 1 .. calls \/ i = call[t].id
    BY DEF Frame, Inv, CallsOK
  <2>3. calls \in Nat /\ calls' \in Nat /\ calls <= calls'
    BY DEF Frame
  <2> QED  BY SMTT(20), Z3T(20), <1>2, <2>1, <2>2, <2>3 DEF Ids
<1>4. ASSUME NEW u \in Threads, NEW v \in Threads,
             call'[u].id = call'[v].id, call'[u].id # 0
      PROVE  u = v
  <2>1. \A w \in Threads : w # t => call'[w].id = call[w].id
    BY DEF Frame
  <2>2. \A w, x \in Threads : call[w].id = call[x].id /\ call[w].id # 0 => w = x
    BY DEF Inv, CallsOK
  <2>3. calls \in Nat /\ \A w \in Threads : call[w].id # calls + 1
    BY SMTT(20), Z3T(20), <1>2 DEF Frame
  <2> QED  BY SMTT(20), Z3T(20), <1>4, <2>1, <2>2, <2>3
<1> QED  BY <1>1, <1>3, <1>4 DEF CallsOK

\* The call of t returns.
LEMMA Returned ==
  ASSUME Inv, NEW t \in Threads, Return(t), LanesOK', HandlesOK', OrderOK', Frame(t),
         calls' = calls, index' = index,
         call[t].id # 0 => call[t].id \in launched'
  PROVE  Inv'
<1> DEFINE id == call[t].id
<1>1. CallOK(t) /\ pc \in [Threads -> Labels] /\ DOMAIN call = Threads
      /\ list \in [Threads -> Lists] /\ index \in Nat
  BY DEF Inv, CallsOK
<1>2. 0 \in Lists
  BY SMTT(20), Z3T(20), ListsAssumption DEF Lists
<1>3. pc'[t] = "idle" /\ call'[t] = NoCall /\ list'[t] = 0
  BY <1>1 DEF Return, Goto
<1>4. CallOK(t)'
  BY <1>2, <1>3 DEF CallOK, Labels, Waiting
<1>5. CallsOK'
  <2>1. pc' \in [Threads -> Labels] /\ DOMAIN call' = Threads
        /\ list' \in [Threads -> Lists]
    BY <1>1, <1>2 DEF Return, Goto, Labels
  <2>2. call'[t].id = 0
    BY SMTT(20), Z3T(20), <1>3 DEF NoCall
  <2> QED  BY <1>1, <1>4, <2>1, <2>2, CallsStep
<1>6. PromiseOK'
  <2>1. kind' = kind /\ needs' = needs /\ issued' = IF id = 0 THEN issued ELSE issued \cup {id}
    BY DEF Return
  <2>2. id # 0 => id \in Ids /\ id <= calls /\ kind[id] # "none"
    <3>1. id # 0 => id \in Ids /\ id \in 0 .. calls /\ pc[t] \in Waiting \cup {"syncCopy"}
      BY CallIds
    <3>2. pc[t] \in Waiting => kind[id] # "none"
      BY <1>1 DEF CallOK, KindOf, Plain, Markers
    <3>3. pc[t] = "syncCopy" => kind[id] # "none"
      BY <1>1 DEF CallOK, Inv, PromiseOK
    <3> QED  BY SMTT(20), Z3T(20), <3>1, <3>2, <3>3 DEF Inv, PromiseOK
  <2>3. /\ launched \subseteq launched' /\ launched' \subseteq launched \cup {id}
        /\ launched' \subseteq Ids
    BY DEF Frame, LanesOK
  <2>4. 0 \notin Ids
    BY SMTT(20), Z3T(20) DEF Ids
  <2>   PromiseOK
    BY DEF Inv
  <2> HIDE DEF id
  <2>6. issued' \subseteq launched' /\ issued \subseteq issued'
    BY <2>1, <2>3 DEF PromiseOK, id
  <2>7. \A i \in launched' : i <= calls /\ kind[i] # "none"
    BY SMTT(20), Z3T(20), <2>2, <2>3, <2>4 DEF PromiseOK
  <2> QED  BY <2>1, <2>6, <2>7 DEF PromiseOK
<1> QED  BY <1>5, <1>6 DEF Inv

\* Events the application may use stand for commands that were issued.
LEMMA UsableFacts ==
  ASSUME Inv, NEW es \in SUBSET Usable
  PROVE  /\ es \subseteq held /\ {meaning[e] : e \in es} \subseteq issued
         /\ SignalsOf(es) = {meaning[e] : e \in es}
  BY SMTT(20), Z3T(20) DEF Usable, SignalsOf, Inv, HandlesOK, Holding

LEMMA EnqueueInv ==
  ASSUME Inv, "waitall" \notin Ops \/ NumLists = 1, NEW t \in Threads, CallEnqueue(t)
  PROVE  Inv'
<1> DEFINE id == calls + 1
           after(op, es) == Contract!OrderedAfter(KindOf(op), {meaning[e] : e \in es})
<1>1. PICK op \in Ops \cap (Plain \cup Markers \cup {"barrier"}), es \in SUBSET Usable,
           p \in Ptrs \cup {None}, ev \in BOOLEAN :
        /\ Cardinality(es) <= MaxWaits
        /\ op = "eventswait" => es # {}
        /\ op = "waitall" => es = {}
        /\ ev \/ op \in Silent
        /\ ProperUse(op, p, after(op, es))
        /\ calls' = id
        /\ call' = [call EXCEPT ![t] =
             [op |-> op, id |-> id, list |-> es, ptr |-> p, ev |-> ev,
              owed |-> IF op = "read" THEN {id} ELSE {}]]
        /\ kind' = [kind EXCEPT ![id] = KindOf(op)]
        /\ needs' = [needs EXCEPT ![id] = after(op, es)]
        /\ uses' = IF op = "kernel"
                   THEN [uses EXCEPT ![id] = [ptr |-> p, gen |-> handed[p]]] ELSE uses
        /\ owned' = IF op = "free" THEN owned \ {p} ELSE owned
        /\ IF op = "barrier" THEN Goto(t, "barrier") /\ UNCHANGED <<index, list>>
           ELSE Goto(t, "append") /\ GetNextCommandListId(t)
  BY DEF CallEnqueue
<1>2. /\ pc[t] = "idle" /\ calls < MaxCommands
      /\ UNCHANGED <<front, deps, launched, done, lock, pool, async, held, meaning, issued>>
  BY DEF CallEnqueue, lanes, handles
<1>3. /\ LanesOK /\ PromiseOK /\ HandlesOK /\ CallsOK /\ OrderOK
  BY DEF Inv
<1>4. /\ calls \in Nat /\ id \in Ids /\ id \in 1 .. id /\ ~(id <= calls) /\ MaxCommands \in Nat
  BY SMTT(20), Z3T(20), <1>2, <1>3, MaxCommandsAssumption DEF PromiseOK, Ids
<1>5. id \notin launched /\ id \notin pool.created /\ id \notin issued
  BY SMTT(20), Z3T(20), <1>3, <1>4 DEF PromiseOK, CallsOK
<1>6. /\ es \subseteq held /\ {meaning[e] : e \in es} \subseteq issued
      /\ SignalsOf(es) = {meaning[e] : e \in es}
  BY UsableFacts
<1>7. KindOf(op) \in {"plain", "marker", "barrier"} /\ (KindOf(op) = "barrier" <=> op = "barrier")
      /\ (KindOf(op) = "plain" <=> op \in Plain)
  BY DEF KindOf, Plain, Markers
<1>8. after(op, es) \subseteq issued
  BY <1>6 DEF Contract!OrderedAfter
<1>9. ASSUME op # "barrier", NumLists # 1
      PROVE  after(op, es) \subseteq SignalsOf(es) \cup Barriers
  <2>1. KindOf(op) # "plain" => {meaning[e] : e \in es} # {}
    <3>1. op \in Plain \/ op = "eventswait"
      BY <1>9 DEF Markers
    <3> QED  BY <1>1, <1>7, <3>1
  <2>2. {b \in issued : kind[b] = "barrier"} \subseteq Barriers
    BY <1>3 DEF PromiseOK, Barriers
  <2> QED  BY <1>6, <1>9, <2>1, <2>2 DEF Contract!OrderedAfter
<1> HIDE DEF id, after
<1>10. LanesOK' /\ HandlesOK'
  BY <1>2, <1>3 DEF LanesOK, HandlesOK
<1>11. /\ \A i \in Ids : i # id => kind'[i] = kind[i] /\ needs'[i] = needs[i]
       /\ kind'[id] = KindOf(op) /\ needs'[id] = after(op, es)
  BY <1>1, <1>3, <1>4 DEF PromiseOK
<1>12. PromiseOK'
  <2>1. kind' \in [Ids -> {"none", "plain", "marker", "barrier"}]
        /\ needs' \in [Ids -> SUBSET issued']
    BY <1>1, <1>2, <1>3, <1>4, <1>7, <1>8 DEF PromiseOK
  <2>2. \A i \in Ids : i \notin needs'[i]
    BY SMTT(20), Z3T(20), <1>3, <1>5, <1>8, <1>11 DEF PromiseOK
  <2>3. calls' \in Nat /\ calls' <= MaxCommands
    BY SMTT(20), Z3T(20), <1>1, <1>2, <1>4 DEF id
  <2>4. \A i \in Ids : i > calls' => i > calls /\ i # id
    BY SMTT(30), Z3T(30), <1>1, <1>4 DEF Ids, id
  <2>5. \A i \in launched' : i \in Ids /\ i <= calls' /\ i # id
    BY SMTT(30), Z3T(30), <1>1, <1>2, <1>3, <1>4, <1>5 DEF LanesOK, PromiseOK, Ids, id
  <2> QED  BY <1>2, <1>3, <1>11, <2>1, <2>2, <2>3, <2>4, <2>5 DEF PromiseOK
<1>13. OrderOK'
  <2>1. Barriers' = Barriers
    BY <1>2, <1>3, <1>5, <1>11 DEF Barriers, LanesOK
  <2>2. \A D \in SUBSET launched : \A i \in D : needs'[i] = needs[i]
    BY <1>3, <1>5, <1>11 DEF LanesOK
  <2>3. \A D : Closed(D)' <=> Closed(D)
    BY <1>2 DEF Closed
  <2> QED  BY SMTT(20), Z3T(20), <1>2, <1>3, <2>1, <2>2, <2>3 DEF OrderOK
<1>14. Frame(t)
  <2>1. \A u \in Threads : u # t => /\ pc'[u] = pc[u] /\ call'[u] = call[u]
                                    /\ list'[u] = list[u]
    BY <1>1, <1>3 DEF CallsOK, Goto, GetNextCommandListId
  <2>2. calls' \in Nat /\ calls <= calls'
    BY SMTT(20), Z3T(20), <1>1, <1>4 DEF id
  <2>3. \A i \in Ids : i <= calls => i # id
    BY <1>4
  <2> QED  BY <1>2, <1>4, <1>11, <2>1, <2>2, <2>3 DEF Frame
<1>15. /\ pc' \in [Threads -> Labels] /\ DOMAIN call' = Threads
       /\ list' \in [Threads -> Lists] /\ index' \in Nat
  <2>1. index \in Nat => index % NumLists \in Lists
    BY SMTT(20), Z3T(20), ListsAssumption DEF Lists
  <2> QED  BY SMTT(20), Z3T(20), <1>1, <1>3, <2>1 DEF CallsOK, Goto, GetNextCommandListId, Labels
<1>16. CallOK(t)'
  <2>1. /\ call'[t] = [op |-> op, id |-> id, list |-> es, ptr |-> p, ev |-> ev,
                       owed |-> IF op = "read" THEN {id} ELSE {}]
        /\ pc'[t] = IF op = "barrier" THEN "barrier" ELSE "append"
    BY <1>1, <1>3 DEF CallsOK, Goto
  <2>3. SignalsOf(es)' = SignalsOf(es) /\ Barriers' = Barriers
    BY SMTT(20), Z3T(20), <1>2, <1>3, <1>5, <1>11 DEF SignalsOf, Barriers, LanesOK
  <2>4. id \in 1 .. calls' /\ id \notin launched' \cup pool'.created
    BY <1>1, <1>2, <1>4, <1>5
  <2>5. list'[t] \in Lists
    BY <1>15
  <2> DEFINE c == call'[t]
  <2>6. /\ c.op = op /\ c.id = id /\ c.list = es /\ c.ptr = p /\ c.ev = ev
        /\ c.owed = IF op = "read" THEN {id} ELSE {}
    BY SMTT(20), Z3T(20), <2>1
  <2>7. pc'[t] \in Waiting /\ pc'[t] \in Labels /\ (pc'[t] = "barrier" <=> op = "barrier")
    BY <2>1 DEF Waiting, Labels
  <2>8. es \subseteq held' /\ kind'[id] = KindOf(op)
    BY <1>2, <1>6, <1>11
  <2>9. op # "barrier" /\ NumLists # 1
          => needs'[id] \subseteq SignalsOf(es)' \cup Barriers'
    BY <1>9, <1>11, <2>3
  <2>10. op \in Plain \cup Markers \cup {"barrier"} /\ p \in Ptrs \cup {None} /\ ev \in BOOLEAN
    OBVIOUS
  <2>11. SignalsOf(call[t].list)' = SignalsOf(es)'
    BY <2>6 DEF SignalsOf
  <2> HIDE DEF c
  <2> QED  BY <2>4, <2>5, <2>6, <2>7, <2>8, <2>9, <2>10, <2>11 DEF CallOK, Waiting, c
<1>17. CallsOK'
  <2>1. call'[t].id = calls + 1
    BY <1>1, <1>3 DEF CallsOK, id
  <2> QED  BY <1>10, <1>14, <1>15, <1>16, <2>1, CallsStep
<1> QED  BY <1>10, <1>12, <1>13, <1>17 DEF Inv

LEMMA WaitInv ==
  ASSUME Inv, NEW t \in Threads, CallWait(t) \/ CallFinish(t)
  PROVE  Inv'
<1>1. /\ LanesOK /\ PromiseOK /\ HandlesOK /\ CallsOK /\ OrderOK
  BY DEF Inv
<1>2. /\ pc[t] = "idle"
      /\ UNCHANGED <<front, deps, launched, done, index, pool, async, held, meaning,
                     kind, needs, issued, calls, list>>
  BY DEF CallWait, CallFinish, lanes, memory, handles, promise
<1>3. LanesOK' /\ PromiseOK' /\ HandlesOK'
  BY <1>1, <1>2 DEF LanesOK, PromiseOK, HandlesOK
<1>4. OrderOK'
  <2>1. \A D : Closed(D)' <=> Closed(D)
    BY <1>2 DEF Closed
  <2>2. Barriers' = Barriers
    BY <1>2 DEF Barriers
  <2> QED  BY <1>1, <1>2, <2>1, <2>2 DEF OrderOK
<1>   PICK c : /\ call' = [call EXCEPT ![t] = c]
               /\ c.id = 0
               /\ \/ /\ pc' = [pc EXCEPT ![t] = "eventWait"] /\ lock' = lock
                     /\ c.list \subseteq held /\ c.owed \subseteq SignalsOf(c.list)
                  \/ /\ pc' = [pc EXCEPT ![t] = "sync"] /\ lock = None /\ lock' = t
                     /\ c.list = {} /\ c.owed \subseteq issued
  <2>1. CASE CallWait(t)
    <3>1. PICK es \in SUBSET Usable :
            call' = [call EXCEPT ![t] = [NoCall EXCEPT !.op = "wait", !.list = es,
                                         !.owed = {meaning[e] : e \in es}]]
      BY <2>1 DEF CallWait
    <3> DEFINE d == [NoCall EXCEPT !.op = "wait", !.list = es,
                                   !.owed = {meaning[e] : e \in es}]
    <3>2. d.id = 0 /\ d.list = es /\ d.owed = {meaning[e] : e \in es}
      BY DEF NoCall
    <3>3. es \subseteq held /\ SignalsOf(es) = {meaning[e] : e \in es}
      BY UsableFacts
    <3>4. pc' = [pc EXCEPT ![t] = "eventWait"] /\ lock' = lock
      BY <2>1 DEF CallWait, Goto
    <3>5. call' = [call EXCEPT ![t] = d]
      BY <3>1
    <3> HIDE DEF d
    <3> QED  BY <3>2, <3>3, <3>4, <3>5
  <2>2. CASE CallFinish(t)
    <3> DEFINE d == [NoCall EXCEPT !.op = "finish", !.owed = issued]
    <3>1. d.id = 0 /\ d.list = {} /\ d.owed = issued
      BY DEF NoCall
    <3>2. /\ call' = [call EXCEPT ![t] = d] /\ lock = None /\ lock' = t
          /\ pc' = [pc EXCEPT ![t] = "sync"]
      BY <2>2 DEF CallFinish, Goto
    <3> HIDE DEF d
    <3> QED  BY <3>1, <3>2
  <2> QED  BY <2>1, <2>2
<1>6. /\ pc \in [Threads -> Labels] /\ DOMAIN call = Threads
      /\ list \in [Threads -> Lists] /\ index \in Nat
  BY <1>1 DEF CallsOK
<1>7. call'[t] = c /\ list'[t] \in Lists
  BY <1>2, <1>6
<1>8. CallOK(t)'
  <2>   SignalsOf(c.list)' = SignalsOf(c.list) /\ SignalsOf(call[t].list)' = SignalsOf(c.list)'
    BY <1>2, <1>7 DEF SignalsOf
  <2>2. \/ pc'[t] = "eventWait"
        \/ pc'[t] = "sync" /\ lock' = t /\ c.list = {} /\ c.owed \subseteq issued'
    BY <1>2, <1>6
  <2>3. pc'[t] = "eventWait" => c.list \subseteq held' /\ c.owed \subseteq SignalsOf(c.list)'
    BY <1>2, <1>6
  <2> QED  BY <1>7, <2>2, <2>3 DEF CallOK, Labels, Waiting
<1>9. Frame(t)
  <2>1. \A u \in Threads : u # t => /\ pc'[u] = pc[u] /\ call'[u] = call[u]
                                    /\ list'[u] = list[u]
    BY <1>2, <1>6
  <2>2. \A u \in Threads : u # t /\ lock = u => lock' = u
    BY NoneAssumption
  <2>3. calls \in Nat
    BY <1>1 DEF PromiseOK
  <2> QED  BY SMTT(20), Z3T(20), <1>2, <2>1, <2>2, <2>3 DEF Frame
<1>10. CallsOK'
  <2>1. pc' \in [Threads -> Labels] /\ DOMAIN call' = Threads
        /\ list' \in [Threads -> Lists] /\ index' \in Nat
    BY <1>2, <1>6 DEF Labels
  <2> QED  BY <1>3, <1>7, <1>8, <1>9, <2>1, CallsStep
<1> QED  BY <1>3, <1>4, <1>10 DEF Inv

LEMMA ReleaseInv ==
  ASSUME Inv, NEW t \in Threads, CallRelease(t)
  PROVE  Inv'
<1>1. /\ LanesOK /\ PromiseOK /\ HandlesOK /\ CallsOK /\ OrderOK
  BY DEF Inv
<1>2. PICK e \in Usable : /\ \A u \in Threads : e \notin call[u].list
                          /\ pool' = ReleaseEvent(pool, e)
                          /\ held' = held \ {e}
                          /\ meaning' = [meaning EXCEPT ![e] = 0]
  BY DEF CallRelease
<1>   /\ pc[t] = "idle"
      /\ UNCHANGED <<front, deps, launched, done, index, lock, async, kind, needs, issued,
                     calls, pc, call, list>>
  BY DEF CallRelease, lanes, memory, promise
<1>4. LanesOK' /\ PromiseOK'
  BY <1>1 DEF LanesOK, PromiseOK
<1>5. OrderOK'
  <2>1. \A D : Closed(D)' <=> Closed(D)
    BY DEF Closed
  <2>2. Barriers' = Barriers
    BY DEF Barriers
  <2> QED  BY <1>1, <2>1, <2>2 DEF OrderOK
<1>   HandlesOK' /\ pool'.created = pool.created /\ pool'.signals = pool.signals
  <2>1. e \in held
    BY DEF Usable
  <2> QED  BY <1>1, <1>2, <2>1, ReleaseHeld DEF HandlesOK
<1>7. Frame(t)
  <2>1. calls \in Nat
    BY <1>1 DEF PromiseOK
  <2> QED  BY SMTT(20), Z3T(20), <1>2, <2>1 DEF Frame
<1>8. CallOK(t)'
  <2>1. CallOK(t)
    BY <1>1 DEF CallsOK
  <2> QED  BY <2>1 DEF CallOK, Waiting
<1>9. CallsOK'
  BY <1>1, <1>7, <1>8, CallsStep DEF CallsOK
<1> QED  BY <1>4, <1>5, <1>9 DEF Inv

\* The event a call asks for
LEMMA GiveFacts ==
  ASSUME Inv, NEW t \in Threads, pc[t] \in Waiting, NEW lb, launched \subseteq lb,
         call[t].id \in lb, EventIfRequested(t)
  PROVE  /\ Holding(PoolAfter(t), held', meaning', async, lb)
         /\ PoolAfter(t).created \subseteq pool.created \cup {call[t].id}
         /\ held \subseteq held'
         /\ \A e \in held : PoolAfter(t).signals[e] = pool.signals[e]
<1>1. /\ call[t].id \in Ids \ pool.created /\ call[t].ev \in BOOLEAN
      /\ call[t].ptr \in Ptrs \cup {None}
  BY CallIds DEF Inv, CallsOK, CallOK
<1>2. Holding(pool, held, meaning, async, launched)
  BY DEF Inv, HandlesOK
<1>3. CASE call[t].ev
  <2>1. /\ PoolAfter(t) = TakeEvent(pool, call[t].id, 1)
        /\ held' = held \cup {NextEvent(pool, call[t].id)}
        /\ meaning' = [meaning EXCEPT ![NextEvent(pool, call[t].id)] = call[t].id]
    BY <1>3 DEF PoolAfter, EventIfRequested, GiveEvent
  <2>2. Taken(pool, held, meaning, async, lb, call[t].id, 1)
    BY <1>1, <1>2, TakeHandles
  <2> QED  BY <2>1, <2>2 DEF Taken
<1>4. CASE ~call[t].ev
  <2>1. PoolAfter(t) = pool /\ held' = held /\ meaning' = meaning
    BY <1>4 DEF PoolAfter, EventIfRequested, handles
  <2>2. Holding(pool, held, meaning, async, lb)
    <3>1. meaning \in [Ids -> lb \cup {0}]
      BY <1>2 DEF Holding
    <3>2. async \subseteq [ptr : Ptrs \cup {None}, event : pool.created, id : lb]
      BY ZenonT(30), <1>2 DEF Holding
    <3> QED  BY <1>2, <3>1, <3>2 DEF Holding
  <2> QED  BY <2>1, <2>2
<1> QED  BY <1>1, <1>3, <1>4

\* What the command of t waits for is on the lists.
LEMMA SignalsLaunched ==
  ASSUME Inv, NEW t \in Threads, pc[t] \in Waiting
  PROVE  SignalsOf(call[t].list) \subseteq launched
  BY SMTT(20), Z3T(20) DEF Inv, CallsOK, CallOK, HandlesOK, Holding, SignalsOf

\* The command of t goes on its list.
LEMMA AppendToFacts ==
  ASSUME Inv, NEW t \in Threads, pc[t] = "append", NEW after \in SUBSET launched,
         SignalsOf(call[t].list) \subseteq after, AppendTo(t, after),
         kind' = kind, needs' = needs
  PROVE  /\ LanesOK' /\ OrderOK'
         /\ launched' = launched \cup {call[t].id}
         /\ front'[list[t]] = {call[t].id}
<1>   CallOK(t) /\ call[t].id \in Ids \ launched /\ list[t] \in Lists
  BY CallIds DEF Inv, CallsOK, CallOK, Waiting
<1>2. kind[call[t].id] # "barrier"
  BY DEF CallOK, Waiting, KindOf, Plain, Markers
<1>3. NumLists # 1 => needs[call[t].id] \subseteq after \cup Barriers
  BY DEF CallOK, Waiting
<1>   /\ deps' = [deps EXCEPT ![call[t].id] = front[list[t]] \cup after]
      /\ front' = [front EXCEPT ![list[t]] = {call[t].id}]
      /\ launched' = launched \cup {call[t].id} /\ done' = done
  BY DEF AppendTo
<1>5. LanesOK' /\ OrderOK'
  BY ZenonT(30), <1>2, <1>3, AppendOrder DEF Inv
<1> QED  BY <1>5 DEF Inv, LanesOK

\* With the lock free, a launch of t is no concern of the other calls.
LEMMA LaunchFrame ==
  ASSUME Inv, NEW t \in Threads, pc[t] \in Waiting, lock = None,
         launched' = launched \cup {call[t].id},
         pool'.created \subseteq pool.created \cup {call[t].id},
         held \subseteq held', \A e \in held : pool'.signals[e] = pool.signals[e],
         kind' = kind, needs' = needs, calls' = calls, issued \subseteq issued',
         \A u \in Threads : u # t => /\ pc'[u] = pc[u] /\ call'[u] = call[u]
                                     /\ list'[u] = list[u]
  PROVE  Frame(t)
<1>1. calls \in Nat
  BY DEF Inv, PromiseOK
<1> QED  BY SMTT(20), Z3T(20), <1>1, NoneAssumption DEF Frame

\* A launch of t that returns
LEMMA LaunchReturns ==
  ASSUME Inv, NEW t \in Threads, pc[t] \in Waiting, lock = None, Return(t),
         LanesOK', OrderOK', HandlesOK', launched' = launched \cup {call[t].id},
         pool'.created \subseteq pool.created \cup {call[t].id},
         held \subseteq held', \A e \in held : pool'.signals[e] = pool.signals[e],
         calls' = calls, index' = index
  PROVE  Inv'
<1>1. /\ kind' = kind /\ needs' = needs /\ issued \subseteq issued'
      /\ \A u \in Threads : u # t => /\ pc'[u] = pc[u] /\ call'[u] = call[u]
                                     /\ list'[u] = list[u]
  BY DEF Return, Goto, Inv, CallsOK
<1>2. Frame(t)
  BY <1>1, LaunchFrame
<1> QED  BY <1>2, Returned

LEMMA AppendCommandInv ==
  ASSUME Inv, NEW t \in Threads, AppendCommand(t)
  PROVE  Inv'
<1>   /\ pc[t] = "append" /\ pc[t] \in Waiting /\ lock = None
      /\ AppendTo(t, SignalsOf(call[t].list)) /\ pool' = PoolAfter(t)
      /\ EventIfRequested(t) /\ index' = index /\ async' = async /\ calls' = calls
  BY DEF AppendCommand, memory, Waiting
<1>2. kind' = kind /\ needs' = needs
  BY DEF AppendCommand, Return, promise
<1>3. /\ LanesOK' /\ OrderOK' /\ launched' = launched \cup {call[t].id}
      /\ front'[list[t]] = {call[t].id}
  BY <1>2, SignalsLaunched, AppendToFacts
<1>4. /\ HandlesOK' /\ pool'.created \subseteq pool.created \cup {call[t].id}
      /\ held \subseteq held' /\ \A e \in held : pool'.signals[e] = pool.signals[e]
  <2>1. launched \subseteq launched' /\ call[t].id \in launched'
    BY <1>3
  <2> QED  BY <2>1, GiveFacts DEF HandlesOK
<1>5. CASE Return(t)
  BY <1>3, <1>4, <1>5, LaunchReturns
<1>6. CASE call[t].op = "read"
  <2>   /\ lock' = t /\ pc' = [pc EXCEPT ![t] = "syncCopy"]
        /\ issued' = issued /\ call' = call /\ list' = list
    BY <1>6 DEF AppendCommand, Goto, promise
  <2>   /\ pc \in [Threads -> Labels] /\ DOMAIN call = Threads
        /\ list \in [Threads -> Lists] /\ index \in Nat /\ CallOK(t)
    BY DEF Inv, CallsOK
  <2>3. Frame(t)
    BY <1>2, <1>3, <1>4, LaunchFrame
  <2>4. CallOK(t)'
    <3>1. pc'[t] = "syncCopy"
      OBVIOUS
    <3> QED  BY <1>3, <1>6, <3>1 DEF CallOK, Labels, Waiting
  <2>5. CallsOK'
    <3>1. pc' \in [Threads -> Labels]
      BY DEF Labels
    <3> QED  BY <1>4, <2>3, <2>4, <3>1, CallsStep
  <2>6. PromiseOK'
    <3>1. PromiseOK /\ call[t].id \in 1 .. calls /\ kind[call[t].id] # "none"
      BY DEF Inv, CallOK, KindOf, Plain, Markers
    <3> QED  BY SMTT(20), Z3T(20), <1>2, <1>3, <3>1 DEF PromiseOK
  <2> QED  BY <1>3, <1>4, <2>5, <2>6 DEF Inv
<1> QED  BY <1>5, <1>6 DEF AppendCommand

LEMMA AllocInv ==
  ASSUME Inv, NEW t \in Threads, AppendAlloc(t)
  PROVE  Inv'
<1>   /\ pc[t] = "append" /\ pc[t] \in Waiting /\ lock = None
      /\ AppendTo(t, SignalsOf(call[t].list)) /\ pool' = PoolAfter(t)
      /\ EventIfRequested(t) /\ index' = index /\ async' = async /\ calls' = calls
      /\ Return(t)
  BY DEF AppendAlloc, Waiting
<1>2. kind' = kind /\ needs' = needs
  BY DEF Return
<1>   /\ LanesOK' /\ OrderOK' /\ launched' = launched \cup {call[t].id}
  BY <1>2, SignalsLaunched, AppendToFacts
<1>4. /\ HandlesOK' /\ pool'.created \subseteq pool.created \cup {call[t].id}
      /\ held \subseteq held' /\ \A e \in held : pool'.signals[e] = pool.signals[e]
  <2>1. launched \subseteq launched' /\ call[t].id \in launched'
    OBVIOUS
  <2> QED  BY <2>1, GiveFacts DEF HandlesOK
<1> QED  BY <1>4, LaunchReturns

LEMMA ReuseInv ==
  ASSUME Inv, NEW t \in Threads, AppendReuse(t)
  PROVE  Inv'
<1>1. PICK a \in async : /\ AppendTo(t, SignalsOf(call[t].list \cup {a.event}))
                         /\ pool' = ReleaseEvent(PoolAfter(t), a.event)
                         /\ async' = async \ {a}
  BY DEF AppendReuse
<1>   /\ pc[t] = "append" /\ pc[t] \in Waiting /\ lock = None
      /\ EventIfRequested(t) /\ index' = index /\ calls' = calls /\ Return(t)
  BY DEF AppendReuse, Waiting
<1>3. kind' = kind /\ needs' = needs
  BY DEF Return
<1>4. /\ SignalsOf(call[t].list \cup {a.event}) \in SUBSET launched
      /\ SignalsOf(call[t].list) \subseteq SignalsOf(call[t].list \cup {a.event})
  <2>1. pool.signals[a.event] \in launched
    BY DEF Inv, HandlesOK, Holding
  <2> QED  BY <2>1, SignalsLaunched DEF SignalsOf
<1>5. /\ LanesOK' /\ OrderOK' /\ launched' = launched \cup {call[t].id}
  BY <1>1, <1>3, <1>4, AppendToFacts
<1>   /\ Holding(PoolAfter(t), held', meaning', async, launched')
      /\ PoolAfter(t).created \subseteq pool.created \cup {call[t].id}
      /\ held \subseteq held' /\ \A e \in held : PoolAfter(t).signals[e] = pool.signals[e]
  <2>1. launched \subseteq launched' /\ call[t].id \in launched'
    BY <1>5
  <2> QED  BY <2>1, GiveFacts
<1>7. /\ Holding(ReleaseEvent(PoolAfter(t), a.event), held', meaning', async \ {a}, launched')
      /\ ReleaseEvent(PoolAfter(t), a.event).created = PoolAfter(t).created
      /\ ReleaseEvent(PoolAfter(t), a.event).signals = PoolAfter(t).signals
  <2>1. Released(ReleaseEvent(PoolAfter(t), a.event), PoolAfter(t), held', meaning', async,
                 launched', a)
    BY ReleaseAsync
  <2> QED  BY <2>1 DEF Released
<1>8. /\ HandlesOK' /\ pool'.created \subseteq pool.created \cup {call[t].id}
      /\ \A e \in held : pool'.signals[e] = pool.signals[e]
  BY <1>1, <1>7 DEF HandlesOK
<1> QED  BY <1>5, <1>8, LaunchReturns

LEMMA FreeInv ==
  ASSUME Inv, NEW t \in Threads, AppendFree(t)
  PROVE  Inv'
<1> DEFINE id == call[t].id
           e == NextEvent(pool, id)
           q == TakeEvent(pool, id, 2)
           a == [ptr |-> call[t].ptr, event |-> e, id |-> id]
<1>   /\ pc[t] = "append" /\ pc[t] \in Waiting /\ lock = None
      /\ AppendTo(t, SignalsOf(call[t].list)) /\ pool' = q /\ async' = async \cup {a}
      /\ EventIfRequested(t) /\ index' = index /\ calls' = calls /\ Return(t)
  BY DEF AppendFree, Waiting
<1>2. kind' = kind /\ needs' = needs
  BY DEF Return
<1>3. /\ LanesOK' /\ OrderOK' /\ launched' = launched \cup {id}
  BY <1>2, SignalsLaunched, AppendToFacts
<1>4. /\ id \in Ids \ pool.created /\ call[t].ptr \in Ptrs \cup {None}
      /\ call[t].ev \in BOOLEAN
  BY CallIds DEF Inv, CallsOK, CallOK
<1>5. Taken(pool, held, meaning, async, launched', id, 2)
  <2>1. Holding(pool, held, meaning, async, launched)
    BY ZenonT(40) DEF Inv, HandlesOK
  <2> QED  BY <1>3, <1>4, <2>1, TakeHandles
<1> HIDE DEF id, e, q
<1>   /\ Holding(q, held, meaning, async, launched')
      /\ Holding(q, held \cup {e}, [meaning EXCEPT ![e] = id], async, launched')
      /\ e \in q.created \ Stacked(q) /\ q.signals[e] = id /\ q.refs[e] > 1
      /\ \A b \in async : b.event # e
      /\ q.created \subseteq pool.created \cup {id}
      /\ \A x \in held : q.signals[x] = pool.signals[x]
  BY SMTT(20), Z3T(20), <1>5 DEF Taken, e, q
<1>   /\ held \subseteq held'
      /\ Holding(q, held', meaning', async, launched')
  <2>1. CASE call[t].ev
    BY <2>1 DEF EventIfRequested, GiveEvent, e, id
  <2>2. CASE ~call[t].ev
    BY <2>2 DEF EventIfRequested, handles
  <2> QED  BY <1>4, <2>1, <2>2
<1>8. Holding(q, held', meaning', async \cup {a}, launched')
  BY <1>3, <1>4, AddFreed
<1>9. HandlesOK'
  BY <1>8 DEF HandlesOK
<1> QED  BY <1>3, <1>9, LaunchReturns DEF id

LEMMA BarrierInv ==
  ASSUME Inv, NEW t \in Threads, Barrier(t)
  PROVE  Inv'
<1> DEFINE id == call[t].id
<1>   /\ pc[t] \in Waiting /\ lock = None /\ Return(t)
      /\ deps' = [deps EXCEPT ![id] =
                    SignalsOf(call[t].list) \cup UNION {front[l] : l \in Lists}]
      /\ front' = [l \in Lists |-> {id}] /\ launched' = launched \cup {id} /\ done' = done
      /\ pool' = PoolAfter(t) /\ EventIfRequested(t)
      /\ index' = index /\ async' = async /\ calls' = calls
  BY DEF Barrier, memory, Waiting
<1>2. kind' = kind /\ needs' = needs
  BY DEF Return
<1>3. id \in Ids \ launched
  BY CallIds DEF Inv, CallsOK, CallOK
<1>4. LanesOK' /\ OrderOK'
  BY <1>2, <1>3, SignalsLaunched, BarrierOrder DEF Inv
<1>5. /\ HandlesOK' /\ pool'.created \subseteq pool.created \cup {id}
      /\ held \subseteq held' /\ \A e \in held : pool'.signals[e] = pool.signals[e]
  <2>1. launched \subseteq launched' /\ id \in launched'
    OBVIOUS
  <2> QED  BY <2>1, GiveFacts DEF HandlesOK
<1> QED  BY <1>4, <1>5, LaunchReturns

\* What taking an event for command id that nothing signals does
Refused(p, h, m, as, la, id) ==
  LET q == [TakeEvent(p, id, 1) EXCEPT !.signals = p.signals]
  IN  /\ Holding(q, h, m, as, la)
      /\ q.created \subseteq p.created \cup {id} /\ q.signals = p.signals

\* The event of an allocation that fails is nobody's.
LEMMA FailsHandles ==
  ASSUME NEW p, NEW h, NEW m, NEW as, NEW la, Holding(p, h, m, as, la),
         NEW id \in Ids \ p.created
  PROVE  Refused(p, h, m, as, la, id)
<1> DEFINE r == TakeEvent(p, id, 1)
           q == [r EXCEPT !.signals = p.signals]
<1>1. PoolOK(p)
  BY DEF Holding
<1>2. /\ PoolOK(r)
      /\ NextEvent(p, id) \in Ids /\ (NextEvent(p, id) \in Stacked(p) \/ NextEvent(p, id) = id)
      /\ Stacked(r) = Stacked(p) \ {NextEvent(p, id)}
      /\ r.created = p.created \cup {NextEvent(p, id)}
      /\ r.refs = [p.refs EXCEPT ![NextEvent(p, id)] = 1]
      /\ r.signals = [p.signals EXCEPT ![NextEvent(p, id)] = id]
  <2>1. id \in Ids /\ id \notin p.created /\ 1 \in Nat
    OBVIOUS
  <2> QED  BY SMTT(20), Z3T(20), <1>1, <2>1, TakeFacts
<1>3. p.signals \in [Ids -> Ids \cup {0}] /\ Stacked(p) \subseteq p.created
      /\ p.refs \in [Ids -> Nat]
  BY <1>1 DEF PoolOK
<1> HIDE DEF r
<1>4. r \in [free : Seq(Ids), created : SUBSET Ids, refs : [Ids -> Nat],
             signals : [Ids -> Ids \cup {0}]]
  BY <1>2 DEF PoolOK
<1>   /\ q.free = r.free /\ q.created = r.created /\ q.refs = r.refs
      /\ q.signals = p.signals
      /\ q \in [free : Seq(Ids), created : SUBSET Ids, refs : [Ids -> Nat],
                signals : [Ids -> Ids \cup {0}]]
  BY ZenonT(30), <1>3, <1>4
<1> HIDE DEF q
<1>6. Stacked(q) = Stacked(r) /\ PoolOK(q)
  <2>   Stacked(q) = Stacked(r)
    BY DEF Stacked
  <2>2. /\ Stacked(r) \subseteq r.created
        /\ \A i, j \in 1 .. Len(r.free) : r.free[i] = r.free[j] => i = j
    BY <1>2 DEF PoolOK
  <2>3. /\ Stacked(q) \subseteq q.created
        /\ \A i, j \in 1 .. Len(q.free) : q.free[i] = q.free[j] => i = j
    BY <2>2
  <2> QED BY <2>3 DEF PoolOK
<1>7. p.created \subseteq q.created /\ q.created \subseteq p.created \cup {id}
  BY <1>2, <1>3
<1>8. \A x \in p.created : x \notin Stacked(p) => q.refs[x] = p.refs[x]
  BY SMTT(20), Z3T(20), <1>2, <1>3
<1>9. as \subseteq [ptr : Ptrs \cup {None}, event : q.created, id : la]
  BY <1>7 DEF Holding
<1>10. \A a \in as : /\ a.event \notin Stacked(q) /\ q.signals[a.event] = a.id
                     /\ a.event \in h => q.refs[a.event] > 1
  <2> TAKE a \in as
  <2>1. /\ a.event \notin Stacked(p) /\ p.signals[a.event] = a.id
        /\ a.event \in h => p.refs[a.event] > 1
        /\ a.event \in p.created
    BY DEF Holding
  <2> QED  BY <1>2, <1>6, <1>8, <2>1
<1>11. \A x \in h : x \notin Stacked(q) /\ q.signals[x] = m[x] /\ m[x] \in la
  BY <1>2, <1>6 DEF Holding
<1>12. Holding(q, h, m, as, la)
  BY <1>6, <1>7, <1>9, <1>10, <1>11 DEF Holding
<1> QED  BY <1>7, <1>12 DEF Refused, q, r

LEMMA AllocFailsInv ==
  ASSUME Inv, NEW t \in Threads, AllocFails(t)
  PROVE  Inv'
<1>1. /\ LanesOK /\ PromiseOK /\ HandlesOK /\ CallsOK /\ OrderOK
  BY DEF Inv
<1>   /\ pc[t] \in Waiting
      /\ pool' = [PoolAfter(t) EXCEPT !.signals = pool.signals]
      /\ call' = [call EXCEPT ![t] = NoCall] /\ list' = [list EXCEPT ![t] = 0]
      /\ pc' = [pc EXCEPT ![t] = "idle"]
      /\ UNCHANGED <<front, deps, launched, done, index, lock, async, held, meaning,
                     kind, needs, issued, calls>>
  BY DEF AllocFails, lanes, memory, promise, handles, Goto, Waiting
<1>3. LanesOK' /\ PromiseOK'
  BY <1>1 DEF LanesOK, PromiseOK
<1>4. OrderOK'
  <2>1. \A D : Closed(D)' <=> Closed(D)
    BY DEF Closed
  <2>2. Barriers' = Barriers
    BY DEF Barriers
  <2> QED  BY <1>1, <2>1, <2>2 DEF OrderOK
<1>5. /\ HandlesOK' /\ pool'.created \subseteq pool.created \cup {call[t].id}
      /\ pool'.signals = pool.signals
  <2>1. /\ call[t].id \in Ids \ pool.created /\ call[t].ev \in BOOLEAN
    BY <1>1, CallIds DEF CallsOK, CallOK
  <2>2. CASE call[t].ev
    <3>1. pool' = [TakeEvent(pool, call[t].id, 1) EXCEPT !.signals = pool.signals]
      BY <2>2 DEF PoolAfter
    <3>2. Refused(pool, held, meaning, async, launched, call[t].id)
      BY <1>1, <2>1, FailsHandles DEF HandlesOK
    <3> QED  BY <3>1, <3>2 DEF Refused, HandlesOK
  <2>3. CASE ~call[t].ev
    <3>1. pool \in [free : Seq(Ids), created : SUBSET Ids, refs : [Ids -> Nat],
                    signals : [Ids -> Ids \cup {0}]]
      BY <1>1 DEF HandlesOK, Holding, PoolOK
    <3>2. pool' = pool
      BY <2>3, <3>1 DEF PoolAfter
    <3> QED  BY <1>1, <3>2 DEF HandlesOK
  <2> QED  BY <2>1, <2>2, <2>3
<1>   /\ pc \in [Threads -> Labels] /\ DOMAIN call = Threads
      /\ list \in [Threads -> Lists] /\ index \in Nat /\ calls \in Nat /\ 0 \in Lists
  BY SMTT(20), Z3T(20), <1>1, ListsAssumption DEF CallsOK, PromiseOK, Lists
<1>7. pc'[t] = "idle" /\ call'[t] = NoCall /\ list'[t] = 0
  OBVIOUS
<1>8. CallOK(t)'
  BY <1>7 DEF CallOK, Labels, Waiting
<1>9. Frame(t)
  BY SMTT(20), Z3T(20), <1>5 DEF Frame
<1>10. CallsOK'
  <2>1. pc' \in [Threads -> Labels] /\ DOMAIN call' = Threads
        /\ list' \in [Threads -> Lists] /\ index' \in Nat
    BY DEF Labels
  <2>2. call'[t].id = 0
    BY SMTT(20), Z3T(20), <1>7 DEF NoCall
  <2> QED  BY <1>5, <1>8, <1>9, <2>1, <2>2, CallsStep
<1> QED  BY <1>3, <1>4, <1>5, <1>10 DEF Inv

\* SyncCopy, EndFinish and EventWait return and change nothing but the lock.
LEMMA WaitedInv ==
  ASSUME Inv, NEW t \in Threads, SyncCopy(t) \/ EndFinish(t) \/ EventWait(t)
  PROVE  Inv'
<1>1. /\ LanesOK /\ PromiseOK /\ HandlesOK /\ CallsOK /\ OrderOK
  BY DEF Inv
<1>   /\ Return(t)
      /\ UNCHANGED <<front, deps, launched, done, index, pool, async, held, meaning,
                     calls>>
  BY DEF SyncCopy, EndFinish, EventWait, lanes, memory, handles
<1>3. kind' = kind /\ needs' = needs /\ issued \subseteq issued'
  BY DEF Return
<1>4. \/ pc[t] = "eventWait" /\ lock' = lock
      \/ pc[t] \in {"syncCopy", "sync"} /\ lock' = None
  BY DEF SyncCopy, EndFinish, EventWait, Synced
<1>5. CallOK(t) /\ DOMAIN call = Threads /\ pc \in [Threads -> Labels]
      /\ list \in [Threads -> Lists]
  BY <1>1 DEF CallsOK
<1>6. lock' = lock \/ lock = t
  BY <1>4, <1>5 DEF CallOK
<1>7. call[t].id # 0 => call[t].id \in launched'
  BY <1>4, <1>5 DEF CallOK
<1>8. LanesOK' /\ HandlesOK'
  BY <1>1 DEF LanesOK, HandlesOK
<1>9. OrderOK'
  <2>1. \A D : Closed(D)' <=> Closed(D)
    BY DEF Closed
  <2>2. Barriers' = Barriers
    BY <1>3 DEF Barriers
  <2> QED  BY <1>1, <1>3, <2>1, <2>2 DEF OrderOK
<1>10. Frame(t)
  <2>1. \A u \in Threads : u # t => /\ pc'[u] = pc[u] /\ call'[u] = call[u]
                                    /\ list'[u] = list[u]
    BY <1>5 DEF Return, Goto
  <2>2. calls \in Nat
    BY <1>1 DEF PromiseOK
  <2> QED  BY SMTT(20), Z3T(20), <1>3, <1>6, <2>1, <2>2 DEF Frame
<1> QED  BY <1>7, <1>8, <1>9, <1>10, Returned

LEMMA CleanupInv ==
  ASSUME Inv, NEW t \in Threads, Cleanup(t)
  PROVE  Inv'
<1>1. /\ LanesOK /\ PromiseOK /\ HandlesOK /\ CallsOK /\ OrderOK
  BY DEF Inv
<1>2. PICK a \in async : /\ pool' = ReleaseEvent(pool, a.event)
                         /\ async' = async \ {a}
  BY DEF Cleanup
<1>   UNCHANGED <<front, deps, launched, done, index, lock, held, meaning, kind, needs,
                  issued, calls, pc, call, list>>
  BY DEF Cleanup, lanes, handles, promise
<1>4. LanesOK' /\ PromiseOK'
  BY <1>1 DEF LanesOK, PromiseOK
<1>5. OrderOK'
  <2>1. \A D : Closed(D)' <=> Closed(D)
    BY DEF Closed
  <2>2. Barriers' = Barriers
    BY DEF Barriers
  <2> QED  BY <1>1, <2>1, <2>2 DEF OrderOK
<1>   HandlesOK' /\ pool'.created = pool.created /\ pool'.signals = pool.signals
  <2>1. Released(ReleaseEvent(pool, a.event), pool, held, meaning, async, launched, a)
    BY <1>1, ReleaseAsync DEF HandlesOK
  <2> QED  BY <1>2, <2>1 DEF Released, HandlesOK
<1>7. Frame(t)
  <2>1. calls \in Nat
    BY <1>1 DEF PromiseOK
  <2> QED  BY SMTT(20), Z3T(20), <2>1 DEF Frame
<1>8. CallOK(t)'
  <2>1. CallOK(t) /\ pc[t] = "sync"
    BY <1>1 DEF CallsOK, Cleanup, Synced
  <2> QED  BY <2>1 DEF CallOK, Waiting
<1>9. CallsOK'
  BY <1>1, <1>7, <1>8, CallsStep DEF CallsOK
<1> QED  BY <1>4, <1>5, <1>9 DEF Inv

LEMMA ExecuteInv ==
  ASSUME Inv, Execute
  PROVE  Inv'
<1>1. /\ LanesOK /\ PromiseOK /\ HandlesOK /\ CallsOK /\ OrderOK
  BY DEF Inv
<1>2. PICK i \in Ids : Complete(i)
  BY DEF Execute
<1>   /\ front' = front /\ launched' = launched
      /\ UNCHANGED <<index, lock, pool, async, held, meaning, kind, needs, issued, calls,
                     pc, call, list>>
  BY <1>2 DEF Execute, Complete, memory, handles, promise
<1>4. LanesOK' /\ OrderOK'
  BY <1>1, <1>2, CompleteOrder
<1>5. PromiseOK' /\ HandlesOK'
  BY ZenonT(30), <1>1 DEF PromiseOK, HandlesOK
<1>6. ASSUME NEW t \in Threads
      PROVE  CallOK(t)'
  <2>1. CallOK(t)
    BY <1>1 DEF CallsOK
  <2>2. SignalsOf(call[t].list)' = SignalsOf(call[t].list) /\ Barriers' = Barriers
    BY DEF SignalsOf, Barriers
  <2> QED  BY SMTT(20), Z3T(20), <2>1, <2>2 DEF CallOK
<1>7. CallsOK'
  BY <1>1, <1>6 DEF CallsOK
<1> QED  BY <1>4, <1>5, <1>7 DEF Inv

LEMMA StutterInv ==
  ASSUME Inv, UNCHANGED vars
  PROVE  Inv'
<1>1. /\ LanesOK /\ PromiseOK /\ HandlesOK /\ CallsOK /\ OrderOK
  BY DEF Inv
<1>   UNCHANGED <<front, deps, launched, done, index, lock, pool, async, held, meaning,
                  kind, needs, issued, calls, pc, call, list>>
  BY DEF vars, lanes
<1>3. LanesOK' /\ PromiseOK' /\ HandlesOK'
  BY ZenonT(30), <1>1 DEF LanesOK, PromiseOK, HandlesOK
<1>4. \A t \in Threads : CallOK(t)'
  <2> TAKE t \in Threads
  <2>1. CallOK(t)
    BY <1>1 DEF CallsOK
  <2>2. SignalsOf(call[t].list)' = SignalsOf(call[t].list) /\ Barriers' = Barriers
    BY DEF SignalsOf, Barriers
  <2> QED  BY ZenonT(30), <2>1, <2>2 DEF CallOK
<1>5. CallsOK'
  BY <1>1, <1>4 DEF CallsOK
<1>6. OrderOK'
  <2>1. \A D : Closed(D)' <=> Closed(D)
    BY DEF Closed
  <2>2. Barriers' = Barriers
    BY DEF Barriers
  <2> QED  BY <1>1, <2>1, <2>2 DEF OrderOK
<1> QED  BY <1>3, <1>5, <1>6 DEF Inv

LEMMA InitInv ==
  ASSUME Init
  PROVE  Inv
<1>1. /\ front = [l \in Lists |-> {}] /\ deps = [i \in Ids |-> {}]
      /\ launched = {} /\ done = {}
  BY DEF Init, LanesInit
<1>2. LanesOK
  BY <1>1 DEF LanesOK
<1>3. PromiseOK
  BY SMTT(20), Z3T(20), <1>1, MaxCommandsAssumption DEF Init, PromiseOK
<1>4. HandlesOK
  <2>   /\ pool.free = <<>> /\ pool.created = {} /\ held = {} /\ async = {}
        /\ pool \in [free : Seq(Ids), created : SUBSET Ids, refs : [Ids -> Nat],
                     signals : [Ids -> Ids \cup {0}]]
        /\ meaning \in [Ids -> launched \cup {0}]
    BY SMTT(20), Z3T(20) DEF Init, Events
  <2>2. Stacked(pool) = {} /\ PoolOK(pool)
    <3>1. 1 .. Len(pool.free) = {}
      BY SMTT(20), Z3T(20)
    <3> QED  BY <3>1 DEF Stacked, PoolOK
  <2> QED  BY <2>2 DEF HandlesOK, Holding
<1>5. CallsOK
  <2>   0 \in Lists /\ pool.created = {} /\ index = 0 /\ calls = 0
    BY SMTT(20), Z3T(20), ListsAssumption DEF Init, Lists
  <2>   /\ pc = [t \in Threads |-> "idle"] /\ call = [t \in Threads |-> NoCall]
        /\ list = [t \in Threads |-> 0]
    BY DEF Init
  <2>3. \A t \in Threads : CallOK(t) /\ call[t].id = 0
    BY DEF CallOK, Labels, Waiting, NoCall
  <2> QED  BY <2>3 DEF CallsOK, Labels
<1>6. OrderOK
  BY <1>1 DEF OrderOK, Barriers
<1> QED  BY <1>2, <1>3, <1>4, <1>5, <1>6 DEF Inv

\* Every step preserves the invariant.
LEMMA NextInv ==
  ASSUME "waitall" \notin Ops \/ NumLists = 1, Inv, [Next]_vars
  PROVE  Inv'
<1>1. CASE Execute
  BY <1>1, ExecuteInv
<1>2. ASSUME NEW t \in Threads,
             CallEnqueue(t) \/ CallWait(t) \/ CallFinish(t) \/ CallRelease(t) \/ Step(t)
      PROVE  Inv'
  <2>1. CASE CallEnqueue(t)
    BY <2>1, EnqueueInv
  <2>2. CASE CallWait(t) \/ CallFinish(t)
    BY <2>2, WaitInv
  <2>3. CASE CallRelease(t)
    BY <2>3, ReleaseInv
  <2>4. CASE AppendCommand(t)
    BY <2>4, AppendCommandInv
  <2>5. CASE SyncCopy(t) \/ EndFinish(t) \/ EventWait(t)
    BY <2>5, WaitedInv
  <2>6. CASE AppendReuse(t)
    BY <2>6, ReuseInv
  <2>7. CASE AppendAlloc(t)
    BY <2>7, AllocInv
  <2>8. CASE AllocFails(t)
    BY <2>8, AllocFailsInv
  <2>9. CASE AppendFree(t)
    BY <2>9, FreeInv
  <2>10. CASE Barrier(t)
    BY <2>10, BarrierInv
  <2>11. CASE Cleanup(t)
    BY <2>11, CleanupInv
  <2> QED  BY <1>2, <2>1, <2>2, <2>3, <2>4, <2>5, <2>6, <2>7, <2>8, <2>9, <2>10, <2>11
           DEF Step
<1>3. CASE UNCHANGED vars
  BY <1>3, StutterInv
<1> QED  BY <1>1, <1>2, <1>3 DEF Next

\* An event that the application or the pool of freed memory holds stands for the
\* command it was made for, however many threads release, recycle and reuse events.
THEOREM EventsKept ==
  ASSUME "waitall" \notin Ops \/ NumLists = 1
  PROVE  Spec => []EventsKeepMeaning
<1>1. Init => Inv
  BY InitInv
<1>2. Inv /\ [Next]_vars => Inv'
  BY NextInv
<1>3. Inv => EventsKeepMeaning
  BY DEF Inv, HandlesOK, Holding, EventsKeepMeaning
<1> QED  BY <1>1, <1>2, <1>3, PTL DEF Spec

-----------------------------------------------------------------------------
\* The refinement

\* What AbstractQueue sees of a call
View(c) == [cmd |-> IF c.id = 0 THEN {} ELSE {c.id}, owed |-> c.owed]
Views == [t \in Threads |-> View(call[t])]

LEMMA ViewStep ==
  ASSUME DOMAIN call = Threads, NEW t \in Threads, NEW c,
         call' = [call EXCEPT ![t] = c]
  PROVE  Views' = [Views EXCEPT ![t] = View(c)]
  BY DEF Views

\* A call returns, and what it owes is done.
LEMMA ReturnStep ==
  ASSUME Inv, NEW t \in Threads, Return(t), done' = done, call[t].owed \subseteq done
  PROVE  [Contract!Next]_Contract!vars
<1>1. DOMAIN call = Threads
  BY DEF Inv, CallsOK
<1>   /\ issued' = IF call[t].id = 0 THEN issued ELSE issued \cup {call[t].id}
      /\ call' = [call EXCEPT ![t] = NoCall]
      /\ kind' = kind /\ needs' = needs
  BY DEF Return
<1>3. Views' = [Views EXCEPT ![t] = View(NoCall)]
  BY <1>1, ViewStep
<1>4. View(NoCall) = Contract!Idle
  BY DEF View, NoCall, Contract!Idle
<1>5. Views[t] = View(call[t])
  BY DEF Views
<1>6. CASE Views[t] = Contract!Idle
  <2>1. call[t].id = 0
    BY SMTT(20), Z3T(20), <1>5, <1>6 DEF View, Contract!Idle
  <2>2. issued' = issued /\ Views' = Views
    BY <1>3, <1>4, <1>6, <2>1 DEF Views
  <2> QED  BY <2>2 DEF Contract!vars, Views, View
<1>7. CASE Views[t] # Contract!Idle
  <2>1. Views[t].owed \subseteq done /\ issued' = issued \cup Views[t].cmd
    BY SMTT(20), Z3T(20), <1>5 DEF View
  <2>2. Contract!Return(t)
    BY <1>3, <1>4, <1>7, <2>1 DEF Contract!Return, Views, View
  <2> QED  BY <2>2 DEF Contract!Next
<1> QED  BY <1>6, <1>7

LEMMA StutterStep ==
  ASSUME UNCHANGED <<kind, needs, issued, done, call>>
  PROVE  [Contract!Next]_Contract!vars
  BY DEF Contract!vars

LEMMA EnqueueStep ==
  ASSUME Inv, NEW t \in Threads, CallEnqueue(t)
  PROVE  [Contract!Next]_Contract!vars
<1> DEFINE id == calls + 1
           ms(es) == {meaning[e] : e \in es}
           c(op, es, p, ev) == [op |-> op, id |-> id, list |-> es, ptr |-> p, ev |-> ev,
                                owed |-> IF op = "read" THEN {id} ELSE {}]
<1>1. PICK op \in Ops \cap (Plain \cup Markers \cup {"barrier"}), es \in SUBSET Usable,
           p \in Ptrs \cup {None}, ev \in BOOLEAN :
        /\ Cardinality(es) <= MaxWaits
        /\ op = "eventswait" => es # {}
        /\ op = "waitall" => es = {}
        /\ ev \/ op \in Silent
        /\ ProperUse(op, p, Contract!OrderedAfter(KindOf(op), ms(es)))
        /\ calls' = id
        /\ call' = [call EXCEPT ![t] = c(op, es, p, ev)]
        /\ kind' = [kind EXCEPT ![id] = KindOf(op)]
        /\ needs' = [needs EXCEPT ![id] = Contract!OrderedAfter(KindOf(op), ms(es))]
        /\ uses' = IF op = "kernel"
                   THEN [uses EXCEPT ![id] = [ptr |-> p, gen |-> handed[p]]] ELSE uses
        /\ owned' = IF op = "free" THEN owned \ {p} ELSE owned
        /\ IF op = "barrier" THEN Goto(t, "barrier") /\ UNCHANGED <<index, list>>
           ELSE Goto(t, "append") /\ GetNextCommandListId(t)
  BY DEF CallEnqueue
<1>2. pc[t] = "idle" /\ calls < MaxCommands /\ issued' = issued /\ done' = done
  BY DEF CallEnqueue, lanes
<1>3. /\ calls \in Nat /\ id \in Ids /\ kind[id] = "none" /\ id # 0
  <2>1. calls \in Nat /\ \A i \in Ids : i > calls => kind[i] = "none"
    BY DEF Inv, PromiseOK
  <2> QED  BY SMTT(20), Z3T(20), <1>2, <2>1, MaxCommandsAssumption DEF Ids
<1>4. DOMAIN call = Threads /\ call[t] = NoCall
  BY <1>2 DEF Inv, CallsOK, CallOK
<1>5. View(c(op, es, p, ev)) = [cmd |-> {id}, owed |-> IF op = "read" THEN {id} ELSE {}]
  BY <1>3 DEF View
<1>6. Views[t] = Contract!Idle
  BY SMTT(20), Z3T(20), <1>4 DEF Views, View, NoCall, Contract!Idle
<1>7. Views' = [Views EXCEPT ![t] = View(c(op, es, p, ev))]
  BY <1>1, <1>4, ViewStep
<1>   ms(es) \in SUBSET issued
  BY UsableFacts
<1>9. KindOf(op) \in Contract!Kinds
  BY DEF KindOf, Plain, Markers, Contract!Kinds
<1> HIDE DEF id, ms, c
<1>10. Contract!Enqueue(t, id, KindOf(op), ms(es), op = "read")
  BY <1>1, <1>2, <1>3, <1>5, <1>6, <1>7 DEF Contract!Enqueue, Views, View
<1>11. (op = "read") \in BOOLEAN
  OBVIOUS
<1> QED  BY <1>3, <1>9, <1>10, <1>11 DEF Contract!Next

LEMMA WaitStep ==
  ASSUME Inv, NEW t \in Threads, CallWait(t) \/ CallFinish(t)
  PROVE  [Contract!Next]_Contract!vars
<1>1. /\ pc[t] = "idle"
      /\ UNCHANGED <<kind, needs, issued, done>>
  BY DEF CallWait, CallFinish, lanes, promise
<1>2. DOMAIN call = Threads /\ call[t] = NoCall
  BY <1>1 DEF Inv, CallsOK, CallOK
<1>3. Views[t] = Contract!Idle
  BY SMTT(20), Z3T(20), <1>2 DEF Views, View, NoCall, Contract!Idle
<1>4. PICK ms \in SUBSET issued :
        \E c : call' = [call EXCEPT ![t] = c] /\ View(c) = [cmd |-> {}, owed |-> ms]
  <2>1. CASE CallWait(t)
    <3>1. PICK es \in SUBSET Usable :
            call' = [call EXCEPT ![t] = [NoCall EXCEPT !.op = "wait", !.list = es,
                                         !.owed = {meaning[e] : e \in es}]]
      BY <2>1 DEF CallWait
    <3>2. {meaning[e] : e \in es} \in SUBSET issued
      BY UsableFacts
    <3>3. View([NoCall EXCEPT !.op = "wait", !.list = es,
                              !.owed = {meaning[e] : e \in es}])
            = [cmd |-> {}, owed |-> {meaning[e] : e \in es}]
      BY DEF View, NoCall
    <3> QED  BY <3>1, <3>2, <3>3
  <2>2. CASE CallFinish(t)
    <3>1. call' = [call EXCEPT ![t] = [NoCall EXCEPT !.op = "finish", !.owed = issued]]
      BY <2>2 DEF CallFinish
    <3>2. View([NoCall EXCEPT !.op = "finish", !.owed = issued])
            = [cmd |-> {}, owed |-> issued]
      BY DEF View, NoCall
    <3> QED  BY <3>1, <3>2
  <2> QED  BY <2>1, <2>2
<1>5. Views' = [Views EXCEPT ![t] = [cmd |-> {}, owed |-> ms]]
  BY ZenonT(30), <1>2, <1>4, ViewStep
<1>6. Contract!HostWait(t, ms)
  BY <1>1, <1>3, <1>5 DEF Contract!HostWait, Views, View
<1> QED  BY <1>6 DEF Contract!Next

LEMMA FailStep ==
  ASSUME Inv, NEW t \in Threads, AllocFails(t)
  PROVE  [Contract!Next]_Contract!vars
<1>   /\ call' = [call EXCEPT ![t] = NoCall] /\ pc[t] \in Waiting
      /\ UNCHANGED <<kind, needs, issued, done>>
  BY DEF AllocFails, lanes, promise, Waiting
<1>2. DOMAIN call = Threads /\ call[t].id # 0
  BY SMTT(20), Z3T(20), CallIds DEF Inv, CallsOK, Ids
<1>3. Views' = [Views EXCEPT ![t] = View(NoCall)]
  BY <1>2, ViewStep
<1>4. View(NoCall) = Contract!Idle
  BY DEF View, NoCall, Contract!Idle
<1>5. Views[t].cmd # {}
  BY <1>2 DEF Views, View
<1>6. Contract!Fail(t)
  BY <1>3, <1>4, <1>5 DEF Contract!Fail, Views, View
<1> QED  BY <1>6 DEF Contract!Next

LEMMA ExecuteStep ==
  ASSUME Inv, Execute
  PROVE  [Contract!Next]_Contract!vars
<1>1. PICK i \in Ids : Complete(i)
  BY DEF Execute
<1>   UNCHANGED <<kind, needs, issued, call>>
  BY DEF Execute, promise
<1>3. needs[i] \subseteq done
  BY <1>1, CompleteOrder DEF Inv
<1>4. i \in launched \ done /\ done' = done \cup {i} /\ kind[i] # "none"
  BY <1>1 DEF Complete, Inv, PromiseOK
<1>5. Contract!Run(i)
  BY <1>3, <1>4 DEF Contract!Run
<1> QED  BY <1>5 DEF Contract!Next

\* What the waits of the host wait for is what they owe.
LEMMA WaitedStep ==
  ASSUME Inv, NEW t \in Threads, SyncCopy(t) \/ EndFinish(t) \/ EventWait(t)
  PROVE  [Contract!Next]_Contract!vars
<1>1. Return(t) /\ done' = done
  BY DEF SyncCopy, EndFinish, EventWait, lanes
<1>2. CallOK(t)
  BY DEF Inv, CallsOK
<1>3. CASE SyncCopy(t)
  BY <1>1, <1>2, <1>3, ReturnStep DEF SyncCopy, Drained, CallOK
<1>4. CASE EndFinish(t)
  <2>1. \A l \in Lists : front[l] \subseteq done
    BY <1>4 DEF EndFinish, Synced, Drained
  <2>2. launched \subseteq done
    BY <2>1, DoneClosed DEF Inv, OrderOK
  <2>3. call[t].owed \subseteq issued /\ issued \subseteq launched
    BY <1>2, <1>4 DEF EndFinish, Synced, CallOK, Inv, PromiseOK
  <2> QED  BY <1>1, <2>2, <2>3, ReturnStep
<1>5. CASE EventWait(t)
  BY <1>1, <1>2, <1>5, ReturnStep DEF EventWait, CallOK
<1> QED  BY <1>3, <1>4, <1>5

\* A launch that returns owes nothing.
LEMMA LaunchStep ==
  ASSUME Inv, NEW t \in Threads,
         AppendCommand(t) \/ AppendReuse(t) \/ AppendAlloc(t) \/ AppendFree(t)
           \/ Barrier(t)
  PROVE  [Contract!Next]_Contract!vars
<1>   CallOK(t) /\ pc[t] \in Waiting /\ done' = done
  BY DEF Inv, CallsOK, AppendCommand, AppendReuse, AppendAlloc, AppendFree, Barrier,
         AppendTo, Waiting
<1>2. CASE call[t].op = "read" /\ AppendCommand(t)
  BY <1>2, StutterStep DEF AppendCommand, promise
<1>3. CASE call[t].op # "read"
  <2>1. call[t].owed = {}
    BY <1>3 DEF CallOK
  <2>2. Return(t)
    BY <1>3 DEF AppendCommand, AppendReuse, AppendAlloc, AppendFree, Barrier
  <2> QED  BY <2>1, <2>2, ReturnStep
<1>4. call[t].op # "read" \/ AppendCommand(t)
  BY DEF AppendReuse, AppendAlloc, AppendFree, Barrier, CallOK
<1> QED  BY <1>2, <1>3, <1>4

\* The queue refines the contract of the API (AbstractQueue), for any number of command
\* lists, threads, allocations and calls: a command runs after its wait list and the
\* barriers before it, a barrier after everything before it, and urQueueFinish,
\* urEventWait and blocking reads return when what they wait for is done.  Left out is
\* urEnqueueEventsWait without a wait list on more than one list.
THEOREM QueueRefines ==
  ASSUME "waitall" \notin Ops \/ NumLists = 1
  PROVE  Spec => ImplementsQueue
<1>1. Init => Inv
  BY InitInv
<1>2. Inv /\ [Next]_vars => Inv'
  BY NextInv
<1>3. Init => Contract!Init
  BY SMTT(20), Z3T(20) DEF Init, LanesInit, Contract!Init, Contract!Idle, NoCall
<1>4. Inv /\ [Next]_vars => [Contract!Next]_Contract!vars
  <2> SUFFICES ASSUME Inv, [Next]_vars
               PROVE  [Contract!Next]_Contract!vars
    OBVIOUS
  <2>1. CASE Execute
    BY <2>1, ExecuteStep
  <2>2. ASSUME NEW t \in Threads,
               CallEnqueue(t) \/ CallWait(t) \/ CallFinish(t) \/ CallRelease(t) \/ Step(t)
        PROVE  [Contract!Next]_Contract!vars
    <3>1. CASE CallEnqueue(t)
      BY <3>1, EnqueueStep
    <3>2. CASE CallWait(t) \/ CallFinish(t)
      BY <3>2, WaitStep
    <3>3. CASE CallRelease(t) \/ Cleanup(t)
      BY <3>3, StutterStep DEF CallRelease, Cleanup, lanes, promise
    <3>4. CASE AppendCommand(t) \/ AppendReuse(t) \/ AppendAlloc(t) \/ AppendFree(t)
                 \/ Barrier(t)
      BY <3>4, LaunchStep
    <3>5. CASE SyncCopy(t) \/ EndFinish(t) \/ EventWait(t)
      BY <3>5, WaitedStep
    <3>6. CASE AllocFails(t)
      BY <3>6, FailStep
    <3> QED  BY <2>2, <3>1, <3>2, <3>3, <3>4, <3>5, <3>6 DEF Step
  <2>3. CASE UNCHANGED vars
    BY <2>3, StutterStep DEF vars, lanes
  <2> QED  BY <2>1, <2>2, <2>3 DEF Next
<1> QED  BY <1>1, <1>2, <1>3, <1>4, PTL DEF Spec, ImplementsQueue, Contract!Spec

-----------------------------------------------------------------------------
\* That memory freed by a command and given out again before the command has run is
\* never used by two owners at once.  What will be done by the time a command is done
\* is again expressed by the closed sets of commands.

\* Calls in progress: an urEnqueueUSMFreeExp, and any other enqueue call but a kernel's
Freeing(t) == pc[t] = "append" /\ call[t].op = "free"
NoKernel(t) == pc[t] \in Waiting /\ call[t].op # "kernel"
Launching(t) == pc[t] \in Waiting /\ call[t].op = "kernel"

\* An allocation is with the application, with a call that frees it, with the pool of
\* freed memory or with UMF, and with one of them only.
OwnersOK ==
  /\ owned \subseteq Ptrs /\ usm \subseteq Ptrs /\ owned \cap usm = {}
  /\ \A a \in async : a.ptr \in Ptrs \ (owned \cup usm)
  /\ \A a, b \in async : a.ptr = b.ptr => a = b
  /\ \A t \in Threads : Freeing(t) =>
       /\ call[t].ptr \in Ptrs \ (owned \cup usm)
       /\ \A a \in async : a.ptr # call[t].ptr
  /\ \A t, u \in Threads : Freeing(t) /\ Freeing(u) /\ call[t].ptr = call[u].ptr => t = u

\* The uses of an allocation belong to the times it was handed out, each of which
\* began with the command that allocated it.
UsesOK ==
  /\ handed \in [Ptrs -> Nat] /\ alloc \in [Ptrs -> Ids \cup {0}]
  /\ uses \in [Ids -> [ptr : Ptrs \cup {None}, gen : Nat]]
  /\ \A i \in Ids : uses[i].ptr # None =>
       /\ uses[i].gen <= handed[uses[i].ptr] /\ i <= calls
  /\ \A p \in Ptrs : handed[p] > 0 => alloc[p] \in Users(p)
  /\ \A t \in Threads : NoKernel(t) => uses[call[t].id].ptr = None

\* What the application has ordered: a use after the allocation, a free after the uses
ProperOK ==
  /\ \A t \in Threads : Launching(t) =>
       \/ uses[call[t].id].gen = 0
       \/ \E a \in Implied(needs[call[t].id]) \cup done : uses[a] = uses[call[t].id]
  /\ \A t \in Threads : Freeing(t) =>
       Users(call[t].ptr) \subseteq Implied(needs[call[t].id]) \cup done

\* When a use is done, those of earlier owners are; when a free is done, all are.
UsesIn(D) ==
  \A i, j \in Ids : uses[i].ptr # None /\ uses[i].ptr = uses[j].ptr
                      /\ uses[i].gen < uses[j].gen /\ j \in D => i \in D
FreedIn(D, a) == a.id \in D => \A i \in Ids : uses[i].ptr = a.ptr => i \in D

ExclusiveOK ==
  \A D \in SUBSET launched : Closed(D) => UsesIn(D) /\ \A a \in async : FreedIn(D, a)

IdleOK == \A p \in usm : \A i \in Ids : uses[i].ptr = p => i \in done

MemInv == OwnersOK /\ UsesOK /\ ProperOK /\ ExclusiveOK /\ IdleOK

-----------------------------------------------------------------------------
\* Every call that is still to launch its command is as it was.
CallsKept ==
  \A u \in Threads : pc'[u] \in Waiting => pc'[u] = pc[u] /\ call'[u] = call[u]

\* No step but that of a call changes what is owned while it is under way.
LEMMA OwnersKept ==
  ASSUME OwnersOK, CallsKept, owned' = owned, usm' = usm, async' = async
  PROVE  OwnersOK'
<1>1. \A u \in Threads : Freeing(u)' => Freeing(u) /\ call'[u] = call[u]
  BY DEF CallsKept, Freeing, Waiting
<1> QED  BY <1>1 DEF OwnersOK

LEMMA UsesKept ==
  ASSUME Inv, UsesOK, ProperOK, CallsKept, UNCHANGED <<uses, handed, alloc, kind, needs, calls>>,
         done \subseteq done'
  PROVE  UsesOK' /\ ProperOK'
<1>1. \A u \in Threads : /\ Freeing(u)' => Freeing(u) /\ call'[u] = call[u]
                         /\ NoKernel(u)' => NoKernel(u) /\ call'[u] = call[u]
                         /\ Launching(u)' => Launching(u) /\ call'[u] = call[u]
  BY DEF CallsKept, Freeing, NoKernel, Launching, Waiting
<1>2. /\ \A q : Users(q)' = Users(q)
      /\ \A s : Implied(s)' = Implied(s)
  BY DEF Users, Implied
<1>3. UsesOK'
  BY <1>1, <1>2 DEF UsesOK
<1>4. ASSUME NEW u \in Threads, Launching(u)'
      PROVE  (\/ uses[call[u].id].gen = 0
              \/ \E a \in Implied(needs[call[u].id]) \cup done : uses[a] = uses[call[u].id])'
  <2>   Launching(u) /\ call'[u] = call[u]
    BY <1>1, <1>4
  <2>2. Implied(needs[call[u].id])' = Implied(needs[call[u].id])
    BY SMTT(20), Z3T(20) DEF Implied
  <2> QED  BY <2>2 DEF ProperOK
<1>5. ASSUME NEW u \in Threads, Freeing(u)'
      PROVE  (Users(call[u].ptr) \subseteq Implied(needs[call[u].id]) \cup done)'
  <2>   Freeing(u) /\ call'[u] = call[u]
    BY <1>1, <1>5
  <2>2. Implied(needs[call[u].id])' = Implied(needs[call[u].id])
        /\ Users(call[u].ptr)' = Users(call[u].ptr)
    BY SMTT(20), Z3T(20) DEF Implied, Users
  <2> QED  BY <2>2 DEF ProperOK
<1>6. ProperOK'
  BY <1>4, <1>5 DEF ProperOK
<1> QED  BY <1>3, <1>6

\* A step that launches nothing and hands nothing out
LEMMA QuietMem ==
  ASSUME Inv, MemInv, CallsKept, done \subseteq done',
         UNCHANGED <<uses, handed, alloc, kind, needs, calls, owned, usm, async, deps,
                     launched>>
  PROVE  MemInv'
<1>1. OwnersOK' /\ UsesOK' /\ ProperOK'
  BY OwnersKept, UsesKept DEF MemInv
<1>2. \A D : Closed(D)' => Closed(D)
  BY DEF Closed
<1>3. ExclusiveOK'
  BY <1>2 DEF ExclusiveOK, UsesIn, FreedIn, MemInv
<1>4. IdleOK'
  BY DEF IdleOK, MemInv
<1> QED  BY <1>1, <1>3, <1>4 DEF MemInv

\* What the application knows to be over when a command is, was issued before.
LEMMA ImpliedIssued ==
  ASSUME Inv, NEW i \in Ids
  PROVE  Implied(needs[i]) \subseteq issued
<1>1. /\ needs \in [Ids -> SUBSET issued]
      /\ issued \subseteq Ids
  BY DEF Inv, PromiseOK, LanesOK
<1> QED  BY <1>1 DEF Implied

\* A command that is launched leaves the uses in order.
LEMMA LaunchUses ==
  ASSUME Inv, OrderOK', MemInv, NEW t \in Threads, pc[t] \in Waiting,
         launched' = launched \cup {call[t].id}, done' = done,
         \A i \in Ids \ {call[t].id} : deps'[i] = deps[i],
         UNCHANGED <<uses, kind, needs>>,
         NEW D \in SUBSET launched', Closed(D)'
  PROVE  UsesIn(D) /\ \A a \in async : FreedIn(D, a)
<1> DEFINE id == call[t].id
           E == D \ {id}
<1>1. id \in Ids \ launched
  BY CallIds DEF Inv, CallsOK, CallOK
<1>2. E \in SUBSET launched /\ Closed(E)
  BY <1>1, ClosedBefore DEF Inv
<1>3. UsesIn(E) /\ \A a \in async : FreedIn(E, a)
  BY <1>2 DEF MemInv, ExclusiveOK
<1>4. \A a \in async : FreedIn(D, a)
  <2>1. \A a \in async : a.id \in launched
    BY DEF Inv, HandlesOK, Holding
  <2> QED  BY <1>1, <1>3, <2>1 DEF FreedIn
<1>5. ASSUME NEW i \in Ids, NEW j \in Ids, uses[i].ptr # None, uses[i].ptr = uses[j].ptr,
             uses[i].gen < uses[j].gen, j \in D
      PROVE  i \in D
  <2>1. CASE j # id
    BY <1>3, <1>5, <2>1 DEF UsesIn
  <2>2. CASE j = id
    <3>1. Launching(t)
      BY <1>5, <2>2 DEF MemInv, UsesOK, NoKernel, Launching
    <3>2. uses[id].gen # 0
      <4>1. uses[i].gen \in Nat /\ uses[j].gen \in Nat
        BY DEF MemInv, UsesOK
      <4> QED  BY SMTT(20), Z3T(20), <1>5, <2>2, <4>1
    <3>3. PICK a \in Implied(needs[id]) \cup done : uses[a] = uses[id]
      BY <3>1, <3>2 DEF MemInv, ProperOK
    <3>4. a \in launched /\ a \in Ids
      BY <1>1, ImpliedIssued DEF Inv, PromiseOK, LanesOK
    <3>5. a \in D
      <4>1. Implied(needs[id]) \subseteq D
        BY SMTT(20), Z3T(20), <1>5, <2>2 DEF OrderOK, Implied
      <4>2. done \subseteq D
        BY DEF Closed
      <4> QED  BY <4>1, <4>2
    <3> QED  BY ZenonT(40), <1>1, <1>3, <1>5, <2>2, <3>3, <3>4, <3>5 DEF UsesIn
  <2> QED  BY <2>1, <2>2
<1> QED  BY <1>4, <1>5 DEF UsesIn

\* A launch that hands nothing out
LEMMA LaunchMem ==
  ASSUME Inv, OrderOK', MemInv, NEW t \in Threads, pc[t] \in Waiting, CallsKept,
         launched' = launched \cup {call[t].id}, done' = done,
         \A i \in Ids \ {call[t].id} : deps'[i] = deps[i],
         UNCHANGED <<uses, handed, alloc, kind, needs, calls, owned, usm, async>>
  PROVE  MemInv'
<1>1. OwnersOK' /\ UsesOK' /\ ProperOK'
  BY OwnersKept, UsesKept DEF MemInv
<1>2. ASSUME NEW D \in SUBSET launched', Closed(D)'
      PROVE  UsesIn(D)' /\ \A a \in async' : FreedIn(D, a)'
  <2>1. UsesIn(D) /\ \A a \in async : FreedIn(D, a)
    BY <1>2, LaunchUses
  <2> QED  BY <2>1 DEF UsesIn, FreedIn
<1>3. ExclusiveOK'
  BY <1>2 DEF ExclusiveOK
<1>4. IdleOK'
  BY ZenonT(40) DEF IdleOK, MemInv
<1> QED  BY <1>1, <1>3, <1>4 DEF MemInv

\* Small facts: a command of a call, the names of commands, a count of hand-outs, a use
LEMMA WaitingCall ==
  ASSUME Inv, NEW t \in Threads, pc[t] \in Waiting
  PROVE  /\ call[t].id \in Ids /\ call[t].id \notin launched
         /\ call[t].id <= calls /\ call[t].id # 0
<1>1. call[t].id \in 0 .. calls /\ call[t].id \in Ids
  BY Zenon, CallIds
<1>2. CallOK(t) /\ calls \in Nat
  BY Zenon DEF Inv, CallsOK, PromiseOK
<1>3. call[t].id \notin launched
  BY Zenon, <1>2 DEF CallOK
<1>4. call[t].id <= calls /\ call[t].id # 0
  BY SMTT(30), Z3T(30), <1>1, <1>2 DEF Ids
<1> QED
  BY Zenon, <1>1, <1>3, <1>4

LEMMA NotZero == \A i \in Ids : i # 0
BY SMTT(20), Z3T(20) DEF Ids

Use(p, n) == [ptr |-> p, gen |-> n]

LEMMA UseFields == \A p, n : Use(p, n).ptr = p /\ Use(p, n).gen = n
BY SMTT(20), Z3T(20) DEF Use

LEMMA UserFields ==
  ASSUME NEW p, NEW i \in Users(p)
  PROVE  i \in Ids /\ uses[i].ptr = p /\ uses[i].gen = handed[p]
BY SMTT(20), Z3T(20) DEF Users

LEMMA ImpliedKept ==
  ASSUME NEW u, NEW s, needs'[call'[u].id] = s,
         \A b \in s : kind'[b] = kind[b] /\ needs'[b] = needs[b]
  PROVE  Implied(needs[call[u].id])' = Implied(s)
BY SMTT(20), Z3T(20) DEF Implied

LEMMA NotAbove ==
  ASSUME NEW m \in Nat, NEW n \in Nat, m <= n
  PROVE  ~(m > n + 1)
BY SMTT(20), Z3T(20)

\* What handing out p to command id changes.
HandedOut(id, p) ==
  /\ uses'[id].ptr = p /\ uses'[id].gen = handed[p] + 1
  /\ \A i \in Ids : i # id => uses'[i] = uses[i]
  /\ handed'[p] = handed[p] + 1 /\ \A q \in Ptrs : q # p => handed'[q] = handed[q]
  /\ alloc'[p] = id /\ \A q \in Ptrs : q # p => alloc'[q] = alloc[q]
  /\ handed[p] \in Nat /\ handed[p] + 1 \in Nat
  /\ \A q \in Ptrs : \A n \in Nat : n <= handed[q] => n <= handed'[q]
  /\ handed' \in [Ptrs -> Nat] /\ alloc' \in [Ptrs -> Ids \cup {0}]
  /\ uses' \in [Ids -> [ptr : Ptrs \cup {None}, gen : Nat]]

LEMMA HandOutFields ==
  ASSUME NEW t, NEW p \in Ptrs, HandOut(t, p), call[t].id \in Ids,
         handed \in [Ptrs -> Nat], alloc \in [Ptrs -> Ids \cup {0}],
         uses \in [Ids -> [ptr : Ptrs \cup {None}, gen : Nat]]
  PROVE  HandedOut(call[t].id, p)
<1> DEFINE id == call[t].id
<1>1. handed' = [handed EXCEPT ![p] = handed[p] + 1]
  BY DEF HandOut
<1>2. uses' = [uses EXCEPT ![id] = [ptr |-> p, gen |-> handed[p] + 1]]
  BY DEF HandOut
<1>3. alloc' = [alloc EXCEPT ![p] = id]
  BY DEF HandOut
<1>4. handed[p] \in Nat /\ handed[p] + 1 \in Nat
  BY SMTT(20), Z3T(20)
<1>5. /\ handed' \in [Ptrs -> Nat] /\ handed'[p] = handed[p] + 1
      /\ \A q \in Ptrs : q # p => handed'[q] = handed[q]
  BY <1>1, <1>4
<1>6. \A q \in Ptrs : \A n \in Nat : n <= handed[q] => n <= handed'[q]
  BY SMTT(20), Z3T(20), <1>5
<1>7. /\ uses' \in [Ids -> [ptr : Ptrs \cup {None}, gen : Nat]]
      /\ uses'[id].ptr = p /\ uses'[id].gen = handed[p] + 1
      /\ \A i \in Ids : i # id => uses'[i] = uses[i]
  BY SMTT(20), Z3T(20), <1>2, <1>4
<1>8. /\ alloc' \in [Ptrs -> Ids \cup {0}] /\ alloc'[p] = id
      /\ \A q \in Ptrs : q # p => alloc'[q] = alloc[q]
  BY <1>3
<1> QED  BY <1>4, <1>5, <1>6, <1>7, <1>8 DEF HandedOut

\* What used p is done when the command of t's call is.
Settled(t, p) ==
  \A D \in SUBSET launched' : Closed(D)' /\ call[t].id \in D =>
    \A i \in Ids : uses[i].ptr = p => i \in D

\* The command of an allocation is launched after all uses of p, which it hands out.
LEMMA HandOutMem ==
  ASSUME Inv, MemInv, NEW t \in Threads, pc[t] \in Waiting, call[t].op = "alloc",
         CallsKept, pc'[t] \notin Waiting,
         NEW p \in Ptrs, HandOut(t, p), p \notin owned,
         \A u \in Threads : Freeing(u) => call[u].ptr # p,
         launched' = launched \cup {call[t].id}, done' = done,
         \A i \in Ids \ {call[t].id} : deps'[i] = deps[i],
         UNCHANGED <<kind, needs, calls>>,
         async' \subseteq async, \A a \in async' : a.ptr # p, usm' \subseteq usm \ {p},
         Settled(t, p)
  PROVE  MemInv'
<1> DEFINE id == call[t].id
<1>1. /\ id \in Ids /\ id \notin launched /\ id <= calls
  BY WaitingCall
<1>2. /\ handed \in [Ptrs -> Nat] /\ alloc \in [Ptrs -> Ids \cup {0}]
      /\ uses \in [Ids -> [ptr : Ptrs \cup {None}, gen : Nat]]
      /\ \A i \in Ids : uses[i].ptr # None =>
           uses[i].gen <= handed[uses[i].ptr] /\ i <= calls
      /\ \A q \in Ptrs : handed[q] > 0 => alloc[q] \in Users(q)
      /\ uses[id].ptr = None
      /\ \A u \in Threads : NoKernel(u) => uses[call[u].id].ptr = None
  BY DEF MemInv, UsesOK, NoKernel
<1>3. owned' = owned \cup {p}
  BY DEF HandOut
<1>4. \A u \in Threads : /\ Freeing(u)' => Freeing(u) /\ call'[u] = call[u] /\ u # t
                         /\ NoKernel(u)' => NoKernel(u) /\ call'[u] = call[u] /\ u # t
                         /\ Launching(u)' => Launching(u) /\ call'[u] = call[u] /\ u # t
  BY DEF CallsKept, Freeing, NoKernel, Launching, Waiting
<1>5. \A u \in Threads : u # t => call[u].id # id
  <2>1. id # 0
    BY <1>1, NotZero
  <2> QED  BY <2>1 DEF Inv, CallsOK
<1>60. uses'[id] = [ptr |-> p, gen |-> handed[p] + 1]
  BY <1>1, <1>2 DEF HandOut
<1>61. HandedOut(id, p)
  BY <1>1, <1>2, HandOutFields
<1>6. /\ uses'[id].ptr = p /\ uses'[id].gen = handed[p] + 1
      /\ \A i \in Ids : i # id => uses'[i] = uses[i]
      /\ handed'[p] = handed[p] + 1 /\ \A q \in Ptrs : q # p => handed'[q] = handed[q]
      /\ alloc'[p] = id /\ \A q \in Ptrs : q # p => alloc'[q] = alloc[q]
      /\ handed[p] \in Nat /\ handed[p] + 1 \in Nat
  BY <1>61 DEF HandedOut
<1> HIDE DEF id
<1>7. None \notin Ptrs
  BY NoneAssumption
<1>8. OwnersOK'
  BY ZenonT(40), <1>3, <1>4 DEF OwnersOK, MemInv
<1>9. UsesOK'
  <2>2. ASSUME NEW i \in Ids, uses'[i].ptr # None
        PROVE  uses'[i].gen <= handed'[uses'[i].ptr] /\ i <= calls'
    <3>1. CASE i = id
      BY SMTT(20), Z3T(20), <1>1, <1>6, <3>1
    <3>2. CASE i # id
      <4>   /\ uses'[i] = uses[i] /\ uses[i].ptr \in Ptrs /\ uses[i].gen \in Nat
            /\ uses[i].gen <= handed[uses[i].ptr] /\ i <= calls
        <5>1. uses'[i] = uses[i] /\ uses[i].ptr # None
          BY <1>6, <2>2, <3>2
        <5>2. uses[i] \in [ptr : Ptrs \cup {None}, gen : Nat]
          BY <1>2
        <5> QED  BY <1>2, <5>1, <5>2
      <4>2. uses[i].gen <= handed'[uses[i].ptr]
        BY <1>61 DEF HandedOut
      <4> QED  BY <4>2
    <3> QED  BY <3>1, <3>2
  <2>3. ASSUME NEW q \in Ptrs, handed'[q] > 0
        PROVE  alloc'[q] \in Users(q)'
    <3>1. CASE q = p
      BY <1>1, <1>6, <1>60, <3>1 DEF Users
    <3>2. CASE q # p
      <4>   alloc[q] \in Users(q) /\ handed'[q] = handed[q] /\ alloc'[q] = alloc[q]
        BY <1>2, <1>6, <2>3, <3>2
      <4>   alloc[q] \in Ids /\ uses[alloc[q]] = [ptr |-> q, gen |-> handed[q]]
        BY DEF Users
      <4>3. alloc[q] # id
        <5>1. uses[alloc[q]].ptr = q
          BY UserFields
        <5> QED  BY <1>2, <1>7, <5>1
      <4>4. uses'[alloc[q]] = uses[alloc[q]]
        BY <1>6, <4>3
      <4> QED  BY <4>4 DEF Users
    <3> QED  BY <3>1, <3>2
  <2>4. ASSUME NEW u \in Threads, NoKernel(u)'
        PROVE  uses'[call'[u].id].ptr = None
    <3>   NoKernel(u) /\ call'[u] = call[u] /\ call[u].id # id
      BY <1>4, <1>5, <2>4
    <3>2. call[u].id \in Ids
      BY CallIds DEF NoKernel
    <3>3. uses'[call[u].id] = uses[call[u].id] /\ uses[call[u].id].ptr = None
      BY <1>2, <1>6, <3>2
    <3> QED  BY <3>3
  <2> QED  BY <1>61, <2>2, <2>3, <2>4 DEF UsesOK, HandedOut
<1>10. ProperOK'
  <2>1. ASSUME NEW u \in Threads, Launching(u)'
        PROVE  (\/ uses[call[u].id].gen = 0
                \/ \E a \in Implied(needs[call[u].id]) \cup done :
                     uses[a] = uses[call[u].id])'
    <3>1. Launching(u) /\ call'[u] = call[u] /\ call[u].id # id
      BY <1>4, <1>5, <2>1
    <3>2. call[u].id \in Ids
      BY <3>1, CallIds DEF Launching
    <3>3. uses'[call'[u].id] = uses[call[u].id]
      BY <1>6, <3>1, <3>2
    <3>4. Implied(needs[call[u].id])' = Implied(needs[call[u].id])
      BY <3>1, ImpliedKept
    <3>5. CASE uses[call[u].id].gen = 0
      BY <3>3, <3>5
    <3>6. CASE uses[call[u].id].gen # 0
      <4>   PICK a \in Implied(needs[call[u].id]) \cup done : uses[a] = uses[call[u].id]
        BY <3>1, <3>6 DEF MemInv, ProperOK
      <4>2. a \in Ids /\ a # id
        BY ZenonT(40), <1>1, <3>2, ImpliedIssued DEF Inv, PromiseOK, LanesOK
      <4>3. uses'[a] = uses'[call'[u].id]
        BY <1>6, <3>3, <4>2
      <4> QED  BY <3>4, <4>3
    <3> QED  BY <3>5, <3>6
  <2>2. ASSUME NEW u \in Threads, Freeing(u)'
        PROVE  (Users(call[u].ptr) \subseteq Implied(needs[call[u].id]) \cup done)'
    <3>   Freeing(u) /\ call'[u] = call[u] /\ call[u].ptr # p /\ call[u].ptr \in Ptrs
      BY <1>4, <2>2 DEF MemInv, OwnersOK
    <3>2. Implied(needs[call[u].id])' = Implied(needs[call[u].id])
      BY ImpliedKept
    <3>3. Users(call[u].ptr)' \subseteq Users(call[u].ptr)
      <4> SUFFICES ASSUME NEW i \in Ids,
                          uses'[i] = [ptr |-> call'[u].ptr, gen |-> handed'[call'[u].ptr]]
                   PROVE  uses[i] = [ptr |-> call[u].ptr, gen |-> handed[call[u].ptr]]
        BY DEF Users
      <4>1. i # id
        BY SMTT(20), Z3T(20), <1>6
      <4> QED  BY SMTT(20), Z3T(20), <1>6, <4>1
    <3> QED  BY <3>2, <3>3 DEF MemInv, ProperOK
  <2> QED  BY <2>1, <2>2 DEF ProperOK
<1>11. ExclusiveOK'
  <2> SUFFICES ASSUME NEW D \in SUBSET launched', Closed(D)'
               PROVE  UsesIn(D)' /\ \A a \in async' : FreedIn(D, a)'
    BY DEF ExclusiveOK
  <2>1. D \ {id} \in SUBSET launched /\ Closed(D \ {id})
    BY <1>1, ClosedBefore DEF Inv, id
  <2>2. UsesIn(D \ {id}) /\ \A a \in async : FreedIn(D \ {id}, a)
    BY <2>1 DEF MemInv, ExclusiveOK
  <2>3. ASSUME NEW i \in Ids, NEW j \in Ids, uses'[i].ptr # None,
               uses'[i].ptr = uses'[j].ptr, uses'[i].gen < uses'[j].gen, j \in D
        PROVE  i \in D
    <3>1. CASE j = id
      <4>1. i # id
        <5>1. uses'[id].gen \in Nat
          BY <1>6
        <5> QED  BY SMTT(30), Z3T(30), <2>3, <3>1, <5>1
      <4>2. uses[i].ptr = p
        BY Zenon, <1>6, <2>3, <3>1, <4>1
      <4> QED  BY <2>3, <3>1, <4>2 DEF id, Settled
    <3>2. CASE j # id /\ i # id
      <4>1. uses'[i] = uses[i] /\ uses'[j] = uses[j]
        BY <1>6, <3>2
      <4>2. j \in D \ {id} /\ uses[i].ptr # None /\ uses[i].ptr = uses[j].ptr
        BY <2>3, <3>2, <4>1
      <4>3. uses[i].gen < uses[j].gen
        BY <2>3, <4>1
      <4> QED  BY <2>2, <4>2, <4>3 DEF UsesIn
    <3>3. CASE j # id /\ i = id
      <4>   uses[j].ptr = p /\ uses[j].gen > handed[p] + 1
        BY SMTT(20), Z3T(20), <1>6, <2>3, <3>3
      <4>2. uses[j].gen \in Nat /\ uses[j].gen <= handed[p]
        BY <1>2, <1>7
      <4> QED  BY ZenonT(40), <1>6, <4>2, NotAbove
    <3> QED  BY <3>1, <3>2, <3>3
  <2>4. ASSUME NEW a \in async', a.id \in D, NEW i \in Ids, uses'[i].ptr = a.ptr
        PROVE  i \in D
    <3>   a \in async /\ a.ptr # p
      BY <2>4
    <3>2. a.id \in launched
      BY DEF Inv, HandlesOK, Holding
    <3>3. i # id
      BY SMTT(20), Z3T(20), <1>6, <2>4
    <3> QED  BY SMTT(30), Z3T(30), <1>1, <1>6, <2>2, <2>4, <3>2, <3>3 DEF FreedIn
  <2> QED  BY <2>3, <2>4 DEF UsesIn, FreedIn
<1>12. IdleOK'
  <2> SUFFICES ASSUME NEW q \in usm', NEW i \in Ids, uses'[i].ptr = q
               PROVE  i \in done'
    BY DEF IdleOK
  <2>   q \in usm /\ q # p
    OBVIOUS
  <2>2. i # id
    BY SMTT(20), Z3T(20), <1>6
  <2> QED  BY <1>6, <2>2 DEF MemInv, IdleOK
<1> QED  BY ZenonT(30), <1>8, <1>9, <1>10, <1>11, <1>12 DEF MemInv

-----------------------------------------------------------------------------
\* The actions

\* Once it has launched its command a call is waiting no longer.
LEMMA ReturnKept ==
  ASSUME Inv, NEW t \in Threads, Return(t)
  PROVE  CallsKept /\ pc'[t] = "idle" /\ kind' = kind /\ needs' = needs
<1>1. pc \in [Threads -> Labels] /\ DOMAIN call = Threads
  BY DEF Inv, CallsOK
<1> QED  BY <1>1 DEF Return, Goto, CallsKept, Waiting

LEMMA LaunchActionsMem ==
  ASSUME Inv, Inv', MemInv, NEW t \in Threads, AppendCommand(t) \/ Barrier(t)
  PROVE  MemInv'
<1>1. /\ pc[t] \in Waiting
      /\ launched' = launched \cup {call[t].id} /\ done' = done
      /\ UNCHANGED <<uses, handed, alloc, calls, owned, usm, async>>
  BY DEF AppendCommand, Barrier, AppendTo, memory, Waiting
<1>2. \A i \in Ids \ {call[t].id} : deps'[i] = deps[i]
  BY DEF AppendCommand, Barrier, AppendTo, Inv, LanesOK
<1>3. CallsKept /\ kind' = kind /\ needs' = needs
  <2>1. CASE Return(t)
    BY <2>1, ReturnKept
  <2>2. CASE ~Return(t)
    <3>1. /\ pc' = [pc EXCEPT ![t] = "syncCopy"] /\ call' = call
          /\ kind' = kind /\ needs' = needs
      BY <2>2 DEF AppendCommand, Barrier, Goto, promise
    <3>2. pc \in [Threads -> Labels]
      BY DEF Inv, CallsOK
    <3> QED  BY <3>1, <3>2 DEF CallsKept, Waiting
  <2> QED  BY <2>1, <2>2
<1>4. OrderOK'
  BY DEF Inv
<1> QED  BY <1>1, <1>2, <1>3, <1>4, LaunchMem

LEMMA FreeMem ==
  ASSUME Inv, Inv', MemInv, NEW t \in Threads, AppendFree(t)
  PROVE  MemInv'
<1> DEFINE id == call[t].id
           p == call[t].ptr
           a == [ptr |-> p, event |-> NextEvent(pool, id), id |-> id]
<1>1. /\ pc[t] \in Waiting /\ Freeing(t) /\ Return(t)
      /\ launched' = launched \cup {id} /\ done' = done
      /\ async' = async \cup {a}
      /\ UNCHANGED <<uses, handed, alloc, calls, owned, usm>>
  BY DEF AppendFree, AppendTo, Waiting, Freeing
<1>2. \A i \in Ids \ {id} : deps'[i] = deps[i]
  BY DEF AppendFree, AppendTo, Inv, LanesOK
<1>3. CallsKept /\ pc'[t] = "idle" /\ kind' = kind /\ needs' = needs
  BY <1>1, ReturnKept
<1>4. UsesOK' /\ ProperOK'
  BY <1>1, <1>3, UsesKept DEF MemInv
<1>5. /\ a.ptr = p /\ a.id = id
  OBVIOUS
<1> HIDE DEF a
<1>6. OwnersOK'
  <2>1. \A u \in Threads : Freeing(u)' => Freeing(u) /\ call'[u] = call[u] /\ u # t
    BY <1>3 DEF CallsKept, Freeing, Waiting
  <2>2. /\ p \in Ptrs \ (owned \cup usm) /\ \A b \in async : b.ptr # p
        /\ \A u \in Threads : Freeing(u) /\ u # t => call[u].ptr # p
    BY <1>1 DEF MemInv, OwnersOK
  <2> HIDE DEF p
  <2> QED  BY Zenon, <1>1, <1>5, <2>1, <2>2 DEF MemInv, OwnersOK
<1>7. ExclusiveOK'
  <2> SUFFICES ASSUME NEW D \in SUBSET launched', Closed(D)'
               PROVE  UsesIn(D)' /\ \A b \in async' : FreedIn(D, b)'
    BY DEF ExclusiveOK
  <2>1. OrderOK' /\ id \in Ids
    BY <1>1, CallIds DEF Inv
  <2>2. UsesIn(D) /\ \A b \in async : FreedIn(D, b)
    BY <1>1, <1>2, <1>3, <2>1, LaunchUses
  <2>3. ASSUME id \in D, NEW i \in Ids, uses[i].ptr = p
        PROVE  i \in D
    <3>1. Users(p) \subseteq Implied(needs[id]) \cup done
      BY <1>1 DEF MemInv, ProperOK
    <3>2. Implied(needs[id]) \subseteq D /\ done \subseteq D
      <4>1. \A j \in D : needs[j] \subseteq D
        BY <1>3, <2>1 DEF OrderOK
      <4>2. done \subseteq D
        BY <1>1 DEF Closed
      <4> QED  BY <2>3, <4>1, <4>2 DEF Implied
    <3>3. p \in Ptrs /\ p # None
      BY <1>1, NoneAssumption DEF MemInv, OwnersOK
    <3>4. /\ handed[p] \in Nat /\ uses[i].gen \in Nat /\ uses[i].gen <= handed[p]
          /\ uses \in [Ids -> [ptr : Ptrs \cup {None}, gen : Nat]]
      BY <2>3, <3>3 DEF MemInv, UsesOK
    <3>5. CASE uses[i].gen = handed[p]
      <4>1. uses[i] = [ptr |-> p, gen |-> handed[p]]
        BY <2>3, <3>4, <3>5
      <4> QED  BY <3>1, <3>2, <4>1 DEF Users
    <3>6. CASE uses[i].gen < handed[p]
      <4>1. alloc[p] \in Users(p)
        BY SMTT(20), Z3T(20), <3>3, <3>4, <3>6 DEF MemInv, UsesOK
      <4>   /\ alloc[p] \in D /\ alloc[p] \in Ids
            /\ uses[alloc[p]] = [ptr |-> p, gen |-> handed[p]]
        BY <3>1, <3>2, <4>1 DEF Users
      <4>3. uses[alloc[p]].ptr = p /\ uses[alloc[p]].gen = handed[p]
        BY SMTT(20), Z3T(20)
      <4> HIDE DEF p
      <4> QED  BY ZenonT(30), <2>2, <2>3, <3>3, <3>6, <4>3 DEF UsesIn
    <3> QED  BY SMTT(20), Z3T(20), <3>4, <3>5, <3>6
  <2>4. FreedIn(D, a)
    BY <1>5, <2>3 DEF FreedIn
  <2> QED  BY <1>1, <2>2, <2>4 DEF UsesIn, FreedIn
<1>8. IdleOK'
  BY <1>1 DEF IdleOK, MemInv
<1> QED  BY <1>4, <1>6, <1>7, <1>8 DEF MemInv

LEMMA ReuseMem ==
  ASSUME Inv, MemInv, NEW t \in Threads, AppendReuse(t)
  PROVE  MemInv'
<1> DEFINE id == call[t].id
<1>1. PICK a \in async : /\ AppendTo(t, SignalsOf(call[t].list \cup {a.event}))
                         /\ async' = async \ {a}
                         /\ HandOut(t, a.ptr)
  BY DEF AppendReuse
<1>2. /\ pc[t] \in Waiting /\ call[t].op = "alloc" /\ Return(t)
      /\ usm' = usm /\ calls' = calls
  BY DEF AppendReuse, Waiting
<1>3. /\ launched' = launched \cup {id} /\ done' = done
      /\ deps' = [deps EXCEPT ![id] = front[list[t]]
                                        \cup SignalsOf(call[t].list \cup {a.event})]
  BY <1>1 DEF AppendTo
<1>4. CallsKept /\ pc'[t] \notin Waiting /\ kind' = kind /\ needs' = needs
  BY <1>2, ReturnKept DEF Waiting
<1>5. id \in Ids \ launched /\ deps \in [Ids -> SUBSET launched] /\ a.id \in launched
      /\ pool.signals[a.event] = a.id
  BY <1>2, CallIds DEF Inv, CallsOK, CallOK, LanesOK, HandlesOK, Holding
<1>6. /\ \A i \in Ids \ {id} : deps'[i] = deps[i]
      /\ a.id \in deps'[id]
  <2>1. a.id \in SignalsOf(call[t].list \cup {a.event})
    BY <1>5 DEF SignalsOf
  <2> QED  BY <1>3, <1>5, <2>1
<1>7. Settled(t, a.ptr)
  <2>   SUFFICES ASSUME NEW D \in SUBSET launched', Closed(D)', id \in D,
                        NEW i \in Ids, uses[i].ptr = a.ptr
                 PROVE  i \in D
    BY DEF Settled
  <2>   D \ {id} \in SUBSET launched /\ Closed(D \ {id}) /\ deps'[id] \subseteq D
    BY <1>3, <1>5, <1>6, ClosedBefore DEF Inv
  <2>2. a.id \in D \ {id}
    BY <1>5, <1>6
  <2> QED  BY <2>2 DEF MemInv, ExclusiveOK, FreedIn
<1>   /\ a.ptr \in Ptrs /\ a.ptr \notin owned /\ a.ptr \notin usm
      /\ \A u \in Threads : Freeing(u) => call[u].ptr # a.ptr
      /\ \A b \in async' : b.ptr # a.ptr
  BY <1>1 DEF MemInv, OwnersOK
<1>9. async' \subseteq async /\ usm' \subseteq usm \ {a.ptr}
  BY <1>1, <1>2
<1> QED  BY <1>1, <1>2, <1>3, <1>4, <1>6, <1>7, <1>9, HandOutMem

LEMMA AllocMem ==
  ASSUME Inv, MemInv, NEW t \in Threads, AppendAlloc(t)
  PROVE  MemInv'
<1> DEFINE id == call[t].id
<1>1. PICK p \in usm : usm' = usm \ {p} /\ HandOut(t, p)
  BY DEF AppendAlloc
<1>   /\ pc[t] \in Waiting /\ call[t].op = "alloc" /\ Return(t)
      /\ async' = {} /\ async = {} /\ calls' = calls
      /\ launched' = launched \cup {id} /\ done' = done
  BY DEF AppendAlloc, AppendTo, Waiting
<1>3. \A i \in Ids \ {id} : deps'[i] = deps[i]
  BY DEF AppendAlloc, AppendTo, Inv, LanesOK
<1>4. CallsKept /\ pc'[t] \notin Waiting /\ kind' = kind /\ needs' = needs
  BY ReturnKept DEF Waiting
<1>5. Settled(t, p)
  BY DEF MemInv, IdleOK, Closed, Settled
<1>6. /\ p \in Ptrs /\ p \notin owned
      /\ \A u \in Threads : Freeing(u) => call[u].ptr # p
  BY DEF MemInv, OwnersOK
<1>7. async' \subseteq async /\ usm' \subseteq usm \ {p} /\ \A b \in async' : b.ptr # p
  BY <1>1
<1> QED  BY <1>1, <1>3, <1>4, <1>5, <1>6, <1>7, HandOutMem

\* When the lists are synchronized everything freed is unused.
LEMMA CleanupMem ==
  ASSUME Inv, MemInv, NEW t \in Threads, Cleanup(t)
  PROVE  MemInv'
<1>1. PICK a \in async : usm' = usm \cup {a.ptr} /\ async' = async \ {a}
  BY DEF Cleanup
<1>   UNCHANGED <<uses, handed, alloc, kind, needs, calls, owned, deps, launched, done,
                  pc, call>>
  BY DEF Cleanup, lanes, promise
<1>3. CallsKept
  BY DEF CallsKept
<1>4. UsesOK' /\ ProperOK'
  BY <1>3, UsesKept DEF MemInv
<1>5. OwnersOK'
  <2>1. \A u \in Threads : Freeing(u)' <=> Freeing(u)
    BY DEF Freeing
  <2> QED  BY SMTT(20), Z3T(20), <1>1, <2>1 DEF MemInv, OwnersOK
<1>6. ExclusiveOK'
  <2>1. \A D : Closed(D)' => Closed(D)
    BY DEF Closed
  <2> QED  BY <1>1, <2>1 DEF MemInv, ExclusiveOK, UsesIn, FreedIn
<1>7. IdleOK'
  <2>1. \A l \in Lists : front[l] \subseteq done
    BY DEF Cleanup, Synced, Drained
  <2>   done \in SUBSET launched /\ Closed(done) /\ launched \subseteq done
    BY <2>1, DoneClosed DEF Inv, OrderOK
  <2>3. a.id \in done
    BY DEF Inv, HandlesOK, Holding
  <2>4. \A i \in Ids : uses[i].ptr = a.ptr => i \in done
    BY <2>3 DEF MemInv, ExclusiveOK, FreedIn
  <2> QED  BY <1>1, <2>4 DEF MemInv, IdleOK
<1> QED  BY <1>4, <1>5, <1>6, <1>7 DEF MemInv

LEMMA QuietActionsMem ==
  ASSUME Inv, MemInv, NEW t \in Threads,
         \/ CallWait(t) \/ CallFinish(t) \/ CallRelease(t) \/ AllocFails(t)
         \/ SyncCopy(t) \/ EndFinish(t) \/ EventWait(t)
  PROVE  MemInv'
<1>1. UNCHANGED <<uses, handed, alloc, kind, needs, calls, owned, usm, async, deps,
                  launched, done>>
  BY DEF CallWait, CallFinish, CallRelease, AllocFails, SyncCopy, EndFinish, EventWait,
         Return, lanes, memory, promise
<1>2. pc \in [Threads -> Labels] /\ DOMAIN call = Threads
  BY DEF Inv, CallsOK
<1>3. CallsKept
  <2>1. CASE Return(t)
    BY <2>1, ReturnKept
  <2>2. CASE CallRelease(t)
    BY <2>2 DEF CallRelease, CallsKept
  <2>3. CASE CallWait(t) \/ CallFinish(t) \/ AllocFails(t)
    BY <1>2, <2>3 DEF CallWait, CallFinish, AllocFails, Goto, CallsKept, Waiting
  <2> QED  BY <2>1, <2>2, <2>3 DEF SyncCopy, EndFinish, EventWait
<1> QED  BY <1>1, <1>3, QuietMem

LEMMA OthersMem ==
  ASSUME Inv, MemInv, Execute \/ UNCHANGED vars
  PROVE  MemInv'
<1>   /\ UNCHANGED <<uses, handed, alloc, kind, needs, calls, owned, usm, async, deps,
                     launched, pc, call>>
      /\ done \subseteq done'
  BY DEF Execute, Complete, vars, lanes, memory, promise
<1>2. CallsKept
  BY DEF CallsKept
<1> QED  BY <1>2, QuietMem

\* Arithmetic of identifiers and generations.
LEMMA NatSign == \A n \in Nat : n <= n /\ (n = 0 \/ n > 0)
  BY SMTT(20), Z3T(20)

LEMMA NatRange == \A n \in Nat : \A i \in 0 .. n : i <= n
  BY SMTT(20), Z3T(20)

LEMMA BelowNew == \A n \in Nat : \A i \in Ids : i <= n => i <= n + 1
  BY SMTT(20), Z3T(20) DEF Ids

LEMMA NewId ==
  ASSUME calls \in Nat, calls < MaxCommands
  PROVE  calls + 1 \in Ids /\ ~(calls + 1 <= calls) /\ calls + 1 # 0 /\ calls + 1 \in Nat
  BY SMTT(20), Z3T(20), MaxCommandsAssumption DEF Ids

\* A call that names memory names memory the application owns.
LEMMA EnqueueMem ==
  ASSUME Inv, MemInv, NEW t \in Threads, CallEnqueue(t)
  PROVE  MemInv'
<1> DEFINE id == calls + 1
           after(op, es) == Contract!OrderedAfter(KindOf(op), {meaning[e] : e \in es})
           c(op, es, p, ev) == [op |-> op, id |-> id, list |-> es, ptr |-> p, ev |-> ev,
                                owed |-> IF op = "read" THEN {id} ELSE {}]
<1>1. PICK op \in Ops \cap (Plain \cup Markers \cup {"barrier"}), es \in SUBSET Usable,
           p \in Ptrs \cup {None}, ev \in BOOLEAN :
        /\ Cardinality(es) <= MaxWaits
        /\ op = "eventswait" => es # {}
        /\ op = "waitall" => es = {}
        /\ ev \/ op \in Silent
        /\ ProperUse(op, p, after(op, es))
        /\ calls' = id
        /\ call' = [call EXCEPT ![t] = c(op, es, p, ev)]
        /\ kind' = [kind EXCEPT ![id] = KindOf(op)]
        /\ needs' = [needs EXCEPT ![id] = after(op, es)]
        /\ uses' = IF op = "kernel"
                   THEN [uses EXCEPT ![id] = [ptr |-> p, gen |-> handed[p]]] ELSE uses
        /\ owned' = IF op = "free" THEN owned \ {p} ELSE owned
        /\ IF op = "barrier" THEN Goto(t, "barrier") /\ UNCHANGED <<index, list>>
           ELSE Goto(t, "append") /\ GetNextCommandListId(t)
  BY DEF CallEnqueue
<1>2. /\ calls < MaxCommands
      /\ UNCHANGED <<deps, launched, done, usm, async, handed, alloc, issued>>
  BY DEF CallEnqueue, lanes
<1>3. /\ calls \in Nat /\ id \in Ids /\ ~(id <= calls) /\ id # 0 /\ id \in Nat
      /\ id \notin launched /\ id \notin issued /\ id \notin done
  <2>   /\ calls \in Nat /\ done \subseteq launched /\ issued \subseteq launched
        /\ \A i \in launched : i <= calls
    BY DEF Inv, PromiseOK, LanesOK
  <2>2. calls \in Nat /\ id \in Ids /\ ~(id <= calls) /\ id # 0 /\ id \in Nat
    BY <1>2, NewId
  <2> QED  BY <2>2
<1>4. /\ handed \in [Ptrs -> Nat] /\ alloc \in [Ptrs -> Ids \cup {0}]
      /\ uses \in [Ids -> [ptr : Ptrs \cup {None}, gen : Nat]]
      /\ \A i \in Ids : uses[i].ptr # None =>
           uses[i].gen <= handed[uses[i].ptr] /\ i <= calls
      /\ \A q \in Ptrs : handed[q] > 0 => alloc[q] \in Users(q)
      /\ \A u \in Threads : NoKernel(u) => uses[call[u].id].ptr = None
  BY DEF MemInv, UsesOK
<1>5. /\ DOMAIN call = Threads /\ pc \in [Threads -> Labels]
      /\ kind \in [Ids -> {"none", "plain", "marker", "barrier"}]
      /\ needs \in [Ids -> SUBSET issued] /\ issued \subseteq Ids
  BY DEF Inv, CallsOK, PromiseOK, LanesOK
<1> DEFINE d == c(op, es, p, ev)
           needed == after(op, es)
<1>6. d.op = op /\ d.id = id /\ d.ptr = p
  OBVIOUS
<1>7. /\ call'[t] = d /\ \A u \in Threads : u # t => call'[u] = call[u]
      /\ pc'[t] \in Waiting /\ \A u \in Threads : u # t => pc'[u] = pc[u]
      /\ pc'[t] = "append" \/ op = "barrier"
  BY <1>1, <1>5 DEF Goto, Waiting
<1>8. ProperUse(op, p, needed)
  BY <1>1
<1>9. /\ op = "kernel" => p \in owned /\ alloc[p] \in Implied(needed) \cup done \cup {0}
      /\ op = "free" => p \in owned /\ Users(p) \subseteq Implied(needed) \cup done
  BY <1>8 DEF ProperUse
<1>10. needed \subseteq issued
  <2>1. {meaning[e] : e \in es} \subseteq issued
    BY UsableFacts
  <2> QED  BY <2>1 DEF Contract!OrderedAfter
<1>11. /\ kind' = [kind EXCEPT ![id] = KindOf(op)]
       /\ needs' = [needs EXCEPT ![id] = needed]
       /\ calls' = id
       /\ owned' = IF op = "free" THEN owned \ {p} ELSE owned
       /\ uses' = IF op = "kernel"
                  THEN [uses EXCEPT ![id] = [ptr |-> p, gen |-> handed[p]]] ELSE uses
  BY <1>1
<1> HIDE DEF id, d, needed
<1>12. /\ \A i \in Ids : i # id => /\ uses'[i] = uses[i] /\ needs'[i] = needs[i]
                                   /\ kind'[i] = kind[i]
       /\ needs'[id] = needed
       /\ op = "kernel" => uses'[id] = [ptr |-> p, gen |-> handed[p]]
       /\ op # "kernel" => uses'[id] = uses[id]
  BY <1>3, <1>4, <1>5, <1>11
<1>121. op = "kernel" => uses'[id].ptr = p /\ uses'[id].gen = handed[p]
  <2>1. op = "kernel" => uses'[id] = Use(p, handed[p])
    BY <1>12 DEF Use
  <2>2. op = "kernel" => /\ uses'[id].ptr = Use(p, handed[p]).ptr
                         /\ uses'[id].gen = Use(p, handed[p]).gen
    BY <2>1
  <2> QED  BY <2>2, UseFields
<1>13. None \notin Ptrs /\ owned \subseteq Ptrs /\ uses[id].ptr = None
  BY <1>3, <1>4, NoneAssumption DEF MemInv, OwnersOK
<1>14. /\ \A u \in Threads : u # t => /\ Freeing(u)' => Freeing(u)
                                      /\ NoKernel(u)' => NoKernel(u)
                                      /\ Launching(u)' => Launching(u)
       /\ Freeing(t)' <=> op = "free"
       /\ NoKernel(t)' <=> op # "kernel"
       /\ Launching(t)' <=> op = "kernel"
  BY <1>6, <1>7 DEF Freeing, NoKernel, Launching
<1>15. \A u \in Threads : /\ call[u].id # id
                          /\ Launching(u) \/ NoKernel(u) \/ Freeing(u) => call[u].id \in Ids
  <2>1. \A u \in Threads : call[u].id \in 0 .. calls
    BY CallIds
  <2>2. \A u \in Threads : Launching(u) \/ NoKernel(u) \/ Freeing(u) => call[u].id \in Ids
    BY CallIds DEF Launching, NoKernel, Freeing, Waiting
  <2> QED  BY <1>3, <2>1, <2>2, NatRange
<1>16. OwnersOK'
  <2>1. CASE op = "free"
    <3>1. owned' = owned \ {p} /\ p \in owned /\ call'[t].ptr = p
      BY <1>6, <1>7, <1>9, <1>11, <2>1
    <3>2. /\ owned' \subseteq Ptrs /\ usm' \subseteq Ptrs /\ owned' \cap usm' = {}
          /\ \A a \in async' : a.ptr \in Ptrs \ (owned' \cup usm') /\ a.ptr # p
          /\ \A a, b \in async' : a.ptr = b.ptr => a = b
          /\ p \in Ptrs \ (owned' \cup usm')
      BY <1>2, <3>1 DEF MemInv, OwnersOK
    <3>3. ASSUME NEW u \in Threads, u # t, Freeing(u)'
          PROVE  /\ call'[u].ptr \in Ptrs \ (owned' \cup usm') /\ call'[u].ptr # p
                 /\ \A a \in async' : a.ptr # call'[u].ptr
      <4>1. Freeing(u) /\ call'[u] = call[u]
        BY <1>7, <1>14, <3>3
      <4> QED  BY <1>2, <3>1, <4>1 DEF MemInv, OwnersOK
    <3>4. \A u \in Threads : Freeing(u)' =>
            /\ call'[u].ptr \in Ptrs \ (owned' \cup usm')
            /\ \A a \in async' : a.ptr # call'[u].ptr
      BY <3>1, <3>2, <3>3
    <3>5. ASSUME NEW u \in Threads, NEW v \in Threads, Freeing(u)', Freeing(v)',
                 call'[u].ptr = call'[v].ptr
          PROVE  u = v
      <4>1. CASE u = t \/ v = t
        BY <3>1, <3>3, <3>5, <4>1
      <4>2. CASE u # t /\ v # t
        <5>1. /\ Freeing(u) /\ Freeing(v) /\ call'[u] = call[u] /\ call'[v] = call[v]
          BY <1>7, <1>14, <3>5, <4>2
        <5> QED  BY <3>5, <5>1 DEF MemInv, OwnersOK
      <4> QED  BY <4>1, <4>2
    <3> QED  BY <3>2, <3>4, <3>5 DEF OwnersOK
  <2>2. CASE op # "free"
    <3>1. owned' = owned
      BY <1>11, <2>2
    <3> QED  BY <1>2, <1>7, <1>14, <2>2, <3>1 DEF MemInv, OwnersOK
  <2> QED  BY ZenonT(30), <2>1, <2>2
<1>17. UsesOK'
  <2>1. uses' \in [Ids -> [ptr : Ptrs \cup {None}, gen : Nat]]
    <3>1. op = "kernel" => handed[p] \in Nat
      BY <1>4, <1>9, <1>13
    <3> QED  BY <1>3, <1>4, <1>11, <3>1
  <2>2. ASSUME NEW i \in Ids, uses'[i].ptr # None
        PROVE  uses'[i].gen <= handed'[uses'[i].ptr] /\ i <= calls'
    <3>1. CASE i = id
      <4>1. op = "kernel"
        BY ZenonT(30), <1>12, <1>13, <2>2, <3>1
      <4>2. uses'[id].ptr = p /\ uses'[id].gen = handed[p] /\ handed[p] \in Nat
        BY <1>4, <1>9, <1>121, <1>13, <4>1
      <4>3. id <= id /\ handed[p] <= handed[p]
        BY <1>3, <4>2, NatSign
      <4> QED  BY <1>2, <1>11, <3>1, <4>2, <4>3
    <3>2. CASE i # id
      <4>1. uses[i].gen <= handed[uses[i].ptr] /\ i <= calls /\ uses'[i] = uses[i]
        BY <1>4, <1>12, <2>2, <3>2
      <4>2. i <= id
        BY <1>3, <4>1, BelowNew DEF id
      <4> QED  BY <1>2, <1>11, <4>1, <4>2
    <3> QED  BY ZenonT(30), <3>1, <3>2
  <2>3. ASSUME NEW q \in Ptrs, handed'[q] > 0
        PROVE  alloc'[q] \in Users(q)'
    <3>1. alloc[q] \in Users(q)
      BY <1>2, <1>4, <2>3
    <3>   alloc[q] \in Ids /\ uses[alloc[q]] = [ptr |-> q, gen |-> handed[q]]
      BY <3>1 DEF Users
    <3>3. alloc[q] # id
      BY SMTT(20), Z3T(20), <1>13
    <3> QED  BY <1>2, <1>12, <3>3 DEF Users
  <2>4. ASSUME NEW u \in Threads, NoKernel(u)'
        PROVE  uses'[call'[u].id].ptr = None
    <3>1. CASE u = t
      BY <1>6, <1>7, <1>12, <1>13, <1>14, <2>4, <3>1
    <3>2. CASE u # t
      <4>   NoKernel(u) /\ call'[u] = call[u]
        BY <1>7, <1>14, <2>4, <3>2
      <4>2. call[u].id \in Ids /\ call[u].id # id /\ uses[call[u].id].ptr = None
        BY <1>4, <1>15
      <4> QED  BY <1>12, <4>2
    <3> QED  BY <3>1, <3>2
  <2> QED  BY <1>2, <1>4, <2>1, <2>2, <2>3, <2>4 DEF UsesOK
<1>18. ProperOK'
  <2>1. ASSUME NEW u \in Threads, Launching(u)'
        PROVE  (\/ uses[call[u].id].gen = 0
                \/ \E a \in Implied(needs[call[u].id]) \cup done :
                     uses[a] = uses[call[u].id])'
    <3>1. CASE u = t
      <4>   /\ op = "kernel" /\ call'[u].id = id /\ needs'[id] = needed
            /\ uses'[id] = [ptr |-> p, gen |-> handed[p]] /\ p \in Ptrs
            /\ alloc[p] \in Implied(needed) \cup done \cup {0}
        BY <1>6, <1>7, <1>9, <1>12, <1>13, <1>14, <2>1, <3>1
      <4>2. CASE handed[p] = 0
        BY <1>121, <4>2
      <4>3. CASE handed[p] > 0
        <5>1. alloc[p] \in Users(p)
          BY <1>4, <4>3
        <5>   /\ alloc[p] \in Ids /\ uses[alloc[p]] = [ptr |-> p, gen |-> handed[p]]
              /\ alloc[p] # 0
          BY <5>1, NotZero DEF Users
        <5>3. alloc[p] # id
          <6>1. uses[alloc[p]].ptr = p
            BY <5>1, UserFields
          <6> QED  BY <1>13, <6>1
        <5>4. uses'[alloc[p]] = uses'[id]
          BY <1>12, <5>3
        <5>5. Implied(needs[call[u].id])' = Implied(needed)
          <6>1. \A b \in needed : kind'[b] = kind[b] /\ needs'[b] = needs[b]
            BY ZenonT(40), <1>3, <1>5, <1>10, <1>12
          <6> QED  BY <6>1, ImpliedKept
        <5> QED  BY <1>2, <5>4, <5>5
      <4>4. handed[p] = 0 \/ handed[p] > 0
        <5>1. handed[p] \in Nat
          BY <1>4
        <5> QED  BY <5>1, NatSign
      <4> QED  BY <4>2, <4>3, <4>4
    <3>2. CASE u # t
      <4>1. /\ Launching(u) /\ call'[u] = call[u] /\ call[u].id # id /\ call[u].id \in Ids
        BY <1>7, <1>14, <1>15, <2>1, <3>2
      <4>2. uses'[call'[u].id] = uses[call[u].id]
        BY <1>12, <4>1
      <4>3. CASE uses[call[u].id].gen = 0
        BY <4>2, <4>3
      <4>4. CASE uses[call[u].id].gen # 0
        <5>1. PICK a \in Implied(needs[call[u].id]) \cup done : uses[a] = uses[call[u].id]
          BY <4>1, <4>4 DEF MemInv, ProperOK
        <5>2. a \in Ids /\ a # id
          BY <1>3, <1>5, <4>1, ImpliedIssued DEF Inv, LanesOK
        <5>3. uses'[a] = uses'[call'[u].id]
          BY ZenonT(30), <1>12, <4>2, <5>1, <5>2
        <5>4. Implied(needs[call[u].id])' = Implied(needs[call[u].id])
          <6>   needs'[call'[u].id] = needs[call[u].id] /\ needs[call[u].id] \in SUBSET issued
            BY <1>5, <1>12, <4>1
          <6>2. \A b \in needs[call[u].id] : kind'[b] = kind[b] /\ needs'[b] = needs[b]
            BY <1>3, <1>5, <1>12
          <6> QED  BY <6>2, ImpliedKept
        <5> QED  BY <1>2, <5>1, <5>3, <5>4
      <4> QED  BY <4>3, <4>4
    <3> QED  BY <3>1, <3>2
  <2>2. ASSUME NEW u \in Threads, Freeing(u)'
        PROVE  (Users(call[u].ptr) \subseteq Implied(needs[call[u].id]) \cup done)'
    <3>1. CASE u = t
      <4>   /\ op = "free" /\ call'[u].id = id /\ call'[u].ptr = p
            /\ needs'[id] = needed /\ uses' = uses
            /\ Users(p) \subseteq Implied(needed) \cup done
        BY <1>6, <1>7, <1>9, <1>11, <1>12, <1>14, <2>2, <3>1
      <4>2. Users(call[u].ptr)' = Users(p)
        BY <1>2 DEF Users
      <4>3. Implied(needs[call[u].id])' = Implied(needed)
        <5>1. \A b \in needed : kind'[b] = kind[b] /\ needs'[b] = needs[b]
          BY <1>3, <1>5, <1>10, <1>12
        <5> QED  BY <5>1, ImpliedKept
      <4> QED  BY <1>2, <4>2, <4>3
    <3>2. CASE u # t
      <4>   /\ Freeing(u) /\ call'[u] = call[u] /\ call[u].id # id /\ call[u].id \in Ids
        BY <1>7, <1>14, <1>15, <2>2, <3>2
      <4>2. Users(call[u].ptr)' \subseteq Users(call[u].ptr)
        <5>1. op = "kernel" => call[u].ptr # p
          BY ZenonT(40), <1>9 DEF MemInv, OwnersOK
        <5>2. ASSUME NEW i \in Ids,
                     uses'[i] = [ptr |-> call[u].ptr, gen |-> handed[call[u].ptr]]
              PROVE  uses'[i] = uses[i]
          <6>1. uses'[i].ptr = call[u].ptr
            <7>1. uses'[i] = Use(call[u].ptr, handed[call[u].ptr])
              BY <5>2 DEF Use
            <7>2. uses'[i].ptr = Use(call[u].ptr, handed[call[u].ptr]).ptr
              BY <7>1
            <7> QED  BY <7>2, UseFields
          <6> QED  BY <1>12, <1>121, <5>1, <6>1
        <5> QED  BY <1>2, <5>2 DEF Users
      <4>3. Implied(needs[call[u].id])' = Implied(needs[call[u].id])
        <5>   needs'[call'[u].id] = needs[call[u].id] /\ needs[call[u].id] \in SUBSET issued
          BY <1>5, <1>12
        <5>2. \A b \in needs[call[u].id] : kind'[b] = kind[b] /\ needs'[b] = needs[b]
          BY <1>3, <1>5, <1>12
        <5> QED  BY <5>2, ImpliedKept
      <4>4. Users(call[u].ptr) \subseteq Implied(needs[call[u].id]) \cup done
        BY DEF MemInv, ProperOK
      <4> QED  BY <1>2, <4>2, <4>3, <4>4
    <3> QED  BY <3>1, <3>2
  <2> QED  BY <2>1, <2>2 DEF ProperOK
<1>19. ExclusiveOK'
  <2> SUFFICES ASSUME NEW D \in SUBSET launched', Closed(D)'
               PROVE  UsesIn(D)' /\ \A a \in async' : FreedIn(D, a)'
    BY DEF ExclusiveOK
  <2>1. D \in SUBSET launched /\ Closed(D)
    BY <1>2 DEF Closed
  <2>2. UsesIn(D) /\ \A a \in async : FreedIn(D, a)
    BY <2>1 DEF MemInv, ExclusiveOK
  <2>3. ASSUME NEW i \in Ids, NEW j \in Ids, uses'[i].ptr # None,
               uses'[i].ptr = uses'[j].ptr, uses'[i].gen < uses'[j].gen, j \in D
        PROVE  i \in D
    <3>   j # id /\ uses'[j] = uses[j]
      BY <1>3, <1>12, <2>1, <2>3
    <3>2. CASE i # id
      BY <1>12, <2>2, <2>3, <3>2 DEF UsesIn
    <3>3. CASE i = id
      <4>1. op = "kernel"
        BY <1>12, <1>13, <2>3, <3>3
      <4>   uses'[i].ptr = p /\ uses'[i].gen = handed[p] /\ handed[p] \in Nat
        BY <1>4, <1>9, <1>121, <1>13, <3>3, <4>1
      <4>3. uses[j].gen \in Nat /\ uses[j].gen <= handed[p]
        BY <1>4, <2>3
      <4> QED  BY SMTT(20), Z3T(20), <2>3, <4>3
    <3> QED  BY <3>2, <3>3
  <2>4. ASSUME NEW a \in async', a.id \in D, NEW i \in Ids, uses'[i].ptr = a.ptr
        PROVE  i \in D
    <3>   a \in async /\ a.ptr \in Ptrs /\ a.ptr \notin owned
      BY <1>2 DEF MemInv, OwnersOK
    <3>2. i # id
      BY <1>9, <1>12, <1>121, <1>13, <2>4
    <3> QED  BY <1>12, <2>2, <2>4, <3>2 DEF FreedIn
  <2> QED  BY <2>3, <2>4 DEF UsesIn, FreedIn
<1>20. IdleOK'
  <2> SUFFICES ASSUME NEW q \in usm', NEW i \in Ids, uses'[i].ptr = q
               PROVE  i \in done'
    BY DEF IdleOK
  <2>   q \in usm /\ q \in Ptrs /\ q \notin owned
    BY <1>2 DEF MemInv, OwnersOK
  <2>2. i # id
    BY <1>9, <1>12, <1>121, <1>13
  <2> QED  BY <1>2, <1>12, <2>2 DEF MemInv, IdleOK
<1> QED  BY <1>16, <1>17, <1>18, <1>19, <1>20 DEF MemInv

LEMMA InitMem ==
  ASSUME Init
  PROVE  MemInv
<1>   /\ usm = {} /\ async = {} /\ owned = Ptrs /\ launched = {}
      /\ uses = [i \in Ids |-> NoUse]
      /\ handed = [p \in Ptrs |-> 0] /\ alloc = [p \in Ptrs |-> 0]
      /\ pc = [t \in Threads |-> "idle"]
  BY DEF Init, LanesInit
<1>2. \A t \in Threads : ~Freeing(t) /\ ~NoKernel(t) /\ ~Launching(t)
  BY DEF Freeing, NoKernel, Launching, Waiting
<1>3. \A i \in Ids : uses[i].ptr = None
  BY DEF NoUse
<1>4. OwnersOK /\ ProperOK /\ IdleOK
  BY <1>2 DEF OwnersOK, ProperOK, IdleOK
<1>5. UsesOK
  <2>1. uses \in [Ids -> [ptr : Ptrs \cup {None}, gen : Nat]]
    BY DEF NoUse
  <2> QED  BY SMTT(20), Z3T(20), <1>2, <1>3, <2>1 DEF UsesOK
<1>6. ExclusiveOK
  BY <1>3 DEF ExclusiveOK, UsesIn, FreedIn
<1> QED  BY <1>4, <1>5, <1>6 DEF MemInv

\* No use of an earlier owner of an allocation is outstanding when one of a later owner
\* has run or the memory is back with UMF, although allocations are handed out again
\* before the command that frees them has run; for any number of threads, command
\* lists, allocations and calls of an application that orders its own uses.
THEOREM MemoryIsExclusive ==
  ASSUME "waitall" \notin Ops \/ NumLists = 1
  PROVE  Spec => []MemoryExclusive
<1>1. Init => Inv /\ MemInv
  BY InitInv, InitMem
<1>2. Inv /\ MemInv /\ [Next]_vars => Inv' /\ MemInv'
  <2> SUFFICES ASSUME Inv, MemInv, [Next]_vars
               PROVE  Inv' /\ MemInv'
    OBVIOUS
  <2>1. Inv'
    BY NextInv
  <2>2. CASE Execute \/ UNCHANGED vars
    BY <2>1, <2>2, OthersMem
  <2>3. ASSUME NEW t \in Threads,
               CallEnqueue(t) \/ CallWait(t) \/ CallFinish(t) \/ CallRelease(t) \/ Step(t)
        PROVE  MemInv'
    <3>1. CASE CallEnqueue(t)
      BY <3>1, EnqueueMem
    <3>2. CASE AppendCommand(t) \/ Barrier(t)
      BY <2>1, <3>2, LaunchActionsMem
    <3>3. CASE AppendReuse(t)
      BY <3>3, ReuseMem
    <3>4. CASE AppendAlloc(t)
      BY <3>4, AllocMem
    <3>5. CASE AppendFree(t)
      BY <2>1, <3>5, FreeMem
    <3>6. CASE Cleanup(t)
      BY <3>6, CleanupMem
    <3>7. CASE \/ CallWait(t) \/ CallFinish(t) \/ CallRelease(t) \/ AllocFails(t)
               \/ SyncCopy(t) \/ EndFinish(t) \/ EventWait(t)
      BY <3>7, QuietActionsMem
    <3> QED  BY <2>3, <3>1, <3>2, <3>3, <3>4, <3>5, <3>6, <3>7 DEF Step
  <2> QED  BY <2>1, <2>2, <2>3 DEF Next
<1>3. Inv /\ MemInv => MemoryExclusive
  <2> SUFFICES ASSUME Inv, MemInv
               PROVE  MemoryExclusive
    OBVIOUS
  <2>1. UsesIn(done)
    BY DoneClosed DEF Inv, MemInv, ExclusiveOK
  <2> QED  BY <2>1 DEF MemInv, IdleOK, UsesIn, MemoryExclusive
<1> QED  BY <1>1, <1>2, <1>3, PTL DEF Spec

=============================================================================
