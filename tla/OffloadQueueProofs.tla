------------------------- MODULE OffloadQueueProofs -------------------------
(***************************************************************************)
(* That the queue of the LLVM Offload adapter keeps the promises of the    *)
(* API (OffloadQueue implements AbstractQueue), for any number of threads  *)
(* and any size of the bank, if no olCreateQueue but that of the last slot *)
(* fails.                                                                  *)
(*                                                                         *)
(* What a wait on the device amounts to is expressed by closed sets of     *)
(* commands, those that may be the set of commands done at some later      *)
(* time: F covers i if i is in every closed set that includes F.  What the *)
(* front of a lane covers it goes on covering, whatever is put on the lane *)
(* meanwhile; that is why the calls need no lock between the choice of a   *)
(* lane and the launch.                                                    *)
(***************************************************************************)
EXTENDS OffloadQueue, TLAPS

\* The provers of the leaves that name none
USE SMTT(15), Zenon, Z3T(15)

Closed(D) ==
  /\ done \subseteq D /\ D \subseteq launched
  /\ \A i \in D : deps[i] \subseteq D

Covers(F, i) == \A D \in SUBSET launched : Closed(D) /\ F \subseteq D => i \in D

\* A lane of the bank, from slot n on, that covers i
OnLane(n, i) == \E s \in created : s >= n /\ Covers(front[s], i)

Barriers == {b \in issued : kind[b] = "barrier"}

LanesOK ==
  /\ front \in [Bank -> SUBSET launched] /\ deps \in [Ids -> SUBSET launched]
  /\ done \subseteq launched /\ launched \subseteq Ids
  /\ \A i \in done : deps[i] \subseteq done
  /\ \A i \in Ids \ launched : deps[i] = {}

\* The slots are filled in order.
BankOK ==
  /\ created \subseteq Bank /\ offset \in Nat
  /\ \A s \in created : s < offset
  /\ \A s \in Bank : s < offset /\ s < Slots - 1 => s \in created
  /\ \A s \in Bank \ created : front[s] = {}
  /\ InOrder => created = {0}

PromiseOK ==
  /\ kind \in [Ids -> {"none", "plain", "marker", "barrier"}]
  /\ needs \in [Ids -> SUBSET issued] /\ issued \subseteq launched
  /\ \A i \in Ids : i \notin needs[i]
  /\ calls \in Nat /\ calls <= MaxCommands
  /\ \A i \in Ids : i > calls => kind[i] = "none"
  /\ \A i \in launched : i <= calls /\ kind[i] # "none"

\* What each command, event, lane and barrier stands for
OrderOK ==
  /\ \A i \in launched : \A n \in needs[i] : Covers({i}, n)
  /\ \A i \in launched : i \in done \/ OnLane(0, i)
  /\ \A s \in created : \A b \in Barriers : Covers(front[s], b)

EventsOK ==
  /\ event \in [Ids -> SUBSET launched]
  /\ \A e \in issued : Covers(event[e], e)
  /\ barrier \subseteq launched
  /\ ~InOrder => \A b \in Barriers : Covers(barrier, b)

\* Where the command of a call is still to be launched, the lane is chosen, and
\* OooMutex is held
Before == {"next", "lock", "waits", "waitList", "launch", "signal", "syncCopy",
           "gather", "hostCopy"}
Chosen == {"waits", "waitList", "launch", "signal", "syncCopy", "gather", "makeEvent",
           "spread"}
Locked == {"waitList", "gather", "signal", "spread"}

\* The call of t before its launch: what its command needs
NeedsOK(t) ==
  LET c == call[t] IN
  /\ pc[t] \in {"next", "lock"} =>
       InOrder \/ (c.op \in Waits /\ c.list = {}) \/ needs[c.id] \subseteq c.list \cup Barriers
  /\ pc[t] \in {"waits", "waitList"} =>
       \A i \in needs[c.id] \ c.list : Covers(front[target[t]], i)
  /\ pc[t] \in {"launch", "signal", "syncCopy"} =>
       \A i \in needs[c.id] : Covers(front[target[t]], i)
  /\ pc[t] = "gather" =>
       \A i \in needs[c.id] :
         Covers(handles[t] \cup front[target[t]], i) \/ OnLane(scan[t], i)
  /\ pc[t] = "hostCopy" => needs[c.id] \subseteq done

\* The call of t after its launch: what must be done before it returns
LaunchedOK(t) ==
  LET c == call[t] IN
  /\ pc[t] \in {"makeEvent", "spread"} =>
       c.id \in launched /\ Covers(front[target[t]], c.id)
  /\ pc[t] = "spread" =>
       /\ barrier = {c.id} /\ event[c.id] = {c.id}
       /\ \A s \in created : s < scan[t] => Covers(front[s], c.id)
  /\ pc[t] = "copied" => c.id \in done
  /\ pc[t] = "sync" => \A i \in c.owed : i \in done \/ OnLane(scan[t], i)
  /\ pc[t] = "eventWait" => c.owed \subseteq c.list

CallOK(t) ==
  LET c == call[t] IN
  /\ pc[t] \in Labels /\ target[t] \in Bank /\ scan[t] \in Nat
  /\ c.list \subseteq issued /\ handles[t] \subseteq launched
  /\ pc[t] = "idle" => c = NoCall
  /\ pc[t] \in {"sync", "eventWait"} => c.id = 0
  /\ pc[t] \in Before => c.id \in 1 .. calls /\ c.id \notin launched
  /\ pc[t] \in Before \cup {"makeEvent", "spread", "copied"} =>
       /\ c.id \in 1 .. calls
       /\ kind[c.id] = KindOf(c.op)
       /\ c.op \in Commands \cup Waits
       /\ c.owed = IF c.op = "copy" THEN {c.id} ELSE {}
  /\ pc[t] \in {"waits", "waitList"} => c.list # {}
  /\ pc[t] \in {"launch", "makeEvent"} => c.op = "kernel"
  /\ pc[t] \in {"syncCopy", "hostCopy", "copied"} => c.op = "copy"
  /\ pc[t] \in {"next", "waits"} => c.op \in Commands
  /\ pc[t] \in {"lock"} \cup Locked => c.op \in Waits
  /\ pc[t] = "gather" => c.list = {} /\ ~InOrder
  /\ pc[t] = "spread" => c.op = "barrier"
  /\ scan[t] = 0 \/ pc[t] \in {"gather", "signal", "spread", "sync"}
  /\ pc[t] \in Chosen => target[t] \in created
  /\ pc[t] \in Locked => mutex = t
  /\ NeedsOK(t) /\ LaunchedOK(t)

CallsOK ==
  /\ pc \in [Threads -> Labels] /\ DOMAIN call = Threads
  /\ target \in [Threads -> Bank] /\ scan \in [Threads -> Nat]
  /\ DOMAIN handles = Threads
  /\ \A t \in Threads : CallOK(t)
  /\ \A t, u \in Threads : call[t].id = call[u].id /\ call[t].id # 0 => t = u

Inv == LanesOK /\ BankOK /\ PromiseOK /\ OrderOK /\ EventsOK /\ CallsOK

-----------------------------------------------------------------------------
\* What a step does to the lanes

\* Closed sets come from closed sets, ...
Grown ==
  /\ launched \subseteq launched'
  /\ \A D \in SUBSET launched' : Closed(D)' => Closed(D \cap launched)

\* ... and a lane still waits for all it waited for.
Advanced ==
  \A s \in Bank : \A D \in SUBSET launched' :
    Closed(D)' /\ front'[s] \subseteq D => front[s] \subseteq D

LEMMA CoversKept ==
  ASSUME Grown, NEW F \in SUBSET launched, NEW i, Covers(F, i)
  PROVE  Covers(F, i)'
<1> SUFFICES ASSUME NEW D \in SUBSET launched', Closed(D)', F \subseteq D
             PROVE  i \in D
  BY Zenon DEF Covers
<1>1. D \cap launched \in SUBSET launched /\ Closed(D \cap launched)
      /\ F \subseteq D \cap launched
  BY Zenon DEF Grown
<1> QED  BY Zenon, <1>1 DEF Covers

LEMMA FrontKept ==
  ASSUME Grown, Advanced, LanesOK, NEW H \in SUBSET launched, NEW s \in Bank, NEW i,
         Covers(H \cup front[s], i)
  PROVE  Covers(H \cup front[s], i)'
<1> SUFFICES ASSUME NEW D \in SUBSET launched', Closed(D)', H \cup front'[s] \subseteq D
             PROVE  i \in D
  BY Zenon DEF Covers
<1>1. front[s] \subseteq D /\ front[s] \subseteq launched
  BY Zenon DEF Advanced, LanesOK
<1>2. D \cap launched \in SUBSET launched /\ Closed(D \cap launched)
      /\ H \cup front[s] \subseteq D \cap launched
  BY Zenon, <1>1 DEF Grown
<1> QED  BY Zenon, <1>2 DEF Covers

LEMMA LaneKept ==
  ASSUME Grown, Advanced, LanesOK, NEW s \in Bank, NEW i, Covers(front[s], i)
  PROVE  Covers(front[s], i)'
<1>1. Covers({} \cup front[s], i)
  BY Zenon DEF Covers
<1>2. Covers({} \cup front[s], i)'
  BY Zenon, <1>1, FrontKept
<1> QED  BY Zenon, <1>2 DEF Covers

LEMMA OnLaneKept ==
  ASSUME Grown, Advanced, LanesOK, created \subseteq Bank, created \subseteq created',
         NEW n, NEW i, OnLane(n, i)
  PROVE  OnLane(n, i)'
<1>1. PICK s \in created : s >= n /\ Covers(front[s], i)
  BY Zenon DEF OnLane
<1>2. Covers(front[s], i)'
  BY Zenon, <1>1, LaneKept
<1> QED  BY Zenon, <1>1, <1>2 DEF OnLane

LEMMA Larger ==
  ASSUME NEW F, NEW G, F \subseteq G, NEW i, Covers(F, i)
  PROVE  Covers(G, i)
  BY Zenon DEF Covers

\* The commands that are done are a closed set.
LEMMA DoneClosed ==
  ASSUME LanesOK
  PROVE  /\ done \in SUBSET launched /\ Closed(done)
         /\ \A F \in SUBSET done : \A i : Covers(F, i) => i \in done
  BY Zenon DEF LanesOK, Closed, Covers

LEMMA DoneCovered ==
  ASSUME NEW i \in done, NEW F
  PROVE  Covers(F, i)
  BY Zenon DEF Closed, Covers

LEMMA PutFacts ==
  ASSUME LanesOK, NEW id \in Ids \ launched, NEW l \in Bank, Put(id, l)
  PROVE  /\ LanesOK' /\ Grown /\ Advanced
         /\ launched' = launched \cup {id} /\ done' = done
         /\ front'[l] = {id} /\ \A s \in Bank \ {l} : front'[s] = front[s]
         /\ \A i : Covers(front[l], i) => Covers({id}, i)'
         /\ Covers({id}, id)'
<1>1. /\ deps' = [deps EXCEPT ![id] = front[l]] /\ front' = [front EXCEPT ![l] = {id}]
      /\ launched' = launched \cup {id} /\ done' = done
  BY Zenon DEF Put
<1>2. /\ front \in [Bank -> SUBSET launched] /\ deps \in [Ids -> SUBSET launched]
      /\ done \subseteq launched /\ launched \subseteq Ids
      /\ \A i \in done : deps[i] \subseteq done
      /\ \A i \in Ids \ launched : deps[i] = {}
  BY Zenon DEF LanesOK
<1>3. /\ front'[l] = {id} /\ \A s \in Bank \ {l} : front'[s] = front[s]
      /\ deps'[id] = front[l] /\ \A i \in launched : deps'[i] = deps[i]
  BY Zenon, <1>1, <1>2
<1>4. LanesOK'
  <2>1. front' \in [Bank -> SUBSET launched'] /\ deps' \in [Ids -> SUBSET launched']
    BY Zenon, <1>1, <1>2
  <2>2. \A i \in done' : deps'[i] \subseteq done'
    BY Zenon, <1>1, <1>2, <1>3
  <2>3. \A i \in Ids \ launched' : deps'[i] = {}
    BY Zenon, <1>1, <1>2
  <2> QED  BY Zenon, <1>1, <1>2, <2>1, <2>2, <2>3 DEF LanesOK
<1>5. ASSUME NEW D \in SUBSET launched', Closed(D)'
      PROVE  Closed(D \cap launched) /\ (id \in D => front[l] \subseteq D)
  BY Zenon, <1>1, <1>2, <1>3, <1>5 DEF Closed
<1>6. Grown
  BY Zenon, <1>1, <1>5 DEF Grown
<1>7. Advanced
  BY Zenon, <1>3, <1>5 DEF Advanced
<1>8. ASSUME NEW i, Covers(front[l], i)
      PROVE  Covers({id}, i)'
  <2> SUFFICES ASSUME NEW D \in SUBSET launched', Closed(D)', id \in D
               PROVE  i \in D
    BY Zenon DEF Covers
  <2>1. Closed(D \cap launched) /\ front[l] \subseteq D \cap launched
    BY Zenon, <1>2, <1>5
  <2> QED  BY Zenon, <1>8, <2>1 DEF Covers
<1>9. Covers({id}, id)'
  BY Zenon DEF Covers
<1> QED  BY Zenon, <1>1, <1>3, <1>4, <1>6, <1>7, <1>8, <1>9

LEMMA WaitOnFacts ==
  ASSUME LanesOK, NEW l \in Bank, NEW at \in SUBSET launched, WaitOn(l, at)
  PROVE  /\ LanesOK' /\ Grown /\ Advanced
         /\ launched' = launched /\ done' = done
         /\ front'[l] = front[l] \cup at /\ \A s \in Bank \ {l} : front'[s] = front[s]
         /\ \A F, i : Covers(F, i) => Covers(F, i)'
<1>1. /\ front' = [front EXCEPT ![l] = front[l] \cup at]
      /\ deps' = deps /\ launched' = launched /\ done' = done
  BY Zenon DEF WaitOn
<1>2. front'[l] = front[l] \cup at /\ \A s \in Bank \ {l} : front'[s] = front[s]
  BY Zenon, <1>1 DEF LanesOK
<1>3. LanesOK'
  BY Zenon, <1>1 DEF LanesOK
<1>4. \A D : Closed(D)' <=> Closed(D)
  BY Zenon, <1>1 DEF Closed
<1>5. Grown
  <2>1. \A D \in SUBSET launched : D \cap launched = D
    BY Zenon
  <2> QED  BY Zenon, <1>1, <1>4, <2>1 DEF Grown
<1>6. Advanced
  BY Zenon, <1>2 DEF Advanced
<1>7. \A F, i : Covers(F, i) => Covers(F, i)'
  BY Zenon, <1>1, <1>4 DEF Covers
<1> QED  BY Zenon, <1>1, <1>2, <1>3, <1>5, <1>6, <1>7

LEMMA HostFacts ==
  ASSUME LanesOK, NEW id \in Ids \ launched, RunOnHost(id)
  PROVE  /\ LanesOK' /\ Grown /\ Advanced
         /\ launched' = launched \cup {id} /\ done' = done \cup {id} /\ front' = front
<1>1. /\ front' = front /\ deps' = deps
      /\ launched' = launched \cup {id} /\ done' = done \cup {id}
  BY Zenon DEF RunOnHost
<1>2. LanesOK'
  BY Zenon, <1>1 DEF LanesOK
<1>3. Grown
  BY Zenon, <1>1 DEF Grown, Closed, LanesOK
<1>4. Advanced
  BY Zenon, <1>1 DEF Advanced
<1> QED  BY Zenon, <1>1, <1>2, <1>3, <1>4

LEMMA CompleteFacts ==
  ASSUME LanesOK, NEW id \in Ids, Complete(id)
  PROVE  /\ LanesOK' /\ Grown /\ Advanced
         /\ launched' = launched /\ done \subseteq done' /\ front' = front
<1>1. /\ front' = front /\ deps' = deps /\ launched' = launched
      /\ id \in launched /\ deps[id] \subseteq done /\ done' = done \cup {id}
  BY Zenon DEF Complete
<1>2. LanesOK'
  BY Zenon, <1>1 DEF LanesOK
<1>3. Grown
  <2>1. \A D \in SUBSET launched : D \cap launched = D
    BY Zenon
  <2> QED  BY Zenon, <1>1, <2>1 DEF Grown, Closed
<1>4. Advanced
  BY Zenon, <1>1 DEF Advanced
<1> QED  BY Zenon, <1>1, <1>2, <1>3, <1>4

LEMMA SameFacts ==
  ASSUME LanesOK, UNCHANGED lanes
  PROVE  /\ LanesOK' /\ Grown /\ Advanced
         /\ launched' = launched /\ done' = done /\ front' = front
         /\ \A F, i : Covers(F, i) => Covers(F, i)'
<1>1. front' = front /\ deps' = deps /\ launched' = launched /\ done' = done
  BY Zenon DEF lanes
<1>2. \A D : Closed(D)' <=> Closed(D)
  BY Zenon, <1>1 DEF Closed
<1>3. Grown
  <2>1. \A D \in SUBSET launched : D \cap launched = D
    BY Zenon
  <2> QED  BY Zenon, <1>1, <1>2, <2>1 DEF Grown
<1>4. Advanced
  BY Zenon, <1>1 DEF Advanced
<1>5. LanesOK'
  BY Zenon, <1>1 DEF LanesOK
<1> QED  BY Zenon, <1>1, <1>2, <1>3, <1>4, <1>5 DEF Covers

-----------------------------------------------------------------------------
\* What a step of thread t leaves to the calls of the other threads

Frame(t) ==
  /\ \A u \in Threads : u # t =>
       /\ pc'[u] = pc[u] /\ call'[u] = call[u] /\ target'[u] = target[u]
       /\ scan'[u] = scan[u] /\ handles'[u] = handles[u]
  /\ Grown /\ Advanced
  /\ \A u \in Threads : u # t => call[u].id \notin launched' \ launched
  /\ done \subseteq done' /\ created \subseteq created' /\ issued \subseteq issued'
  /\ \A u \in Threads : u # t /\ mutex = u =>
       mutex' = u /\ created' = created /\ barrier' = barrier
  /\ \A u \in Threads : u # t /\ call[u].id # 0 => event'[call[u].id] = event[call[u].id]
  /\ calls \in Nat /\ calls' \in Nat /\ calls <= calls'
  /\ \A i \in Ids : i <= calls => kind'[i] = kind[i] /\ needs'[i] = needs[i]

LEMMA CallIds ==
  ASSUME Inv, NEW t \in Threads
  PROVE  /\ call[t].id \in 0 .. calls
         /\ pc[t] \in Before \cup {"makeEvent", "spread", "copied"} =>
              call[t].id \in Ids /\ call[t].id # 0
         /\ pc[t] \in Before => call[t].id \notin launched
         /\ call[t].id # 0 => pc[t] \in Before \cup {"makeEvent", "spread", "copied"}
<1>1. CallOK(t) /\ calls \in Nat /\ calls <= MaxCommands /\ MaxCommands \in Nat
  BY Zenon, MaxCommandsAssumption DEF Inv, CallsOK, PromiseOK
<1>2. CASE pc[t] = "idle"
  BY <1>1, <1>2 DEF CallOK, NoCall, Before
<1>3. CASE pc[t] \in {"sync", "eventWait"}
  BY <1>1, <1>3 DEF CallOK, Before
<1>4. CASE pc[t] \in Before \cup {"makeEvent", "spread", "copied"}
  <2>1. call[t].id \in 1 .. calls
    BY Zenon, <1>1, <1>4 DEF CallOK
  <2>2. pc[t] \in Before => call[t].id \notin launched
    BY Zenon, <1>1 DEF CallOK
  <2> QED  BY <1>1, <1>4, <2>1, <2>2 DEF Ids
<1>5. pc[t] \in Labels
  BY Zenon, <1>1 DEF CallOK
<1> QED  BY Zenon, <1>2, <1>3, <1>4, <1>5 DEF Labels, Before

LEMMA BarriersKept ==
  ASSUME Inv, NEW t, Frame(t)
  PROVE  /\ Barriers \subseteq Barriers'
         /\ \A i \in launched : i \in Ids /\ kind'[i] = kind[i] /\ needs'[i] = needs[i]
<1>1. \A i \in launched : i \in Ids /\ i <= calls
  BY Zenon DEF Inv, PromiseOK, LanesOK
<1>2. issued \subseteq launched /\ issued \subseteq issued'
  BY Zenon DEF Inv, PromiseOK, Frame
<1>3. \A i \in launched : i \in Ids /\ kind'[i] = kind[i] /\ needs'[i] = needs[i]
  BY Zenon, <1>1 DEF Frame
<1> QED  BY Zenon, <1>2, <1>3 DEF Barriers

\* A step of t keeps what another call needs, ...
LEMMA FrameNeeds ==
  ASSUME Inv, NEW t, Frame(t), NEW u \in Threads, u # t
  PROVE  NeedsOK(u)'
<1> DEFINE c == call[u]
           s == target[u]
<1>1. /\ pc'[u] = pc[u] /\ call'[u] = c /\ target'[u] = s
      /\ scan'[u] = scan[u] /\ handles'[u] = handles[u]
      /\ Grown /\ Advanced /\ done \subseteq done' /\ created \subseteq created'
  BY Zenon DEF Frame
<1>2. /\ LanesOK /\ s \in Bank /\ handles[u] \in SUBSET launched /\ NeedsOK(u)
      /\ created \subseteq Bank
  BY Zenon DEF Inv, CallsOK, CallOK, BankOK
<1>3. Barriers \subseteq Barriers'
  BY Zenon, BarriersKept
<1>4. pc[u] \in Before => needs'[c.id] = needs[c.id]
  <2>1. pc[u] \in Before => c.id \in Ids /\ c.id <= calls
    BY CallIds DEF Inv, PromiseOK
  <2> QED  BY Zenon, <2>1 DEF Frame
<1>5. \A H \in SUBSET launched : \A l \in Bank : \A i :
        Covers(H \cup front[l], i) => Covers(H \cup front[l], i)'
  BY Zenon, <1>1, <1>2, FrontKept
<1>6. \A l \in Bank : \A i : Covers(front[l], i) => Covers(front[l], i)'
  BY Zenon, <1>1, <1>2, LaneKept
<1>7. \A n, i : OnLane(n, i) => OnLane(n, i)'
  BY Zenon, <1>1, <1>2, OnLaneKept
<1>8. CASE pc[u] \in {"next", "lock"}
  BY Zenon, <1>1, <1>2, <1>3, <1>4, <1>8 DEF NeedsOK, Before
<1>9. CASE pc[u] \in {"waits", "waitList"}
  BY Zenon, <1>1, <1>2, <1>4, <1>6, <1>9 DEF NeedsOK, Before
<1>10. CASE pc[u] \in {"launch", "signal", "syncCopy"}
  BY Zenon, <1>1, <1>2, <1>4, <1>6, <1>10 DEF NeedsOK, Before
<1>11. CASE pc[u] = "gather"
  BY Zenon, <1>1, <1>2, <1>4, <1>5, <1>7, <1>11 DEF NeedsOK, Before
<1>12. CASE pc[u] = "hostCopy"
  BY Zenon, <1>1, <1>2, <1>4, <1>12 DEF NeedsOK, Before
<1> QED  BY Zenon, <1>1, <1>8, <1>9, <1>10, <1>11, <1>12 DEF NeedsOK

\* ... and what is left to wait for.
LEMMA FrameLaunched ==
  ASSUME Inv, NEW t, Frame(t), NEW u \in Threads, u # t
  PROVE  LaunchedOK(u)'
<1>1. /\ pc'[u] = pc[u] /\ call'[u] = call[u] /\ target'[u] = target[u]
      /\ scan'[u] = scan[u]
      /\ Grown /\ Advanced /\ done \subseteq done' /\ created \subseteq created'
      /\ launched \subseteq launched'
  BY Zenon DEF Frame, Grown
<1>2. /\ LanesOK /\ target[u] \in Bank /\ LaunchedOK(u) /\ created \subseteq Bank
      /\ pc[u] = "spread" => mutex = u
  BY Zenon DEF Inv, CallsOK, CallOK, BankOK, Locked
<1>3. \A l \in Bank : \A i : Covers(front[l], i) => Covers(front[l], i)'
  BY Zenon, <1>1, <1>2, LaneKept
<1>4. \A n, i : OnLane(n, i) => OnLane(n, i)'
  BY Zenon, <1>1, <1>2, OnLaneKept
<1>5. pc[u] = "spread" => /\ created' = created /\ barrier' = barrier
                           /\ event'[call[u].id] = event[call[u].id]
  <2>1. pc[u] = "spread" => call[u].id # 0
    BY Zenon, CallIds
  <2> QED  BY Zenon, <1>2, <2>1 DEF Frame
<1>6. CASE pc[u] = "makeEvent"
  BY Zenon, <1>1, <1>2, <1>3, <1>6 DEF LaunchedOK
<1>7. CASE pc[u] = "spread"
  BY Zenon, <1>1, <1>2, <1>3, <1>5, <1>7 DEF LaunchedOK
<1>8. CASE pc[u] \in {"copied", "eventWait"}
  BY Zenon, <1>1, <1>2, <1>8 DEF LaunchedOK
<1>9. CASE pc[u] = "sync"
  BY Zenon, <1>1, <1>2, <1>4, <1>9 DEF LaunchedOK
<1> QED  BY Zenon, <1>1, <1>6, <1>7, <1>8, <1>9 DEF LaunchedOK

LEMMA FrameCalls ==
  ASSUME Inv, NEW t, Frame(t), NEW u \in Threads, u # t
  PROVE  CallOK(u)'
<1>1. /\ pc'[u] = pc[u] /\ call'[u] = call[u] /\ target'[u] = target[u]
      /\ scan'[u] = scan[u] /\ handles'[u] = handles[u]
      /\ launched \subseteq launched' /\ call[u].id \notin launched' \ launched
      /\ created \subseteq created' /\ issued \subseteq issued'
      /\ mutex = u => mutex' = u
      /\ calls \in Nat /\ calls' \in Nat /\ calls <= calls'
  BY Zenon DEF Frame, Grown
<1>2. CallOK(u)
  BY Zenon DEF Inv, CallsOK
<1>3. NeedsOK(u)' /\ LaunchedOK(u)'
  BY Zenon, FrameNeeds, FrameLaunched
<1>4. pc[u] \in Before => call[u].id \in 1 .. calls' /\ call[u].id \notin launched'
  BY <1>1, <1>2, CallIds DEF CallOK
<1>5. pc[u] \in Before \cup {"makeEvent", "spread", "copied"} =>
        call[u].id \in 1 .. calls' /\ kind'[call[u].id] = kind[call[u].id]
  <2>1. pc[u] \in Before \cup {"makeEvent", "spread", "copied"} =>
          call[u].id \in 1 .. calls /\ call[u].id \in Ids
    BY Zenon, <1>2, CallIds DEF CallOK
  <2> QED  BY <1>1, <2>1 DEF Frame
<1> QED  BY <1>1, <1>2, <1>3, <1>4, <1>5 DEF CallOK

\* What held of commands, lanes and events still holds.
LEMMA OrderKept ==
  ASSUME Inv, NEW t, Frame(t)
  PROVE  /\ \A i \in launched : \A n \in needs'[i] : Covers({i}, n)'
         /\ \A i \in launched : i \in done' \/ OnLane(0, i)'
         /\ \A s \in created : \A b \in Barriers : Covers(front[s], b)'
         /\ \A e \in issued : event'[e] = event[e] => Covers(event[e], e)'
         /\ ~InOrder /\ barrier' = barrier => \A b \in Barriers : Covers(barrier, b)'
<1>1. /\ Grown /\ Advanced /\ done \subseteq done' /\ created \subseteq created'
      /\ LanesOK /\ created \subseteq Bank /\ issued \subseteq launched
      /\ launched \subseteq Ids
  BY Zenon DEF Frame, Inv, BankOK, PromiseOK, LanesOK
<1>2. \A i \in launched : needs'[i] = needs[i]
  BY Zenon, BarriersKept
<1>3. \A F \in SUBSET launched : \A i : Covers(F, i) => Covers(F, i)'
  BY Zenon, <1>1, CoversKept
<1>4. \A l \in Bank : \A i : Covers(front[l], i) => Covers(front[l], i)'
  BY Zenon, <1>1, LaneKept
<1>5. \A n, i : OnLane(n, i) => OnLane(n, i)'
  BY Zenon, <1>1, OnLaneKept
<1>6. \A i \in launched : \A n \in needs'[i] : Covers({i}, n)'
  BY Zenon, <1>2, <1>3 DEF Inv, OrderOK
<1>7. \A i \in launched : i \in done' \/ OnLane(0, i)'
  BY Zenon, <1>1, <1>5 DEF Inv, OrderOK
<1>8. \A s \in created : \A b \in Barriers : Covers(front[s], b)'
  BY Zenon, <1>1, <1>4 DEF Inv, OrderOK
<1>9. \A e \in issued : event'[e] = event[e] => Covers(event[e], e)'
  BY Zenon, <1>1, <1>3 DEF Inv, EventsOK
<1>10. ~InOrder /\ barrier' = barrier => \A b \in Barriers : Covers(barrier, b)'
  BY Zenon, <1>3 DEF Inv, EventsOK
<1> QED  BY Zenon, <1>6, <1>7, <1>8, <1>9, <1>10

\* The launch of t is not the command of another call.
LEMMA OwnLaunch ==
  ASSUME Inv, NEW t \in Threads, launched' \subseteq launched \cup {call[t].id},
         LanesOK'
  PROVE  \A u \in Threads : u # t => call[u].id \notin launched' \ launched
<1>1. \A u \in Threads : u # t /\ call[u].id = call[t].id => call[u].id = 0
  BY Zenon DEF Inv, CallsOK
<1>2. 0 \notin launched'
  BY DEF LanesOK, Ids
<1> QED  BY Zenon, <1>1, <1>2

LEMMA CallsStep ==
  ASSUME Inv, NEW t \in Threads, Frame(t), CallOK(t)',
         pc' \in [Threads -> Labels], DOMAIN call' = Threads,
         target' \in [Threads -> Bank], scan' \in [Threads -> Nat],
         DOMAIN handles' = Threads,
         call'[t].id \in {0, call[t].id} \cup {calls + 1}
  PROVE  CallsOK'
<1>1. \A u \in Threads : CallOK(u)'
  BY Zenon, FrameCalls
<1>2. ASSUME NEW u \in Threads, NEW v \in Threads,
             call'[u].id = call'[v].id, call'[u].id # 0
      PROVE  u = v
  <2>1. \A w \in Threads : w # t => call'[w].id = call[w].id
    BY Zenon DEF Frame
  <2>2. \A w, x \in Threads : call[w].id = call[x].id /\ call[w].id # 0 => w = x
    BY Zenon DEF Inv, CallsOK
  <2>3. calls \in Nat /\ \A w \in Threads : call[w].id # calls + 1
    <3>1. \A w \in Threads : call[w].id \in 0 .. calls
      BY Zenon, CallIds
    <3> QED  BY <3>1 DEF Frame
  <2> QED  BY <1>2, <2>1, <2>2, <2>3
<1> QED  BY Zenon, <1>1, <1>2 DEF CallsOK

\* What a step has to establish: of the command it launches or issues and of the
\* lane it creates
Duties(id) ==
  /\ kind' = kind /\ needs' = needs /\ calls' = calls
  /\ issued' \subseteq issued \cup {id} /\ issued' \subseteq launched'
  /\ launched' \subseteq launched \cup {id}
  /\ id \in launched' \ launched =>
       /\ \A n \in needs[id] : Covers({id}, n)'
       /\ id \in done' \/ OnLane(0, id)'
       /\ id <= calls /\ kind[id] # "none"
  /\ \A s \in created' \ created : \A b \in Barriers : Covers(front[s], b)'
  /\ event' \in [Ids -> SUBSET launched']
  /\ \A e \in issued' : (e \in issued /\ event'[e] = event[e]) \/ Covers(event[e], e)'
  /\ barrier' \subseteq launched'
  /\ ~InOrder => \A b \in Barriers : Covers(barrier, b)'
  /\ id \in issued' \ issued /\ kind[id] = "barrier" =>
       /\ \A s \in created' : Covers(front[s], id)'
       /\ ~InOrder => Covers(barrier, id)'

LEMMA DutiesDone ==
  ASSUME Inv, NEW t, Frame(t), NEW id, Duties(id), LanesOK'
  PROVE  PromiseOK' /\ OrderOK' /\ EventsOK'
<1>1. /\ \A i \in launched : \A n \in needs'[i] : Covers({i}, n)'
      /\ \A i \in launched : i \in done' \/ OnLane(0, i)'
      /\ \A s \in created : \A b \in Barriers : Covers(front[s], b)'
      /\ \A e \in issued : event'[e] = event[e] => Covers(event[e], e)'
  BY Zenon, OrderKept
<1>2. PromiseOK'
  <2>1. issued \subseteq issued'
    BY Zenon DEF Frame
  <2>2. \A i \in launched' : i <= calls' /\ kind'[i] # "none"
    BY Zenon DEF Duties, Inv, PromiseOK
  <2>3. needs' \in [Ids -> SUBSET issued'] /\ issued' \subseteq launched'
    BY Zenon, <2>1 DEF Duties, Inv, PromiseOK
  <2> QED  BY Zenon, <2>2, <2>3 DEF Duties, Inv, PromiseOK
<1>3. Barriers' \subseteq Barriers \cup {id} /\ (id \in Barriers' \ Barriers =>
        id \in issued' \ issued /\ kind[id] = "barrier")
  BY Zenon DEF Barriers, Duties
<1>4. OrderOK'
  <2>1. \A i \in launched' : \A n \in needs'[i] : Covers({i}, n)'
    BY Zenon, <1>1 DEF Duties
  <2>2. \A i \in launched' : i \in done' \/ OnLane(0, i)'
    BY Zenon, <1>1 DEF Duties
  <2>3. ASSUME NEW s \in created', NEW b \in Barriers'
        PROVE  Covers(front[s], b)'
    <3>1. CASE b \in Barriers
      BY Zenon, <1>1, <3>1 DEF Duties
    <3>2. CASE b \notin Barriers
      <4>1. b = id /\ id \in issued' \ issued /\ kind[id] = "barrier"
        BY Zenon, <1>3, <3>2
      <4> QED  BY Zenon, <4>1 DEF Duties
    <3> QED  BY Zenon, <3>1, <3>2
  <2> QED  BY Zenon, <2>1, <2>2, <2>3 DEF OrderOK
<1>5. EventsOK'
  <2>1. \A e \in issued' : Covers(event[e], e)'
    BY Zenon, <1>1 DEF Duties
  <2>2. ~InOrder => \A b \in Barriers' : Covers(barrier, b)'
    BY Zenon, <1>3 DEF Duties
  <2> QED  BY Zenon, <2>1, <2>2 DEF Duties, EventsOK, InOrder
<1> QED  BY Zenon, <1>2, <1>4, <1>5

-----------------------------------------------------------------------------
\* The actions

\* Step t changes the place of no other thread.
Moves(t) ==
  /\ \A u \in Threads : u # t =>
       /\ pc'[u] = pc[u] /\ call'[u] = call[u] /\ target'[u] = target[u]
       /\ scan'[u] = scan[u] /\ handles'[u] = handles[u]
  /\ pc' \in [Threads -> Labels] /\ DOMAIN call' = Threads
  /\ target' \in [Threads -> Bank] /\ scan' \in [Threads -> Nat]
  /\ DOMAIN handles' = Threads

LEMMA ModFacts ==
  ASSUME NEW o \in Nat
  PROVE  /\ o % Slots \in Bank /\ o % Slots <= o
         /\ o < Slots => o % Slots = o
  BY SlotsAssumption, SMT DEF Bank

\* nextQueueNoLock: the lane it chooses covers every barrier that was issued.
LEMMA NextQueueFacts ==
  ASSUME Inv, NEW t \in Threads, NextQueueNoLock(t), NEW s, s = offset % Slots
  PROVE  /\ LanesOK' /\ BankOK' /\ Grown /\ Advanced
         /\ launched' = launched /\ done' = done
         /\ created' = created \cup {s} /\ s \in Bank
         /\ target' = [target EXCEPT ![t] = s]
         /\ \A F, i : Covers(F, i) => Covers(F, i)'
         /\ \A b \in Barriers : Covers(front[s], b)'
         /\ InOrder => \A i \in launched : Covers(front[s], i)'
<1>1. /\ LanesOK /\ created \subseteq Bank /\ offset \in Nat
      /\ \A r \in created : r < offset
      /\ \A r \in Bank : r < offset /\ r < Slots - 1 => r \in created
      /\ \A r \in Bank \ created : front[r] = {}
      /\ InOrder => created = {0}
      /\ barrier \in SUBSET launched
  BY Zenon DEF Inv, BankOK, EventsOK
<1>2. /\ s \in Bank /\ s <= offset /\ (offset < Slots => s = offset)
  BY Zenon, <1>1, ModFacts
<1>3. /\ offset' = offset + 1 /\ target' = [target EXCEPT ![t] = s]
      /\ created' = created \cup {s}
      /\ IF s \in created THEN UNCHANGED lanes ELSE WaitOn(s, barrier)
  BY Zenon DEF NextQueueNoLock
<1>4. /\ LanesOK' /\ Grown /\ Advanced /\ launched' = launched /\ done' = done
      /\ \A F, i : Covers(F, i) => Covers(F, i)'
      /\ \A r \in Bank \ {s} : front'[r] = front[r]
      /\ s \in created => front' = front
      /\ s \notin created => front'[s] = front[s] \cup barrier
  <2>1. CASE s \in created
    BY Zenon, <1>1, <1>3, <2>1, SameFacts
  <2>2. CASE s \notin created
    BY Zenon, <1>1, <1>2, <1>3, <2>2, WaitOnFacts
  <2> QED  BY Zenon, <2>1, <2>2
<1>5. InOrder => s = 0 /\ s \in created
  BY <1>1, <1>2 DEF InOrder, Bank
<1>6. BankOK'
  <2>1. created' \subseteq Bank /\ offset' \in Nat /\ \A r \in created' : r < offset'
    <3>1. created' \subseteq Bank /\ offset' \in Nat
      <4>1. offset \in Nat /\ offset' = offset + 1
        BY Zenon, <1>1, <1>3
      <4>2. offset' \in Nat
        BY <4>1
      <4>3. created \subseteq Bank /\ s \in Bank /\ created' = created \cup {s}
        BY Zenon, <1>1, <1>2, <1>3
      <4>4. created' \subseteq Bank
        BY Zenon, <4>3
      <4> QED  BY Zenon, <4>2, <4>4
    <3>2. ASSUME NEW r \in created'
          PROVE  r < offset'
      <4>1. r \in Nat
        BY <3>1, SlotsAssumption DEF Bank
      <4>2. r <= offset
        BY <1>1, <1>2, <1>3, <3>2, <4>1
      <4> QED  BY <1>1, <1>3, <4>1, <4>2
    <3> QED  BY Zenon, <3>1, <3>2
  <2>2. ASSUME NEW r \in Bank, r < offset', r < Slots - 1
        PROVE  r \in created'
    <3>1. r \in Nat /\ Slots \in Nat
      BY SlotsAssumption DEF Bank
    <3>2. r < offset \/ (r = offset /\ offset < Slots)
      BY <1>1, <1>3, <2>2, <3>1
    <3> QED  BY Zenon, <1>1, <1>2, <1>3, <2>2, <3>2
  <2>3. \A r \in Bank \ created' : front'[r] = {}
    BY Zenon, <1>1, <1>3, <1>4
  <2>4. InOrder => created' = {0}
    BY Zenon, <1>1, <1>3, <1>5
  <2> QED  BY Zenon, <2>1, <2>2, <2>3, <2>4 DEF BankOK, InOrder
<1>7. ASSUME NEW b \in Barriers
      PROVE  Covers(front[s], b)'
  <2>1. CASE s \in created
    <3>1. Covers(front[s], b)
      BY Zenon, <2>1 DEF Inv, OrderOK
    <3> QED  BY Zenon, <1>1, <1>2, <1>4, <3>1, LaneKept
  <2>2. CASE s \notin created
    <3>1. Covers(barrier, b)
      BY Zenon, <1>5, <2>2 DEF Inv, EventsOK
    <3>2. Covers(front[s] \cup barrier, b)
      BY Zenon, <3>1, Larger
    <3>3. front'[s] = front[s] \cup barrier
      BY Zenon, <1>4, <2>2
    <3> QED  BY Zenon, <1>4, <3>2, <3>3 DEF Covers
  <2> QED  BY Zenon, <2>1, <2>2
<1>8. ASSUME InOrder, NEW i \in launched
      PROVE  Covers(front[s], i)'
  <2>1. Covers(front[s], i)
    <3>1. CASE i \in done
      BY Zenon, <3>1, DoneCovered
    <3>2. CASE OnLane(0, i)
      BY Zenon, <1>1, <1>5, <1>8, <3>2 DEF OnLane
    <3> QED  BY Zenon, <3>1, <3>2 DEF Inv, OrderOK
  <2> QED  BY Zenon, <1>1, <1>2, <1>4, <2>1, LaneKept
<1> QED  BY Zenon, <1>2, <1>3, <1>4, <1>6, <1>7, <1>8

LEMMA CallFacts ==
  ASSUME Inv, NEW t \in Threads
  PROVE  /\ CallOK(t) /\ pc \in [Threads -> Labels] /\ DOMAIN call = Threads
         /\ target \in [Threads -> Bank] /\ scan \in [Threads -> Nat]
         /\ DOMAIN handles = Threads
  BY Zenon DEF Inv, CallsOK

\* What is left to show of a step that moves one thread
LEMMA StepInv ==
  ASSUME Inv, NEW t \in Threads, Moves(t), Frame(t), Duties(call[t].id),
         LanesOK', BankOK', CallOK(t)', call'[t].id \in {0, call[t].id}
  PROVE  Inv'
<1>1. PromiseOK' /\ OrderOK' /\ EventsOK'
  BY Zenon, DutiesDone
<1>2. CallsOK'
  BY Zenon, CallsStep DEF Moves
<1> QED  BY Zenon, <1>1, <1>2 DEF Inv

\* A walk over the bank goes one slot further.
LEMMA NextSlot ==
  ASSUME NEW t \in Threads, NEW s \in Nat, scan \in [Threads -> Nat],
         scan' = [scan EXCEPT ![t] = s + 1]
  PROVE  /\ scan' \in [Threads -> Nat]
         /\ \A u \in Threads : u # t => scan'[u] = scan[u]
<1>1. s + 1 \in Nat
  OBVIOUS
<1> QED  BY Zenon, <1>1

LEMMA PlainBank ==
  ASSUME Inv, created' = created, offset' = offset,
         \A s \in Bank \ created : front'[s] = front[s]
  PROVE  BankOK'
  BY Zenon DEF Inv, BankOK, InOrder

LEMMA PlainFrame ==
  ASSUME Inv, NEW t \in Threads, Moves(t), Grown, Advanced, LanesOK',
         launched' \subseteq launched \cup {call[t].id},
         done \subseteq done', created' = created, issued \subseteq issued',
         (mutex' = mutex /\ barrier' = barrier) \/ mutex = t,
         event' = event \/ \E F : event' = [event EXCEPT ![call[t].id] = F],
         UNCHANGED <<kind, needs, calls>>
  PROVE  Frame(t)
<1>1. \A u \in Threads : u # t => call[u].id \notin launched' \ launched
  BY Zenon, OwnLaunch
<1>2. \A u \in Threads : u # t /\ call[u].id # 0 => event'[call[u].id] = event[call[u].id]
  <2> SUFFICES ASSUME NEW u \in Threads, u # t, call[u].id # 0
               PROVE  event'[call[u].id] = event[call[u].id]
    BY Zenon
  <2>1. call[u].id # call[t].id /\ call[u].id \in Ids /\ event \in [Ids -> SUBSET launched]
    <3>1. call[u].id \in Ids
      BY Zenon, CallIds
    <3> QED  BY Zenon, <3>1 DEF Inv, CallsOK, EventsOK
  <2> QED  BY Zenon, <2>1
<1>3. calls \in Nat
  BY Zenon DEF Inv, PromiseOK
<1> QED  BY <1>1, <1>2, <1>3 DEF Frame, Moves

\* A step that launches and issues nothing
LEMMA PlainDuties ==
  ASSUME Inv, NEW t, Frame(t), NEW id, launched' = launched, created' = created,
         UNCHANGED <<barrier, event, kind, needs, issued, calls>>
  PROVE  Duties(id)
<1>1. ~InOrder /\ barrier' = barrier => \A b \in Barriers : Covers(barrier, b)'
  BY Zenon, OrderKept
<1> QED  BY Zenon, <1>1 DEF Duties, Inv, EventsOK, PromiseOK

LEMMA LeaveFacts ==
  ASSUME Inv, NEW t \in Threads, Leave(t)
  PROVE  Moves(t) /\ CallOK(t)' /\ call'[t].id = 0
<1>1. /\ pc' = [pc EXCEPT ![t] = "idle"] /\ call' = [call EXCEPT ![t] = NoCall]
      /\ target' = [target EXCEPT ![t] = 0] /\ scan' = [scan EXCEPT ![t] = 0]
      /\ handles' = [handles EXCEPT ![t] = {}]
  BY Zenon DEF Leave, Goto
<1>2. /\ pc \in [Threads -> Labels] /\ DOMAIN call = Threads
      /\ target \in [Threads -> Bank] /\ scan \in [Threads -> Nat]
      /\ DOMAIN handles = Threads /\ 0 \in Bank
  BY SlotsAssumption DEF Inv, CallsOK, Bank
<1>3. Moves(t)
  BY Zenon, <1>1, <1>2 DEF Moves, Labels
<1>4. /\ pc'[t] = "idle" /\ call'[t] = NoCall /\ target'[t] = 0
      /\ scan'[t] = 0 /\ handles'[t] = {}
  BY Zenon, <1>1, <1>2
<1>5. NeedsOK(t)' /\ LaunchedOK(t)'
  BY Zenon, <1>4 DEF NeedsOK, LaunchedOK
<1>6. CallOK(t)'
  BY <1>2, <1>4, <1>5 DEF CallOK, Labels, Before, Chosen, Locked, NoCall
<1> QED  BY <1>3, <1>4, <1>6 DEF NoCall

\* The loops over the bank end behind its last queue.
LEMMA EndOfBank ==
  ASSUME Inv, NEW t \in Threads, AtEnd(t)
  PROVE  \A r \in created : r < scan[t]
<1> SUFFICES ASSUME NEW r \in created, ~(r < scan[t])
             PROVE  FALSE
  BY Zenon
<1>1. /\ scan[t] \in Nat /\ scan[t] \notin created /\ r \in Bank /\ r < offset
      /\ \A s \in Bank : s < offset /\ s < Slots - 1 => s \in created
      /\ offset \in Nat
  BY Zenon DEF Inv, CallsOK, CallOK, BankOK, AtEnd
<1>2. r \in Nat /\ r <= Slots - 1 /\ Slots \in Nat
  BY <1>1, SlotsAssumption DEF Bank
<1>3. scan[t] < r
  BY <1>1, <1>2
<1>4. scan[t] \in Bank /\ scan[t] < offset /\ scan[t] < Slots - 1
  BY <1>1, <1>2, <1>3 DEF Bank
<1> QED  BY Zenon, <1>1, <1>4

LEMMA NowhereLeft ==
  ASSUME Inv, NEW t \in Threads, AtEnd(t), NEW i
  PROVE  ~OnLane(scan[t], i)
<1>1. \A r \in created : r < scan[t] /\ r \in Nat
  BY EndOfBank, SlotsAssumption DEF Inv, BankOK, Bank
<1>2. scan[t] \in Nat
  BY Zenon DEF Inv, CallsOK
<1> QED  BY <1>1, <1>2 DEF OnLane


LEMMA NextQueueInv ==
  ASSUME Inv, NEW t \in Threads, NextQueue(t)
  PROVE  Inv'
<1> DEFINE c == call[t]
<1>1. PICK s : s = offset % Slots
  BY Zenon
<1>2. /\ pc[t] = "next" /\ mutex = None /\ NextQueueNoLock(t)
      /\ pc' = [pc EXCEPT ![t] = IF c.list # {} THEN "waits" ELSE AfterWaits(t)]
      /\ UNCHANGED <<barrier, mutex, event, kind, needs, issued, calls, call, scan, handles>>
  BY Zenon DEF NextQueue, Goto, promise, bounds
<1>3. /\ LanesOK' /\ BankOK' /\ Grown /\ Advanced
      /\ launched' = launched /\ done' = done
      /\ created' = created \cup {s} /\ s \in Bank
      /\ target' = [target EXCEPT ![t] = s]
      /\ \A F, i : Covers(F, i) => Covers(F, i)'
      /\ \A b \in Barriers : Covers(front[s], b)'
      /\ InOrder => \A i \in launched : Covers(front[s], i)'
  BY Zenon, <1>1, <1>2, NextQueueFacts
<1>4. /\ CallOK(t) /\ pc \in [Threads -> Labels] /\ DOMAIN call = Threads
      /\ target \in [Threads -> Bank] /\ scan \in [Threads -> Nat]
      /\ DOMAIN handles = Threads
  BY Zenon DEF Inv, CallsOK
<1>5. Moves(t)
  BY Zenon, <1>2, <1>3, <1>4 DEF Moves, AfterWaits, Labels
<1>6. Frame(t)
  <2>1. calls \in Nat /\ \A u \in Threads : mutex # u
    BY Zenon, <1>2, NoneAssumption DEF Inv, PromiseOK
  <2> QED  BY <1>2, <1>3, <1>5, <2>1 DEF Frame, Moves
<1>7. Duties(c.id)
  <2>1. \A r \in created' \ created : r = s
    BY Zenon, <1>3
  <2> QED  BY Zenon, <1>2, <1>3, <2>1 DEF Duties, Inv, EventsOK, PromiseOK
<1>8. PromiseOK' /\ OrderOK' /\ EventsOK'
  BY Zenon, <1>3, <1>6, <1>7, DutiesDone
<1>9. /\ pc'[t] \in {"waits", "launch", "syncCopy"} /\ target'[t] = s
      /\ pc'[t] = "waits" <=> c.list # {}
      /\ pc'[t] = "launch" => c.op = "kernel"
      /\ pc'[t] = "syncCopy" => c.op = "copy"
      /\ call'[t] = c /\ scan'[t] = scan[t] /\ handles'[t] = handles[t]
  <2>1. c.op \in Commands
    BY Zenon, <1>2, <1>4 DEF CallOK
  <2> QED  BY Zenon, <1>2, <1>3, <1>4, <2>1 DEF AfterWaits, Commands
<1>10. /\ c.id \in 1 .. calls /\ c.id \notin launched /\ kind[c.id] = KindOf(c.op)
       /\ c.op \in Commands /\ c.owed = IF c.op = "copy" THEN {c.id} ELSE {}
       /\ c.list \subseteq issued /\ handles[t] \subseteq launched /\ scan[t] = 0
       /\ InOrder \/ needs[c.id] \subseteq c.list \cup Barriers
       /\ needs[c.id] \subseteq launched
  <2>1. c.id \in Ids
    BY Zenon, <1>2, CallIds DEF Before
  <2>2. needs[c.id] \subseteq launched
    BY Zenon, <2>1 DEF Inv, PromiseOK
  <2> QED  BY Zenon, <1>2, <1>4, <2>2 DEF CallOK, NeedsOK, Before, Commands, Waits
<1>11. \A i \in needs[c.id] \ c.list : Covers(front[s], i)'
  BY Zenon, <1>3, <1>10
<1>12. NeedsOK(t)'
  BY Zenon, <1>2, <1>9, <1>11 DEF NeedsOK
<1>13. LaunchedOK(t)'
  BY Zenon, <1>9 DEF LaunchedOK
<1>14. CallOK(t)'
  BY <1>2, <1>3, <1>9, <1>10, <1>12, <1>13
     DEF CallOK, Labels, Before, Chosen, Locked, Commands, Waits
<1> QED  BY Zenon, <1>3, <1>5, <1>6, <1>8, <1>9, <1>14, CallsStep DEF Inv, Moves

LEMMA LockWaitInv ==
  ASSUME Inv, NEW t \in Threads, LockWait(t)
  PROVE  Inv'
<1> DEFINE c == call[t]
<1>1. PICK s : s = offset % Slots
  BY Zenon
<1>2. /\ pc[t] = "lock" /\ mutex = None /\ mutex' = t /\ NextQueueNoLock(t)
      /\ pc' = [pc EXCEPT ![t] = IF c.list # {} THEN "waitList"
                                 ELSE IF InOrder THEN "signal" ELSE "gather"]
      /\ UNCHANGED <<barrier, event, kind, needs, issued, calls, call, scan, handles>>
  BY Zenon DEF LockWait, Goto, promise, bounds
<1>3. /\ LanesOK' /\ BankOK' /\ Grown /\ Advanced
      /\ launched' = launched /\ done' = done
      /\ created' = created \cup {s} /\ s \in Bank
      /\ target' = [target EXCEPT ![t] = s]
      /\ \A F, i : Covers(F, i) => Covers(F, i)'
      /\ \A b \in Barriers : Covers(front[s], b)'
      /\ InOrder => \A i \in launched : Covers(front[s], i)'
  BY Zenon, <1>1, <1>2, NextQueueFacts
<1>4. /\ CallOK(t) /\ pc \in [Threads -> Labels] /\ DOMAIN call = Threads
      /\ target \in [Threads -> Bank] /\ scan \in [Threads -> Nat]
      /\ DOMAIN handles = Threads
  BY Zenon DEF Inv, CallsOK
<1>5. Moves(t)
  BY Zenon, <1>2, <1>3, <1>4 DEF Moves, Labels
<1>6. Frame(t)
  <2>1. calls \in Nat /\ \A u \in Threads : mutex # u
    BY Zenon, <1>2, NoneAssumption DEF Inv, PromiseOK
  <2> QED  BY <1>2, <1>3, <1>5, <2>1 DEF Frame, Moves
<1>7. Duties(c.id)
  <2>1. \A r \in created' \ created : r = s
    BY Zenon, <1>3
  <2> QED  BY Zenon, <1>2, <1>3, <2>1 DEF Duties, Inv, EventsOK, PromiseOK
<1>8. PromiseOK' /\ OrderOK' /\ EventsOK'
  BY Zenon, <1>3, <1>6, <1>7, DutiesDone
<1>9. /\ pc'[t] \in {"waitList", "signal", "gather"} /\ target'[t] = s
      /\ pc'[t] = "waitList" <=> c.list # {}
      /\ pc'[t] = "signal" => InOrder
      /\ pc'[t] = "gather" => c.list = {} /\ ~InOrder
      /\ call'[t] = c /\ scan'[t] = scan[t] /\ handles'[t] = handles[t]
  BY Zenon, <1>2, <1>3, <1>4
<1>10. /\ c.id \in 1 .. calls /\ c.id \notin launched /\ kind[c.id] = KindOf(c.op)
       /\ c.op \in Waits /\ c.owed = IF c.op = "copy" THEN {c.id} ELSE {}
       /\ c.list \subseteq issued /\ handles[t] \subseteq launched /\ scan[t] = 0
       /\ InOrder \/ c.list = {} \/ needs[c.id] \subseteq c.list \cup Barriers
       /\ needs[c.id] \subseteq launched
  <2>1. c.id \in Ids
    BY Zenon, <1>2, CallIds DEF Before
  <2>2. needs[c.id] \subseteq launched
    BY Zenon, <2>1 DEF Inv, PromiseOK
  <2> QED  BY Zenon, <1>2, <1>4, <2>2 DEF CallOK, NeedsOK, Before, Commands, Waits
<1>11. pc'[t] # "gather" => \A i \in needs[c.id] \ c.list : Covers(front[s], i)'
  BY Zenon, <1>3, <1>9, <1>10
<1>12. \A i \in launched :
         Covers(handles[t] \cup front[target[t]], i)' \/ OnLane(scan[t], i)'
  <2> SUFFICES ASSUME NEW i \in launched
               PROVE  Covers(handles[t] \cup front[target[t]], i)' \/ OnLane(scan[t], i)'
    BY Zenon
  <2>1. i \in done' \/ OnLane(0, i)'
    BY Zenon, <1>3, <1>8 DEF OrderOK
  <2>2. CASE i \in done'
    BY Zenon, <2>2 DEF Covers, Closed
  <2>3. CASE OnLane(0, i)'
    BY Zenon, <1>9, <1>10, <2>3 DEF OnLane
  <2> QED  BY Zenon, <2>1, <2>2, <2>3
<1>13. NeedsOK(t)'
  <2>1. CASE pc'[t] = "waitList"
    BY Zenon, <1>2, <1>9, <1>11, <2>1 DEF NeedsOK
  <2>2. CASE pc'[t] = "signal"
    BY Zenon, <1>2, <1>9, <1>11, <2>2 DEF NeedsOK
  <2>3. CASE pc'[t] = "gather"
    BY Zenon, <1>2, <1>9, <1>10, <1>12, <2>3 DEF NeedsOK
  <2> QED  BY Zenon, <1>9, <2>1, <2>2, <2>3
<1>14. LaunchedOK(t)'
  BY ZenonT(30), <1>9 DEF LaunchedOK
<1>15. CallOK(t)'
  BY <1>2, <1>3, <1>9, <1>10, <1>13, <1>14
     DEF CallOK, Labels, Before, Chosen, Locked, Commands, Waits, InOrder
<1> QED  BY Zenon, <1>3, <1>5, <1>6, <1>8, <1>9, <1>15, CallsStep DEF Inv, Moves

\* The wait list is put on the lane: with it the lane covers all the command needs.
LEMMA ListFacts ==
  ASSUME Inv, NEW t \in Threads, pc[t] \in {"waits", "waitList"}, NEW l, l = target[t],
         WaitOn(l, EventsOf(call[t].list))
  PROVE  /\ LanesOK' /\ Grown /\ Advanced /\ launched' = launched /\ done' = done
         /\ l \in created /\ l \in Bank /\ \A s \in Bank \ {l} : front'[s] = front[s]
         /\ \A i \in needs[call[t].id] : Covers(front[l], i)'
<1> DEFINE list == call[t].list
           at == EventsOf(list)
<1>1. /\ list \subseteq issued /\ l \in created /\ l \in Bank
      /\ \A i \in needs[call[t].id] \ list : Covers(front[l], i)
  BY Zenon DEF Inv, CallsOK, CallOK, NeedsOK, Chosen
<1>2. /\ LanesOK /\ event \in [Ids -> SUBSET launched] /\ issued \subseteq Ids
      /\ \A e \in issued : Covers(event[e], e)
  BY Zenon DEF Inv, EventsOK, PromiseOK, LanesOK
<1>3. at \in SUBSET launched /\ \A e \in list : event[e] \subseteq at
  BY Zenon, <1>1, <1>2 DEF EventsOf
<1> HIDE DEF at
<1>4. /\ LanesOK' /\ Grown /\ Advanced /\ launched' = launched /\ done' = done
      /\ front'[l] = front[l] \cup at /\ \A s \in Bank \ {l} : front'[s] = front[s]
      /\ \A F, i : Covers(F, i) => Covers(F, i)'
  BY <1>1, <1>2, <1>3, WaitOnFacts DEF at
<1>5. ASSUME NEW i \in needs[call[t].id]
      PROVE  Covers(front[l], i)'
  <2>1. CASE i \in list
    <3>1. Covers(event[i], i) /\ event[i] \subseteq front[l] \cup at
      BY Zenon, <1>1, <1>2, <1>3, <2>1
    <3>2. Covers(front[l] \cup at, i)
      BY Zenon, <3>1, Larger
    <3> QED  BY Zenon, <1>4, <3>2 DEF Covers
  <2>2. CASE i \notin list
    <3>1. Covers(front[l], i)
      BY Zenon, <1>1, <2>2
    <3> QED  BY Zenon, <1>1, <1>2, <1>4, <3>1, LaneKept
  <2> QED  BY Zenon, <2>1, <2>2
<1> QED  BY Zenon, <1>1, <1>4, <1>5

LEMMA WaitOnEventsInv ==
  ASSUME Inv, NEW t \in Threads, WaitOnEvents(t)
  PROVE  Inv'
<1> DEFINE c == call[t]
<1>1. PICK l : l = target[t]
  BY Zenon
<1>2. /\ pc[t] = "waits" /\ WaitOn(l, EventsOf(c.list))
      /\ pc' = [pc EXCEPT ![t] = AfterWaits(t)]
      /\ UNCHANGED <<created, offset, barrier, mutex, event, kind, needs, issued, calls>>
      /\ UNCHANGED <<call, target, scan, handles>>
  BY Zenon, <1>1 DEF WaitOnEvents, Goto, bankVars, promise, bounds, locals
<1>3. /\ LanesOK' /\ Grown /\ Advanced /\ launched' = launched /\ done' = done
      /\ l \in created /\ l \in Bank /\ \A s \in Bank \ {l} : front'[s] = front[s]
      /\ \A i \in needs[c.id] : Covers(front[l], i)'
  BY Zenon, <1>1, <1>2, ListFacts
<1>4. /\ CallOK(t) /\ pc \in [Threads -> Labels] /\ DOMAIN call = Threads
      /\ target \in [Threads -> Bank] /\ scan \in [Threads -> Nat]
      /\ DOMAIN handles = Threads
  BY Zenon, CallFacts
<1>5. Moves(t)
  BY Zenon, <1>2, <1>4 DEF Moves, AfterWaits, Labels
<1>6. Frame(t)
  BY Zenon, <1>2, <1>3, <1>5, PlainFrame
<1>7. Duties(c.id)
  BY Zenon, <1>2, <1>3, <1>6, PlainDuties
<1>8. BankOK'
  BY Zenon, <1>2, <1>3, PlainBank
<1>9. /\ pc'[t] \in {"launch", "syncCopy"} /\ c.op \in Commands
      /\ pc'[t] = "launch" => c.op = "kernel"
      /\ pc'[t] = "syncCopy" => c.op = "copy"
  <2>1. c.op \in Commands
    BY Zenon, <1>2, <1>4 DEF CallOK
  <2> QED  BY Zenon, <1>2, <1>4, <2>1 DEF AfterWaits, Commands
<1>10. NeedsOK(t)'
  BY Zenon, <1>1, <1>2, <1>3, <1>9 DEF NeedsOK
<1>11. LaunchedOK(t)'
  BY Zenon, <1>9 DEF LaunchedOK
<1>12. CallOK(t)'
  BY Zenon, <1>1, <1>2, <1>3, <1>4, <1>9, <1>10, <1>11
     DEF CallOK, Labels, Before, Chosen, Locked, Commands, Waits
<1> QED  BY Zenon, <1>2, <1>3, <1>5, <1>6, <1>7, <1>8, <1>12, StepInv

LEMMA WaitOnListInv ==
  ASSUME Inv, NEW t \in Threads, WaitOnList(t)
  PROVE  Inv'
<1> DEFINE c == call[t]
<1>1. PICK l : l = target[t]
  BY Zenon
<1>2. /\ pc[t] = "waitList" /\ WaitOn(l, EventsOf(c.list))
      /\ pc' = [pc EXCEPT ![t] = "signal"]
      /\ UNCHANGED <<created, offset, barrier, mutex, event, kind, needs, issued, calls>>
      /\ UNCHANGED <<call, target, scan, handles>>
  BY Zenon, <1>1 DEF WaitOnList, Goto, bankVars, promise, bounds, locals
<1>3. /\ LanesOK' /\ Grown /\ Advanced /\ launched' = launched /\ done' = done
      /\ l \in created /\ l \in Bank /\ \A s \in Bank \ {l} : front'[s] = front[s]
      /\ \A i \in needs[c.id] : Covers(front[l], i)'
  BY Zenon, <1>1, <1>2, ListFacts
<1>4. /\ CallOK(t) /\ pc \in [Threads -> Labels] /\ DOMAIN call = Threads
      /\ target \in [Threads -> Bank] /\ scan \in [Threads -> Nat]
      /\ DOMAIN handles = Threads
  BY Zenon, CallFacts
<1>5. Moves(t)
  BY Zenon, <1>2, <1>4 DEF Moves, Labels
<1>6. Frame(t)
  BY Zenon, <1>2, <1>3, <1>5, PlainFrame
<1>7. Duties(c.id)
  BY Zenon, <1>2, <1>3, <1>6, PlainDuties
<1>8. BankOK'
  BY Zenon, <1>2, <1>3, PlainBank
<1>9. pc'[t] = "signal"
  BY Zenon, <1>2, <1>4
<1>10. NeedsOK(t)'
  BY Zenon, <1>1, <1>2, <1>3, <1>9 DEF NeedsOK
<1>11. LaunchedOK(t)'
  BY Zenon, <1>9 DEF LaunchedOK
<1>12. CallOK(t)'
  BY Zenon, <1>1, <1>2, <1>3, <1>4, <1>9, <1>10, <1>11
     DEF CallOK, Labels, Before, Chosen, Locked, Commands, Waits
<1> QED  BY Zenon, <1>2, <1>3, <1>5, <1>6, <1>7, <1>8, <1>12, StepInv

\* What holds once the command id of thread t has been put on lane l
PutOn(t, l, id) ==
  /\ LanesOK' /\ Grown /\ Advanced
  /\ launched' = launched \cup {id} /\ done' = done /\ id \in Ids \ launched
  /\ l \in created /\ l \in Bank /\ \A s \in Bank \ {l} : front'[s] = front[s]
  /\ front'[l] = {id} /\ Covers({id}, id)' /\ OnLane(0, id)'
  /\ id <= calls /\ kind[id] # "none" /\ kind[id] = KindOf(call[t].op)
  /\ \A n \in needs[id] : Covers({id}, n)'
  /\ \A b \in Barriers : Covers({id}, b)'

\* The command of a call is put on the lane the call has chosen.
LEMMA LaunchFacts ==
  ASSUME Inv, NEW t \in Threads, pc[t] \in {"launch", "signal"}, NEW l, l = target[t],
         NEW id, id = call[t].id, Put(id, l), created' = created
  PROVE  PutOn(t, l, id)
<1>1. /\ LanesOK /\ CallOK(t) /\ l \in created /\ l \in Bank
      /\ \A i \in needs[id] : Covers(front[l], i)
      /\ \A b \in Barriers : Covers(front[l], b)
  BY Zenon DEF Inv, CallsOK, CallOK, NeedsOK, Chosen, OrderOK
<1>2. id \in Ids \ launched
  BY Zenon, CallIds DEF Before
<1>3. /\ LanesOK' /\ Grown /\ Advanced
      /\ launched' = launched \cup {id} /\ done' = done
      /\ front'[l] = {id} /\ \A s \in Bank \ {l} : front'[s] = front[s]
      /\ \A i : Covers(front[l], i) => Covers({id}, i)'
      /\ Covers({id}, id)'
  BY Zenon, <1>1, <1>2, PutFacts
<1>4. OnLane(0, id)'
  <2>1. Covers(front[l], id)'
    BY Zenon, <1>3 DEF Covers
  <2>2. l >= 0
    BY <1>1 DEF Bank
  <2> QED  BY Zenon, <1>1, <2>1, <2>2 DEF OnLane
<1>5. id <= calls /\ kind[id] # "none" /\ kind[id] = KindOf(call[t].op)
  <2>1. id \in 1 .. calls /\ kind[id] = KindOf(call[t].op)
        /\ call[t].op \in Commands \cup Waits
    BY Zenon, <1>1 DEF CallOK, Before
  <2>2. KindOf(call[t].op) # "none"
    BY Zenon, <2>1 DEF KindOf, Commands, Waits
  <2> QED  BY <2>1, <2>2 DEF Inv, PromiseOK
<1> QED  BY Zenon, <1>1, <1>2, <1>3, <1>4, <1>5 DEF PutOn

LEMMA LaunchInv ==
  ASSUME Inv, NEW t \in Threads, Launch(t)
  PROVE  Inv'
<1>1. PICK l, id : l = target[t] /\ id = call[t].id
  BY Zenon
<1>2. /\ pc[t] = "launch" /\ Put(id, l) /\ pc' = [pc EXCEPT ![t] = "makeEvent"]
      /\ UNCHANGED <<created, offset, barrier, mutex, event, kind, needs, issued, calls>>
      /\ UNCHANGED <<call, target, scan, handles>>
  BY Zenon, <1>1 DEF Launch, Goto, bankVars, promise, bounds, locals
<1>3. /\ LanesOK' /\ Grown /\ Advanced
      /\ launched' = launched \cup {id} /\ done' = done /\ id \in Ids \ launched
      /\ l \in created /\ l \in Bank /\ \A s \in Bank \ {l} : front'[s] = front[s]
      /\ front'[l] = {id} /\ Covers({id}, id)' /\ OnLane(0, id)'
      /\ id <= calls /\ kind[id] # "none" /\ kind[id] = KindOf(call[t].op)
      /\ \A n \in needs[id] : Covers({id}, n)'
      /\ \A b \in Barriers : Covers({id}, b)'
  <2>1. pc[t] \in {"launch", "signal"} /\ created' = created
    BY Zenon, <1>2
  <2>2. PutOn(t, l, id)
    BY Zenon, <1>1, <1>2, <2>1, LaunchFacts
  <2> QED  BY Zenon, <2>2 DEF PutOn
<1>4. /\ CallOK(t) /\ pc \in [Threads -> Labels] /\ DOMAIN call = Threads
      /\ target \in [Threads -> Bank] /\ scan \in [Threads -> Nat]
      /\ DOMAIN handles = Threads
  BY Zenon, CallFacts
<1>5. Moves(t)
  BY Zenon, <1>2, <1>4 DEF Moves, Labels
<1>6. Frame(t)
  BY Zenon, <1>1, <1>2, <1>3, <1>5, PlainFrame
<1>7. Duties(id)
  <2>1. ~InOrder /\ barrier' = barrier => \A b \in Barriers : Covers(barrier, b)'
    BY Zenon, <1>6, OrderKept
  <2> QED  BY Zenon, <1>2, <1>3, <2>1 DEF Duties, Inv, EventsOK, PromiseOK
<1>8. BankOK'
  BY Zenon, <1>2, <1>3, PlainBank
<1>9. pc'[t] = "makeEvent"
  BY Zenon, <1>2, <1>4
<1>10. NeedsOK(t)'
  BY Zenon, <1>9 DEF NeedsOK
<1>11. LaunchedOK(t)'
  <2>1. Covers(front[l], id)'
    BY Zenon, <1>3 DEF Covers
  <2> QED  BY Zenon, <1>1, <1>2, <1>3, <1>9, <2>1 DEF LaunchedOK
<1>12. CallOK(t)'
  BY Zenon, <1>1, <1>2, <1>3, <1>4, <1>9, <1>10, <1>11
     DEF CallOK, Labels, Before, Chosen, Locked
<1> QED  BY Zenon, <1>1, <1>2, <1>3, <1>5, <1>6, <1>7, <1>8, <1>12, StepInv

LEMMA MakeEventInv ==
  ASSUME Inv, NEW t \in Threads, MakeEvent(t)
  PROVE  Inv'
<1>1. PICK l, id : l = target[t] /\ id = call[t].id
  BY Zenon
<1>2. id \in Ids /\ id # 0 /\ id \in launched /\ l \in Bank /\ Covers(front[l], id)
      /\ kind[id] = "plain"
  <2>1. CallOK(t) /\ pc[t] = "makeEvent"
    BY Zenon DEF Inv, CallsOK, MakeEvent
  <2> QED  BY Zenon, <1>1, <2>1, CallIds DEF CallOK, LaunchedOK, KindOf, Commands
<1>3. /\ Leave(t) /\ event' = [event EXCEPT ![id] = front[l]]
      /\ issued' = issued \cup {id}
      /\ UNCHANGED <<created, offset, barrier, mutex, kind, needs, calls>>
      /\ UNCHANGED lanes
  BY Zenon, <1>1, <1>2 DEF MakeEvent, ReturnOk, bankVars, bounds
<1>4. /\ LanesOK' /\ Grown /\ Advanced /\ LanesOK
      /\ launched' = launched /\ done' = done /\ front' = front
      /\ \A F, i : Covers(F, i) => Covers(F, i)'
  BY Zenon, <1>3, SameFacts DEF Inv
<1>5. Moves(t) /\ CallOK(t)' /\ call'[t].id = 0
  BY Zenon, <1>3, LeaveFacts
<1>6. Frame(t)
  BY Zenon, <1>1, <1>3, <1>4, <1>5, PlainFrame
<1>7. BankOK'
  BY Zenon, <1>3, <1>4, PlainBank
<1>8. Duties(id)
  <2>1. ~InOrder /\ barrier' = barrier => \A b \in Barriers : Covers(barrier, b)'
    BY Zenon, <1>6, OrderKept
  <2>2. /\ event \in [Ids -> SUBSET launched] /\ front[l] \subseteq launched
        /\ barrier \subseteq launched /\ issued \subseteq launched
    BY Zenon, <1>2, <1>4 DEF Inv, EventsOK, LanesOK, PromiseOK
  <2>3. event'[id] = front[l] /\ \A e \in Ids \ {id} : event'[e] = event[e]
    BY Zenon, <1>2, <1>3, <2>2
  <2>4. Covers(event[id], id)'
    BY Zenon, <1>2, <1>4, <2>3 DEF Covers
  <2>5. event' \in [Ids -> SUBSET launched'] /\ issued \subseteq Ids
    BY Zenon, <1>3, <1>4, <2>2 DEF LanesOK
  <2> QED  BY Zenon, <1>2, <1>3, <1>4, <2>1, <2>2, <2>3, <2>4, <2>5 DEF Duties
<1> QED  BY Zenon, <1>1, <1>4, <1>5, <1>6, <1>7, <1>8, StepInv

\* The refusals: nothing but the place of the thread and the offset change.
LEMMA LeaveInv ==
  ASSUME Inv, NEW t \in Threads, Leave(t), UNCHANGED lanes, BankOK', created' = created,
         UNCHANGED <<barrier, mutex, event, kind, needs, issued, calls>>
  PROVE  Inv'
<1>1. /\ LanesOK' /\ Grown /\ Advanced /\ launched' = launched /\ done' = done
  BY Zenon, SameFacts DEF Inv
<1>2. Moves(t) /\ CallOK(t)' /\ call'[t].id = 0
  BY Zenon, LeaveFacts
<1>3. Frame(t)
  BY Zenon, <1>1, <1>2, PlainFrame
<1>4. Duties(call[t].id)
  BY Zenon, <1>1, <1>3, PlainDuties
<1> QED  BY Zenon, <1>1, <1>2, <1>3, <1>4, StepInv

\* A queue that cannot be created is the last one.
LEMMA FailsInv ==
  ASSUME Inv, FailSlots \subseteq {Slots - 1}, NEW t \in Threads,
         NextQueueFails(t), UNCHANGED mutex
  PROVE  Inv'
<1>1. PICK s : s = offset % Slots
  BY Zenon
<1>2. /\ s = Slots - 1 /\ offset' = offset + 1 /\ Leave(t) /\ created' = created
      /\ UNCHANGED lanes /\ UNCHANGED <<barrier, event, kind, needs, issued, calls>>
      /\ s \notin created
  BY Zenon, <1>1 DEF NextQueueFails, ReturnError, promise
<1>3. /\ created \subseteq Bank /\ offset \in Nat
      /\ \A r \in created : r < offset
      /\ \A r \in Bank : r < offset /\ r < Slots - 1 => r \in created
      /\ \A r \in Bank \ created : front[r] = {}
      /\ InOrder => created = {0}
  BY Zenon DEF Inv, BankOK
<1>4. s \in Bank /\ (offset < Slots => s = offset)
  BY Zenon, <1>1, <1>3, ModFacts
<1>5. BankOK'
  <2>1. ASSUME NEW r \in created
        PROVE  r < offset'
    <3>1. r < offset /\ r \in Nat /\ offset \in Nat /\ offset' = offset + 1
      BY <1>2, <1>3, SlotsAssumption DEF Bank
    <3> QED  BY <3>1
  <2>2. ASSUME NEW r \in Bank, r < offset', r < Slots - 1
        PROVE  r \in created
    <3>1. r \in Nat /\ Slots \in Nat /\ offset \in Nat /\ offset' = offset + 1
      BY <1>2, <1>3, SlotsAssumption DEF Bank
    <3>2. r < offset
      <4>1. CASE r = offset
        BY <1>2, <1>4, <2>2, <3>1, <4>1
      <4> QED  BY <2>2, <3>1, <4>1
    <3> QED  BY Zenon, <1>3, <2>2, <3>2
  <2>3. offset' \in Nat
    BY <1>2, <1>3
  <2>4. front' = front
    BY Zenon, <1>2 DEF lanes
  <2> QED  BY Zenon, <1>2, <1>3, <2>1, <2>2, <2>3, <2>4 DEF BankOK, InOrder
<1> QED  BY Zenon, <1>2, <1>5, LeaveInv

LEMMA ErrorInv ==
  ASSUME Inv, FailSlots \subseteq {Slots - 1}, NEW t \in Threads, Error(t)
  PROVE  Inv'
<1>1. CASE NextQueueError(t) \/ LockWaitError(t)
  BY Zenon, <1>1, FailsInv DEF NextQueueError, LockWaitError
<1>2. CASE RejectLaunch(t)
  <2>1. /\ Leave(t) /\ UNCHANGED lanes
        /\ UNCHANGED <<created, offset, barrier, mutex, event, kind, needs, issued, calls>>
    BY Zenon, <1>2 DEF RejectLaunch, ReturnError, bankVars, promise
  <2>2. BankOK'
    BY Zenon, <2>1, PlainBank DEF lanes
  <2> QED  BY Zenon, <2>1, <2>2, LeaveInv
<1> QED  BY Zenon, <1>1, <1>2 DEF Error

\* olSyncQueue before the copy: all the copy needs is done.
LEMMA SyncCopyInv ==
  ASSUME Inv, NEW t \in Threads, SyncCopy(t)
  PROVE  Inv'
<1> DEFINE c == call[t]
<1>1. PICK l : l = target[t]
  BY Zenon
<1>2. /\ pc[t] = "syncCopy" /\ front[l] \subseteq done
      /\ pc' = [pc EXCEPT ![t] = "hostCopy"] /\ UNCHANGED lanes
      /\ UNCHANGED <<created, offset, barrier, mutex, event, kind, needs, issued, calls>>
      /\ UNCHANGED <<call, target, scan, handles>>
  BY Zenon, <1>1 DEF SyncCopy, Drained, Goto, bankVars, promise, bounds, locals
<1>3. /\ LanesOK /\ LanesOK' /\ Grown /\ Advanced
      /\ launched' = launched /\ done' = done /\ front' = front
  BY Zenon, <1>2, SameFacts DEF Inv
<1>4. /\ CallOK(t) /\ pc \in [Threads -> Labels] /\ DOMAIN call = Threads
      /\ target \in [Threads -> Bank] /\ scan \in [Threads -> Nat]
      /\ DOMAIN handles = Threads
  BY Zenon, CallFacts
<1>5. Moves(t)
  BY Zenon, <1>2, <1>4 DEF Moves, Labels
<1>6. Frame(t)
  BY Zenon, <1>2, <1>3, <1>5, PlainFrame
<1>7. Duties(c.id)
  BY Zenon, <1>2, <1>3, <1>6, PlainDuties
<1>8. BankOK'
  BY Zenon, <1>2, <1>3, PlainBank
<1>9. pc'[t] = "hostCopy"
  BY Zenon, <1>2, <1>4
<1>10. needs[c.id] \subseteq done
  <2>1. \A i \in needs[c.id] : Covers(front[l], i)
    BY Zenon, <1>1, <1>2, <1>4 DEF CallOK, NeedsOK
  <2> QED  BY Zenon, <1>2, <1>3, <2>1, DoneClosed
<1>11. NeedsOK(t)'
  BY Zenon, <1>2, <1>3, <1>9, <1>10 DEF NeedsOK
<1>12. LaunchedOK(t)'
  BY Zenon, <1>9 DEF LaunchedOK
<1>13. CallOK(t)'
  BY Zenon, <1>2, <1>3, <1>4, <1>9, <1>11, <1>12
     DEF CallOK, Labels, Before, Chosen, Locked, Commands, Waits
<1> QED  BY Zenon, <1>2, <1>3, <1>5, <1>6, <1>7, <1>8, <1>13, StepInv

LEMMA HostCopyInv ==
  ASSUME Inv, NEW t \in Threads, HostCopy(t)
  PROVE  Inv'
<1>1. PICK id : id = call[t].id
  BY Zenon
<1>2. /\ pc[t] = "hostCopy" /\ RunOnHost(id) /\ pc' = [pc EXCEPT ![t] = "copied"]
      /\ UNCHANGED <<created, offset, barrier, mutex, event, kind, needs, issued, calls>>
      /\ UNCHANGED <<call, target, scan, handles>>
  BY Zenon, <1>1 DEF HostCopy, Goto, bankVars, promise, bounds, locals
<1>3. /\ CallOK(t) /\ pc \in [Threads -> Labels] /\ DOMAIN call = Threads
      /\ target \in [Threads -> Bank] /\ scan \in [Threads -> Nat]
      /\ DOMAIN handles = Threads
  BY Zenon, CallFacts
<1>4. id \in Ids \ launched /\ id <= calls /\ needs[id] \subseteq done /\ kind[id] = "plain"
  <2>1. id \in Ids \ launched
    BY Zenon, <1>1, <1>2, CallIds DEF Before
  <2>2. id \in 1 .. calls /\ needs[id] \subseteq done /\ kind[id] = "plain"
    BY Zenon, <1>1, <1>2, <1>3 DEF CallOK, NeedsOK, Before, KindOf, Commands
  <2> QED  BY <2>1, <2>2 DEF Inv, PromiseOK
<1>5. /\ LanesOK' /\ Grown /\ Advanced
      /\ launched' = launched \cup {id} /\ done' = done \cup {id} /\ front' = front
  BY Zenon, <1>2, <1>4, HostFacts DEF Inv
<1>6. Moves(t)
  BY Zenon, <1>2, <1>3 DEF Moves, Labels
<1>7. Frame(t)
  BY Zenon, <1>1, <1>2, <1>5, <1>6, PlainFrame
<1>8. Duties(id)
  <2>1. ~InOrder /\ barrier' = barrier => \A b \in Barriers : Covers(barrier, b)'
    BY Zenon, <1>7, OrderKept
  <2>2. \A n \in needs[id] : Covers({id}, n)'
    BY Zenon, <1>4, <1>5 DEF Covers, Closed
  <2> QED  BY Zenon, <1>2, <1>4, <1>5, <2>1, <2>2 DEF Duties, Inv, EventsOK, PromiseOK
<1>9. BankOK'
  BY Zenon, <1>2, <1>5, PlainBank
<1>10. pc'[t] = "copied"
  BY Zenon, <1>2, <1>3
<1>11. NeedsOK(t)'
  BY Zenon, <1>10 DEF NeedsOK
<1>12. LaunchedOK(t)'
  BY Zenon, <1>1, <1>2, <1>5, <1>10 DEF LaunchedOK
<1>13. CallOK(t)'
  BY Zenon, <1>2, <1>3, <1>5, <1>10, <1>11, <1>12
     DEF CallOK, Labels, Before, Chosen, Locked, Commands, Waits
<1> QED  BY Zenon, <1>1, <1>2, <1>5, <1>6, <1>7, <1>8, <1>9, <1>13, StepInv

\* The returns that leave the lanes alone
LEMMA ReturnInv ==
  ASSUME Inv, NEW t \in Threads,
         ReturnCopy(t) \/ EndSpread(t) \/ EndSync(t) \/ EventWait(t)
  PROVE  Inv'
<1>1. PICK id : id = call[t].id
  BY Zenon
<1>2. /\ Leave(t) /\ UNCHANGED lanes
      /\ issued' = IF id = 0 THEN issued ELSE issued \cup {id}
      /\ UNCHANGED <<created, offset, barrier, event, kind, needs, calls>>
      /\ pc[t] \in {"copied", "spread", "sync", "eventWait"}
  BY Zenon, <1>1 DEF ReturnCopy, EndSpread, EndSync, EventWait, ReturnOk, bankVars, bounds
<1>3. CallOK(t)
  BY Zenon, CallFacts
<1>4. mutex' = mutex \/ mutex = t
  BY Zenon, <1>3 DEF ReturnCopy, EndSpread, EndSync, EventWait, bankVars, CallOK, Locked
<1>5. /\ LanesOK' /\ Grown /\ Advanced /\ launched' = launched /\ done' = done
      /\ front' = front
      /\ \A F, i : Covers(F, i) => Covers(F, i)'
  BY Zenon, <1>2, SameFacts DEF Inv
<1>6. Moves(t) /\ CallOK(t)' /\ call'[t].id = 0
  BY Zenon, <1>2, LeaveFacts
<1>7. Frame(t)
  BY Zenon, <1>2, <1>4, <1>5, <1>6, PlainFrame
<1>8. BankOK'
  BY Zenon, <1>2, <1>5, PlainBank
<1>9. id # 0 =>
        /\ id \in launched /\ Covers(event[id], id)'
        /\ kind[id] = "barrier" =>
             /\ \A s \in created : Covers(front[s], id)'
             /\ Covers(barrier, id)'
  <2>1. CASE pc[t] = "copied"
    <3>1. id \in done /\ kind[id] = "plain"
      BY Zenon, <1>1, <1>3, <2>1 DEF CallOK, LaunchedOK, KindOf, Commands
    <3>2. id \in launched
      BY Zenon, <3>1 DEF Inv, LanesOK
    <3>3. Covers(event[id], id)'
      BY Zenon, <1>5, <3>1 DEF Covers, Closed
    <3> QED  BY Zenon, <3>1, <3>2, <3>3
  <2>2. CASE pc[t] = "spread"
    <3>1. AtEnd(t)
      BY Zenon, <2>2 DEF ReturnCopy, EndSpread, EndSync, EventWait
    <3>2. \A s \in created : s < scan[t]
      BY Zenon, <3>1, EndOfBank
    <3>3. /\ id \in launched /\ barrier = {id} /\ event[id] = {id}
          /\ \A s \in created : Covers(front[s], id)
      BY Zenon, <1>1, <1>3, <2>2, <3>2 DEF CallOK, LaunchedOK
    <3>4. Covers({id}, id)
      BY Zenon DEF Covers
    <3>5. Covers({id}, id)'
      BY Zenon, <1>5, <3>4
    <3>6. \A s \in created : Covers(front[s], id)'
      BY Zenon, <1>5, <3>3 DEF Covers
    <3> QED  BY Zenon, <1>2, <3>3, <3>5, <3>6 DEF Covers
  <2>3. CASE pc[t] \in {"sync", "eventWait"}
    BY Zenon, <1>1, <1>3, <2>3 DEF CallOK
  <2> QED  BY Zenon, <1>2, <2>1, <2>2, <2>3
<1>10. Duties(id)
  <2>1. ~InOrder /\ barrier' = barrier => \A b \in Barriers : Covers(barrier, b)'
    BY Zenon, <1>7, OrderKept
  <2>2. 0 \notin issued
    BY DEF Inv, PromiseOK, LanesOK, Ids
  <2> QED  BY Zenon, <1>2, <1>5, <1>9, <2>1, <2>2 DEF Duties, Inv, EventsOK, PromiseOK
<1> QED  BY Zenon, <1>1, <1>5, <1>6, <1>7, <1>8, <1>10, StepInv

\* An event on a queue that is not the call's own takes its place among the handles.
LEMMA GatherInv ==
  ASSUME Inv, NEW t \in Threads, Gather(t)
  PROVE  Inv'
<1> DEFINE c == call[t]
<1>1. PICK s, l, H : /\ s = scan[t] /\ l = target[t]
                     /\ H = IF s = l THEN handles[t] ELSE handles[t] \cup front[s]
  BY Zenon
<1>2. /\ CallOK(t) /\ pc \in [Threads -> Labels] /\ DOMAIN call = Threads
      /\ target \in [Threads -> Bank] /\ scan \in [Threads -> Nat]
      /\ DOMAIN handles = Threads
  BY Zenon, CallFacts
<1>3. /\ pc[t] = "gather" /\ s \in created /\ UNCHANGED lanes
      /\ scan' = [scan EXCEPT ![t] = s + 1]
      /\ UNCHANGED <<created, offset, barrier, mutex, event, kind, needs, issued, calls>>
      /\ UNCHANGED <<pc, call, target>>
  BY Zenon, <1>1 DEF Gather, AtEnd, bankVars, promise, bounds
<1>4. /\ handles'[t] = H /\ DOMAIN handles' = Threads
      /\ \A u \in Threads : u # t => handles'[u] = handles[u]
  BY Zenon, <1>1, <1>2 DEF Gather
<1>5. /\ LanesOK /\ LanesOK' /\ Grown /\ Advanced
      /\ launched' = launched /\ done' = done /\ front' = front
      /\ \A F, i : Covers(F, i) => Covers(F, i)'
  BY Zenon, <1>3, SameFacts DEF Inv
<1>6. s \in Nat /\ s \in Bank /\ l \in Bank /\ handles[t] \subseteq launched
      /\ front[s] \subseteq launched
  BY Zenon, <1>1, <1>2, <1>3, <1>5 DEF CallOK, Inv, BankOK, LanesOK
<1>7. Moves(t)
  BY Zenon, <1>2, <1>3, <1>4, <1>6, NextSlot DEF Moves
<1>8. Frame(t)
  BY Zenon, <1>3, <1>5, <1>7, PlainFrame
<1>9. Duties(c.id)
  BY Zenon, <1>3, <1>5, <1>8, PlainDuties
<1>10. BankOK'
  BY Zenon, <1>3, <1>5, PlainBank
<1>11. pc'[t] = "gather" /\ call'[t] = c /\ target'[t] = l /\ scan'[t] = s + 1
  BY Zenon, <1>1, <1>2, <1>3
<1>12. \A i \in needs[c.id] : Covers(H \cup front[l], i) \/ OnLane(s + 1, i)
  <2> SUFFICES ASSUME NEW i \in needs[c.id], ~OnLane(s + 1, i)
               PROVE  Covers(H \cup front[l], i)
    BY Zenon
  <2>1. Covers(handles[t] \cup front[l], i) \/ OnLane(s, i)
    BY Zenon, <1>1, <1>2, <1>3 DEF CallOK, NeedsOK
  <2>2. CASE Covers(handles[t] \cup front[l], i)
    <3>1. handles[t] \cup front[l] \subseteq H \cup front[l]
      BY Zenon, <1>1
    <3> QED  BY Zenon, <2>2, <3>1, Larger
  <2>3. CASE OnLane(s, i)
    <3>1. PICK r \in created : r >= s /\ Covers(front[r], i)
      BY Zenon, <2>3 DEF OnLane
    <3>2. r \in Nat
      BY SlotsAssumption DEF Inv, BankOK, Bank
    <3>3. ~(r >= s + 1)
      BY Zenon, <3>1 DEF OnLane
    <3>4. r = s
      BY <1>6, <3>1, <3>2, <3>3
    <3>5. front[r] \subseteq H \cup front[l]
      BY Zenon, <1>1, <3>4
    <3> QED  BY Zenon, <3>1, <3>5, Larger
  <2> QED  BY Zenon, <2>1, <2>2, <2>3
<1>13. NeedsOK(t)'
  <2>1. \A i \in needs[c.id] : Covers(handles[t] \cup front[target[t]], i)' \/ OnLane(scan[t], i)'
    <3> SUFFICES ASSUME NEW i \in needs[c.id]
                 PROVE  Covers(handles[t] \cup front[target[t]], i)' \/ OnLane(scan[t], i)'
      BY Zenon
    <3>1. CASE Covers(H \cup front[l], i)
      BY Zenon, <1>4, <1>5, <1>11, <3>1 DEF Covers
    <3>2. CASE OnLane(s + 1, i)
      BY Zenon, <1>3, <1>5, <1>11, <3>2 DEF OnLane
    <3> QED  BY Zenon, <1>12, <3>1, <3>2
  <2> QED  BY Zenon, <1>3, <1>11, <2>1 DEF NeedsOK
<1>14. LaunchedOK(t)'
  BY ZenonT(30), <1>11 DEF LaunchedOK
<1>15. CallOK(t)'
  BY <1>1, <1>2, <1>3, <1>4, <1>5, <1>6, <1>11, <1>13, <1>14
     DEF CallOK, Labels, Before, Chosen, Locked, Commands, Waits, InOrder
<1> QED  BY Zenon, <1>3, <1>5, <1>7, <1>8, <1>9, <1>10, <1>11, <1>15, StepInv

\* With the handles the lane of the call covers all that was launched before.
LEMMA GatheredInv ==
  ASSUME Inv, NEW t \in Threads, Gathered(t)
  PROVE  Inv'
<1> DEFINE c == call[t]
<1>1. PICK l, H : l = target[t] /\ H = handles[t]
  BY Zenon
<1>2. /\ CallOK(t) /\ pc \in [Threads -> Labels] /\ DOMAIN call = Threads
      /\ target \in [Threads -> Bank] /\ scan \in [Threads -> Nat]
      /\ DOMAIN handles = Threads
  BY Zenon, CallFacts
<1>3. /\ pc[t] = "gather" /\ AtEnd(t) /\ WaitOn(l, H)
      /\ handles' = [handles EXCEPT ![t] = {}] /\ pc' = [pc EXCEPT ![t] = "signal"]
      /\ UNCHANGED <<created, offset, barrier, mutex, event, kind, needs, issued, calls>>
      /\ UNCHANGED <<call, target, scan>>
  BY Zenon, <1>1 DEF Gathered, Goto, bankVars, promise, bounds
<1>4. l \in created /\ l \in Bank /\ H \in SUBSET launched /\ LanesOK
  BY Zenon, <1>1, <1>2, <1>3 DEF CallOK, Chosen, Inv
<1>5. /\ LanesOK' /\ Grown /\ Advanced /\ launched' = launched /\ done' = done
      /\ front'[l] = front[l] \cup H /\ \A s \in Bank \ {l} : front'[s] = front[s]
      /\ \A F, i : Covers(F, i) => Covers(F, i)'
  BY Zenon, <1>3, <1>4, WaitOnFacts
<1>6. Moves(t)
  BY Zenon, <1>2, <1>3 DEF Moves, Labels
<1>7. Frame(t)
  BY Zenon, <1>3, <1>5, <1>6, PlainFrame
<1>8. Duties(c.id)
  BY Zenon, <1>3, <1>5, <1>7, PlainDuties
<1>9. BankOK'
  BY Zenon, <1>3, <1>4, <1>5, PlainBank
<1>10. pc'[t] = "signal" /\ handles'[t] = {}
  BY Zenon, <1>2, <1>3
<1>11. \A i \in needs[c.id] : Covers(front[l], i)'
  <2> SUFFICES ASSUME NEW i \in needs[c.id]
               PROVE  Covers(front[l], i)'
    BY Zenon
  <2>1. Covers(H \cup front[l], i)
    <3>1. Covers(H \cup front[l], i) \/ OnLane(scan[t], i)
      BY Zenon, <1>1, <1>2, <1>3 DEF CallOK, NeedsOK
    <3> QED  BY Zenon, <1>3, <3>1, NowhereLeft
  <2> QED  BY Zenon, <1>5, <2>1 DEF Covers
<1>12. NeedsOK(t)'
  BY Zenon, <1>1, <1>3, <1>10, <1>11 DEF NeedsOK
<1>13. LaunchedOK(t)'
  BY Zenon, <1>10 DEF LaunchedOK
<1>14. CallOK(t)'
  BY Zenon, <1>1, <1>2, <1>3, <1>4, <1>5, <1>10, <1>12, <1>13
     DEF CallOK, Labels, Before, Chosen, Locked, Commands, Waits
<1> QED  BY Zenon, <1>3, <1>5, <1>6, <1>7, <1>8, <1>9, <1>14, StepInv

LEMMA SignalInv ==
  ASSUME Inv, NEW t \in Threads, Signal(t)
  PROVE  Inv'
<1>1. PICK l, id : l = target[t] /\ id = call[t].id
  BY Zenon
<1>2. /\ CallOK(t) /\ pc \in [Threads -> Labels] /\ DOMAIN call = Threads
      /\ target \in [Threads -> Bank] /\ scan \in [Threads -> Nat]
      /\ DOMAIN handles = Threads
  BY Zenon, CallFacts
<1>3. /\ pc[t] = "signal" /\ Put(id, l) /\ event' = [event EXCEPT ![id] = {id}]
      /\ UNCHANGED <<created, offset, kind, needs, calls>>
  BY ZenonT(30), <1>1 DEF Signal, ReturnOk, bounds, promise
<1>4. /\ LanesOK' /\ Grown /\ Advanced
      /\ launched' = launched \cup {id} /\ done' = done /\ id \in Ids \ launched
      /\ l \in created /\ l \in Bank /\ \A s \in Bank \ {l} : front'[s] = front[s]
      /\ front'[l] = {id} /\ Covers({id}, id)' /\ OnLane(0, id)'
      /\ id <= calls /\ kind[id] # "none" /\ kind[id] = KindOf(call[t].op)
      /\ \A n \in needs[id] : Covers({id}, n)'
      /\ \A b \in Barriers : Covers({id}, b)'
  <2>1. pc[t] \in {"launch", "signal"} /\ created' = created
    BY Zenon, <1>3
  <2>2. PutOn(t, l, id)
    BY Zenon, <1>1, <1>3, <2>1, LaunchFacts
  <2> QED  BY Zenon, <2>2 DEF PutOn
<1>5. BankOK'
  BY Zenon, <1>3, <1>4, PlainBank
<1>6. mutex = t /\ id # 0 /\ call[t].op \in Waits
  <2>1. mutex = t /\ call[t].op \in Waits
    BY Zenon, <1>2, <1>3 DEF CallOK, Locked
  <2>2. id \in Ids
    BY Zenon, <1>4
  <2>3. id # 0
    BY <2>2 DEF Ids
  <2> QED  BY Zenon, <2>1, <2>3
<1>7. /\ event \in [Ids -> SUBSET launched] /\ barrier \subseteq launched
      /\ issued \subseteq launched /\ launched \subseteq Ids
  BY Zenon DEF Inv, EventsOK, PromiseOK, LanesOK
<1>8. /\ event' \in [Ids -> SUBSET launched'] /\ event'[id] = {id}
      /\ \A e \in Ids \ {id} : event'[e] = event[e]
  BY Zenon, <1>3, <1>4, <1>7
<1>9. Covers(event[id], id)' /\ Covers(front[l], id)'
  BY Zenon, <1>4, <1>8 DEF Covers
<1>10. CASE call[t].op = "barrier" /\ ~(InOrder /\ call[t].list = {})
  <2>1. /\ barrier' = {id} /\ scan' = [scan EXCEPT ![t] = 0]
        /\ pc' = [pc EXCEPT ![t] = "spread"]
        /\ UNCHANGED <<mutex, issued, call, target, handles>>
    BY Zenon, <1>1, <1>10 DEF Signal, Goto, promise
  <2>2. Moves(t)
    BY Zenon, <1>2, <2>1 DEF Moves, Labels
  <2>3. Frame(t)
    BY Zenon, <1>1, <1>3, <1>4, <1>6, <2>1, <2>2, PlainFrame
  <2>4. Duties(id)
    <3>1. \A b \in Barriers : Covers(barrier, b)'
      BY Zenon, <1>4, <2>1 DEF Covers
    <3> QED  BY Zenon, <1>3, <1>4, <1>7, <1>8, <1>9, <2>1, <3>1 DEF Duties
  <2>5. pc'[t] = "spread" /\ scan'[t] = 0
    BY Zenon, <1>2, <2>1
  <2>6. NeedsOK(t)'
    BY Zenon, <2>5 DEF NeedsOK
  <2>7. LaunchedOK(t)'
    <3>1. \A s \in created' : ~(s < 0)
      BY <1>5, SlotsAssumption DEF BankOK, Bank
    <3> QED  BY ZenonT(30), <1>1, <1>4, <1>8, <1>9, <2>1, <2>5, <3>1 DEF LaunchedOK
  <2>8. CallOK(t)'
    BY Zenon, <1>1, <1>2, <1>3, <1>4, <1>10, <2>1, <2>5, <2>6, <2>7
       DEF CallOK, Labels, Before, Chosen, Locked, Commands, Waits
  <2> QED  BY Zenon, <1>1, <1>4, <1>5, <2>1, <2>2, <2>3, <2>4, <2>8, StepInv
<1>11. CASE ~(call[t].op = "barrier" /\ ~(InOrder /\ call[t].list = {}))
  <2>1. /\ Leave(t) /\ issued' = issued \cup {id} /\ barrier' = barrier
    BY Zenon, <1>1, <1>6, <1>11 DEF Signal, ReturnOk
  <2>2. Moves(t) /\ CallOK(t)' /\ call'[t].id = 0
    BY Zenon, <2>1, LeaveFacts
  <2>3. Frame(t)
    BY Zenon, <1>1, <1>3, <1>4, <1>6, <2>1, <2>2, PlainFrame
  <2>4. Duties(id)
    <3>1. ~InOrder /\ barrier' = barrier => \A b \in Barriers : Covers(barrier, b)'
      BY Zenon, <2>3, OrderKept
    <3>2. kind[id] = "barrier" => InOrder
      BY Zenon, <1>4, <1>6, <1>11 DEF KindOf, Commands, Waits
    <3>3. InOrder => \A s \in created' : Covers(front[s], id)'
      <4>1. InOrder => created = {0}
        BY Zenon DEF Inv, BankOK
      <4>2. InOrder => \A s \in created' : s = l
        BY Zenon, <1>3, <1>4, <4>1
      <4> QED  BY Zenon, <1>9, <4>2
    <3> QED  BY Zenon, <1>3, <1>4, <1>7, <1>8, <1>9, <2>1, <3>1, <3>2, <3>3 DEF Duties
  <2> QED  BY Zenon, <1>1, <1>4, <1>5, <2>2, <2>3, <2>4, StepInv
<1> QED  BY Zenon, <1>10, <1>11

\* Each other queue in turn waits for the barrier.
LEMMA SpreadInv ==
  ASSUME Inv, NEW t \in Threads, Spread(t)
  PROVE  Inv'
<1> DEFINE c == call[t]
<1>1. PICK s, l, id : s = scan[t] /\ l = target[t] /\ id = call[t].id
  BY Zenon
<1>2. /\ CallOK(t) /\ pc \in [Threads -> Labels] /\ DOMAIN call = Threads
      /\ target \in [Threads -> Bank] /\ scan \in [Threads -> Nat]
      /\ DOMAIN handles = Threads
  BY Zenon, CallFacts
<1>3. /\ pc[t] = "spread" /\ s \in created
      /\ IF s = l THEN UNCHANGED lanes ELSE WaitOn(s, barrier)
      /\ scan' = [scan EXCEPT ![t] = s + 1]
      /\ UNCHANGED <<created, offset, barrier, mutex, event, kind, needs, issued, calls>>
      /\ UNCHANGED <<pc, call, target, handles>>
  BY Zenon, <1>1 DEF Spread, AtEnd, bankVars, promise, bounds
<1>4. /\ LanesOK /\ s \in Bank /\ l \in Bank /\ s \in Nat /\ barrier \in SUBSET launched
      /\ created \subseteq Bank
  BY Zenon, <1>1, <1>2, <1>3 DEF Inv, BankOK, EventsOK, CallOK
<1>5. /\ LanesOK' /\ Grown /\ Advanced /\ launched' = launched /\ done' = done
      /\ \A F, i : Covers(F, i) => Covers(F, i)'
      /\ \A r \in Bank \ {s} : front'[r] = front[r]
      /\ s = l => front' = front
      /\ s # l => front'[s] = front[s] \cup barrier
  <2>1. CASE s = l
    BY Zenon, <1>3, <1>4, <2>1, SameFacts
  <2>2. CASE s # l
    BY ZenonT(30), <1>3, <1>4, <2>2, WaitOnFacts
  <2> QED  BY Zenon, <2>1, <2>2
<1>6. Moves(t)
  BY Zenon, <1>2, <1>3, <1>4, NextSlot DEF Moves
<1>7. Frame(t)
  BY Zenon, <1>3, <1>5, <1>6, PlainFrame
<1>8. Duties(c.id)
  BY Zenon, <1>3, <1>5, <1>7, PlainDuties
<1>9. BankOK'
  BY Zenon, <1>3, <1>5, PlainBank
<1>10. /\ id \in launched /\ Covers(front[l], id) /\ barrier = {id} /\ event[id] = {id}
       /\ \A r \in created : r < s => Covers(front[r], id)
  BY Zenon, <1>1, <1>2, <1>3 DEF CallOK, LaunchedOK
<1>11. pc'[t] = "spread" /\ scan'[t] = s + 1
  BY Zenon, <1>2, <1>3
<1>12. \A r \in Bank : Covers(front[r], id) => Covers(front[r], id)'
  BY Zenon, <1>4, <1>5, LaneKept
<1>13. Covers(front[s], id)'
  <2>1. CASE s = l
    BY Zenon, <1>4, <1>10, <1>12, <2>1
  <2>2. CASE s # l
    <3>1. Covers(front[s] \cup barrier, id)
      BY Zenon, <1>10 DEF Covers
    <3> QED  BY Zenon, <1>5, <2>2, <3>1 DEF Covers
  <2> QED  BY Zenon, <2>1, <2>2
<1>14. \A r \in created : r < s + 1 => Covers(front[r], id)'
  <2> SUFFICES ASSUME NEW r \in created, r < s + 1
               PROVE  Covers(front[r], id)'
    BY Zenon
  <2>1. r \in Nat /\ r \in Bank
    BY <1>4, SlotsAssumption DEF Bank
  <2>2. r < s \/ r = s
    BY <1>4, <2>1
  <2> QED  BY Zenon, <1>10, <1>12, <1>13, <2>1, <2>2
<1>15. LaunchedOK(t)'
  BY Zenon, <1>1, <1>3, <1>4, <1>5, <1>10, <1>11, <1>12, <1>14 DEF LaunchedOK
<1>16. NeedsOK(t)'
  BY Zenon, <1>11 DEF NeedsOK
<1>17. CallOK(t)'
  <2>1. /\ target[t] \in Bank /\ c.list \subseteq issued /\ handles[t] \subseteq launched
        /\ c.id \in 1 .. calls /\ kind[c.id] = KindOf(c.op) /\ c.op = "barrier"
        /\ c.owed = {} /\ target[t] \in created /\ mutex = t
    BY Zenon, <1>2, <1>3 DEF CallOK, Chosen, Locked
  <2>2. /\ call'[t] = c /\ target'[t] = target[t] /\ handles'[t] = handles[t]
        /\ s + 1 \in Nat
    BY <1>3, <1>4
  <2> HIDE DEF c
  <2> QED  BY Zenon, <1>3, <1>5, <1>11, <1>15, <1>16, <2>1, <2>2
              DEF CallOK, Labels, Before, Chosen, Locked, Commands, Waits
<1> QED  BY Zenon, <1>3, <1>5, <1>6, <1>7, <1>8, <1>9, <1>17, StepInv

LEMMA SyncQueueInv ==
  ASSUME Inv, NEW t \in Threads, SyncQueue(t)
  PROVE  Inv'
<1> DEFINE c == call[t]
<1>1. PICK s : s = scan[t]
  BY Zenon
<1>2. /\ CallOK(t) /\ pc \in [Threads -> Labels] /\ DOMAIN call = Threads
      /\ target \in [Threads -> Bank] /\ scan \in [Threads -> Nat]
      /\ DOMAIN handles = Threads
  BY Zenon, CallFacts
<1>3. /\ pc[t] = "sync" /\ s \in created /\ front[s] \subseteq done /\ UNCHANGED lanes
      /\ scan' = [scan EXCEPT ![t] = s + 1]
      /\ UNCHANGED <<created, offset, barrier, mutex, event, kind, needs, issued, calls>>
      /\ UNCHANGED <<pc, call, target, handles>>
  BY Zenon, <1>1 DEF SyncQueue, AtEnd, Drained, bankVars, promise, bounds
<1>4. /\ LanesOK /\ LanesOK' /\ Grown /\ Advanced
      /\ launched' = launched /\ done' = done /\ front' = front
      /\ \A F, i : Covers(F, i) => Covers(F, i)'
  BY Zenon, <1>3, SameFacts DEF Inv
<1>5. s \in Nat
  BY Zenon, <1>1, <1>2
<1>6. Moves(t)
  BY Zenon, <1>2, <1>3, <1>5, NextSlot DEF Moves
<1>7. Frame(t)
  BY Zenon, <1>3, <1>4, <1>6, PlainFrame
<1>8. Duties(c.id)
  BY Zenon, <1>3, <1>4, <1>7, PlainDuties
<1>9. BankOK'
  BY Zenon, <1>3, <1>4, PlainBank
<1>10. pc'[t] = "sync" /\ scan'[t] = s + 1
  BY Zenon, <1>2, <1>3
<1>11. \A i \in c.owed : i \in done \/ OnLane(s + 1, i)
  <2> SUFFICES ASSUME NEW i \in c.owed, ~OnLane(s + 1, i), i \notin done
               PROVE  FALSE
    BY Zenon
  <2>1. OnLane(s, i)
    BY Zenon, <1>1, <1>2, <1>3 DEF CallOK, LaunchedOK
  <2>2. PICK r \in created : r >= s /\ Covers(front[r], i)
    BY Zenon, <2>1 DEF OnLane
  <2>3. r \in Nat
    BY SlotsAssumption DEF Inv, BankOK, Bank
  <2>4. ~(r >= s + 1)
    BY Zenon, <2>2 DEF OnLane
  <2>5. r = s
    BY <1>5, <2>2, <2>3, <2>4
  <2> QED  BY Zenon, <1>3, <1>4, <2>2, <2>5, DoneClosed
<1>12. LaunchedOK(t)'
  <2>1. \A i \in c.owed : i \in done' \/ OnLane(scan[t], i)'
    BY Zenon, <1>3, <1>4, <1>10, <1>11 DEF OnLane
  <2> QED  BY Zenon, <1>3, <1>10, <2>1 DEF LaunchedOK
<1>13. NeedsOK(t)'
  BY Zenon, <1>10 DEF NeedsOK
<1>14. CallOK(t)'
  <2>1. /\ target[t] \in Bank /\ c.list \subseteq issued /\ handles[t] \subseteq launched
        /\ c.id = 0
    BY Zenon, <1>2, <1>3 DEF CallOK
  <2>2. /\ call'[t] = c /\ target'[t] = target[t] /\ handles'[t] = handles[t]
        /\ s + 1 \in Nat
    BY <1>3, <1>5
  <2> HIDE DEF c
  <2> QED  BY Zenon, <1>3, <1>4, <1>10, <1>12, <1>13, <2>1, <2>2
              DEF CallOK, Labels, Before, Chosen, Locked
<1> QED  BY Zenon, <1>3, <1>4, <1>6, <1>7, <1>8, <1>9, <1>14, StepInv

-----------------------------------------------------------------------------
\* The calls, the device and the beginning

\* What AbstractQueue orders a command after, in the words of this module
LEMMA Ordered ==
  ASSUME NEW k, NEW list
  PROVE  Contract!OrderedAfter(k, list) =
           list \cup (IF InOrder \/ (k # "plain" /\ list = {}) THEN issued ELSE Barriers)
  BY Zenon DEF Contract!OrderedAfter, Barriers

LEMMA CallEnqueueInv ==
  ASSUME Inv, NEW t \in Threads, CallEnqueue(t)
  PROVE  Inv'
<1> DEFINE id == calls + 1
           c(op, list) == [op |-> op, id |-> id, list |-> list,
                           owed |-> IF op = "copy" THEN {id} ELSE {}]
           after(op, list) == Contract!OrderedAfter(KindOf(op), list)
<1>1. PICK op \in Ops \cap (Commands \cup Waits), list \in SUBSET issued :
        /\ Cardinality(list) <= MaxWaits
        /\ calls' = id
        /\ call' = [call EXCEPT ![t] = c(op, list)]
        /\ kind' = [kind EXCEPT ![id] = KindOf(op)]
        /\ needs' = [needs EXCEPT ![id] = after(op, list)]
        /\ Goto(t, IF op \in Waits THEN "lock" ELSE "next")
  BY Zenon DEF CallEnqueue
<1>2. /\ pc[t] = "idle" /\ calls < MaxCommands /\ UNCHANGED lanes
      /\ UNCHANGED <<created, offset, barrier, mutex, event, issued, target, scan, handles>>
  BY Zenon DEF CallEnqueue, bankVars
<1>3. /\ CallOK(t) /\ pc \in [Threads -> Labels] /\ DOMAIN call = Threads
      /\ target \in [Threads -> Bank] /\ scan \in [Threads -> Nat]
      /\ DOMAIN handles = Threads
  BY Zenon, CallFacts
<1>4. /\ LanesOK' /\ Grown /\ Advanced
      /\ launched' = launched /\ done' = done /\ front' = front
      /\ \A F, i : Covers(F, i) => Covers(F, i)'
  BY Zenon, <1>2, SameFacts DEF Inv
<1>5. /\ calls \in Nat /\ id \in Nat /\ id <= MaxCommands /\ id \in Ids /\ id # 0
      /\ \A i \in launched : i \in Ids /\ i <= calls
      /\ \A i \in Ids : i <= calls => i # id
  <2>1. calls \in Nat /\ \A i \in launched : i \in Ids /\ i <= calls
    BY Zenon DEF Inv, PromiseOK, LanesOK
  <2>2. \A i \in Ids : i <= calls => i # id
    BY <2>1 DEF Ids
  <2> QED  BY <1>2, <2>1, <2>2, MaxCommandsAssumption DEF Ids
<1>6. id \notin launched
  BY Zenon, <1>5
<1>7. /\ kind \in [Ids -> {"none", "plain", "marker", "barrier"}]
      /\ needs \in [Ids -> SUBSET issued] /\ issued \subseteq launched
      /\ \A i \in Ids : i > calls => kind[i] = "none"
      /\ \A i \in launched : kind[i] # "none"
  BY Zenon DEF Inv, PromiseOK
<1>8. KindOf(op) \in {"plain", "marker", "barrier"} /\ (op \in Waits <=> KindOf(op) # "plain")
  BY Zenon DEF KindOf, Commands, Waits
<1>9. after(op, list) = list \cup
        (IF InOrder \/ (KindOf(op) # "plain" /\ list = {}) THEN issued ELSE Barriers)
  BY Zenon, Ordered
<1>10. after(op, list) \subseteq issued
  BY Zenon, <1>9 DEF Barriers
<1> HIDE DEF after, id
<1>11. /\ kind'[id] = KindOf(op) /\ needs'[id] = after(op, list)
       /\ \A i \in Ids \ {id} : kind'[i] = kind[i] /\ needs'[i] = needs[i]
       /\ kind' \in [Ids -> {"none", "plain", "marker", "barrier"}]
       /\ needs' \in [Ids -> SUBSET issued]
  BY Zenon, <1>1, <1>5, <1>7, <1>8, <1>10
<1>12. PromiseOK'
  <2>1. \A i \in Ids : i > calls' => kind'[i] = "none"
    <3> SUFFICES ASSUME NEW i \in Ids, i > id
                 PROVE  kind'[i] = "none"
      BY Zenon, <1>1
    <3>1. i \in Nat /\ i > calls /\ i # id
      BY <1>5 DEF Ids, id
    <3> QED  BY Zenon, <1>7, <1>11, <3>1
  <2>2. \A i \in launched' : i <= calls' /\ kind'[i] # "none"
    <3> SUFFICES ASSUME NEW i \in launched
                 PROVE  i <= id /\ kind'[i] # "none"
      BY Zenon, <1>1, <1>4
    <3>1. i \in Ids /\ i <= calls /\ i # id
      BY Zenon, <1>5
    <3>2. i <= id
      BY <1>5, <3>1 DEF Ids, id
    <3> QED  BY Zenon, <1>7, <1>11, <3>1, <3>2
  <2>3. \A i \in Ids : i \notin needs'[i]
    BY <1>6, <1>7, <1>10, <1>11 DEF Inv, PromiseOK
  <2> QED  BY Zenon, <1>1, <1>2, <1>4, <1>5, <1>7, <1>11, <2>1, <2>2, <2>3 DEF PromiseOK
<1>13. Moves(t)
  BY Zenon, <1>1, <1>2, <1>3 DEF Moves, Goto, Labels
<1>14. Frame(t)
  <2>1. calls' \in Nat /\ calls <= calls'
    BY <1>1, <1>5 DEF id
  <2>2. \A i \in Ids : i <= calls => kind'[i] = kind[i] /\ needs'[i] = needs[i]
    BY Zenon, <1>5, <1>11
  <2> QED  BY Zenon, <1>2, <1>4, <1>5, <1>13, <2>1, <2>2 DEF Frame, Moves
<1>15. Barriers' = Barriers
  <2>1. \A i \in issued : kind'[i] = kind[i]
    BY Zenon, <1>5, <1>6, <1>7, <1>11
  <2> QED  BY Zenon, <1>2, <2>1 DEF Barriers
<1>16. OrderOK' /\ EventsOK'
  <2>1. /\ \A i \in launched : \A n \in needs'[i] : Covers({i}, n)'
        /\ \A i \in launched : i \in done' \/ OnLane(0, i)'
        /\ \A s \in created : \A b \in Barriers : Covers(front[s], b)'
        /\ \A e \in issued : event'[e] = event[e] => Covers(event[e], e)'
        /\ ~InOrder /\ barrier' = barrier => \A b \in Barriers : Covers(barrier, b)'
    BY Zenon, <1>14, OrderKept
  <2>2. OrderOK'
    BY Zenon, <1>2, <1>4, <1>15, <2>1 DEF OrderOK
  <2>3. \A e \in issued' : Covers(event[e], e)'
    BY Zenon, <1>2, <2>1
  <2>4. ~InOrder => \A b \in Barriers' : Covers(barrier, b)'
    BY Zenon, <1>2, <1>15, <2>1
  <2>5. event' \in [Ids -> SUBSET launched'] /\ barrier' \subseteq launched'
    BY Zenon, <1>2, <1>4 DEF Inv, EventsOK
  <2> QED  BY Zenon, <2>2, <2>3, <2>4, <2>5 DEF EventsOK, InOrder
<1>17. BankOK'
  BY Zenon, <1>2, <1>4, PlainBank
<1>18. /\ call'[t] = c(op, list) /\ target'[t] = target[t] /\ scan'[t] = scan[t]
       /\ handles'[t] = handles[t] /\ pc'[t] = IF op \in Waits THEN "lock" ELSE "next"
  BY Zenon, <1>1, <1>2, <1>3 DEF Goto
<1>19. /\ call'[t].op = op /\ call'[t].id = id /\ call'[t].list = list
       /\ call'[t].owed = IF op = "copy" THEN {id} ELSE {}
  BY <1>18
<1> HIDE DEF c
<1>20. NeedsOK(t)'
  BY Zenon, <1>8, <1>9, <1>11, <1>15, <1>18, <1>19 DEF NeedsOK, InOrder
<1>21. LaunchedOK(t)'
  BY Zenon, <1>18 DEF LaunchedOK
<1>22. id \in 1 .. calls'
  BY <1>1, <1>5
<1>23. /\ target[t] \in Bank /\ scan[t] = 0 /\ handles[t] \subseteq launched
  BY ZenonT(30), <1>2, <1>3 DEF CallOK
<1>24. CallOK(t)'
  BY SMTT(30), Z3T(30), <1>1, <1>2, <1>4, <1>6, <1>11, <1>18, <1>19, <1>20, <1>21, <1>22, <1>23
     DEF CallOK, Labels, Before, Chosen, Locked, Commands, Waits
<1>25. CallsOK'
  BY Zenon, <1>13, <1>14, <1>19, <1>24, CallsStep DEF Moves, id
<1> QED  BY Zenon, <1>4, <1>12, <1>16, <1>17, <1>25 DEF Inv

LEMMA CallWaitInv ==
  ASSUME Inv, NEW t \in Threads, CallWait(t)
  PROVE  Inv'
<1> DEFINE c(op, list) == [op |-> op, id |-> 0, list |-> list, owed |-> list]
<1>1. PICK op \in Ops \cap {"wait", "finish"}, list \in SUBSET issued :
        /\ op = "wait" => list # {} /\ Cardinality(list) <= MaxWaits
        /\ op = "finish" => list = issued
        /\ call' = [call EXCEPT ![t] = c(op, list)]
        /\ Goto(t, IF op = "wait" THEN "eventWait" ELSE "sync")
  BY Zenon DEF CallWait
<1>2. /\ pc[t] = "idle" /\ UNCHANGED lanes
      /\ UNCHANGED <<created, offset, barrier, mutex, event, kind, needs, issued, calls>>
      /\ UNCHANGED <<target, scan, handles>>
  BY Zenon DEF CallWait, bankVars, promise, bounds
<1>3. /\ CallOK(t) /\ pc \in [Threads -> Labels] /\ DOMAIN call = Threads
      /\ target \in [Threads -> Bank] /\ scan \in [Threads -> Nat]
      /\ DOMAIN handles = Threads
  BY Zenon, CallFacts
<1>4. /\ LanesOK' /\ Grown /\ Advanced
      /\ launched' = launched /\ done' = done /\ front' = front
      /\ \A F, i : Covers(F, i) => Covers(F, i)'
  BY Zenon, <1>2, SameFacts DEF Inv
<1>5. Moves(t)
  BY Zenon, <1>1, <1>2, <1>3 DEF Moves, Goto, Labels
<1>6. Frame(t)
  BY Zenon, <1>2, <1>4, <1>5, PlainFrame
<1>7. Duties(call[t].id)
  BY Zenon, <1>2, <1>4, <1>6, PlainDuties
<1>8. BankOK'
  BY Zenon, <1>2, <1>4, PlainBank
<1>9. /\ call'[t] = c(op, list) /\ target'[t] = target[t] /\ scan'[t] = scan[t]
      /\ handles'[t] = handles[t] /\ pc'[t] = IF op = "wait" THEN "eventWait" ELSE "sync"
  BY Zenon, <1>1, <1>2, <1>3 DEF Goto
<1>10. call'[t].id = 0 /\ call'[t].list = list /\ call'[t].owed = list
  BY <1>9
<1> HIDE DEF c
<1>11. target[t] \in Bank /\ scan[t] = 0 /\ handles[t] \subseteq launched
  BY Zenon, <1>2, <1>3 DEF CallOK
<1>12. \A i \in list : i \in done' \/ OnLane(scan[t], i)'
  <2>1. list \subseteq launched /\ \A i \in launched : i \in done' \/ OnLane(0, i)'
    BY Zenon, <1>6, OrderKept DEF Inv, PromiseOK
  <2> QED  BY Zenon, <1>9, <1>11, <2>1 DEF OnLane
<1>13. LaunchedOK(t)'
  BY Zenon, <1>9, <1>10, <1>12 DEF LaunchedOK
<1>14. NeedsOK(t)'
  BY Zenon, <1>9 DEF NeedsOK
<1>15. CallOK(t)'
  <2>1. /\ pc'[t] \in {"eventWait", "sync"} /\ list \subseteq issued'
        /\ target'[t] \in Bank /\ scan'[t] = 0 /\ handles'[t] \subseteq launched'
    BY Zenon, <1>2, <1>4, <1>9, <1>11
  <2> QED  BY <1>10, <1>13, <1>14, <2>1 DEF CallOK, Labels, Before, Chosen, Locked
<1> QED  BY Zenon, <1>4, <1>5, <1>6, <1>7, <1>8, <1>10, <1>15, StepInv

LEMMA ExecuteInv ==
  ASSUME Inv, Execute
  PROVE  Inv'
<1>1. PICK i \in Ids : Complete(i)
  BY Zenon DEF Execute
<1>2. /\ UNCHANGED <<created, offset, barrier, mutex, event, kind, needs, issued, calls>>
      /\ UNCHANGED <<pc, call, target, scan, handles>>
  BY Zenon DEF Execute, bankVars, promise, bounds, locals
<1>3. /\ LanesOK' /\ Grown /\ Advanced
      /\ launched' = launched /\ done \subseteq done' /\ front' = front
  BY Zenon, <1>1, CompleteFacts DEF Inv
<1>4. Frame(None)
  <2>1. calls \in Nat
    BY Zenon DEF Inv, PromiseOK
  <2>2. /\ created \subseteq created' /\ issued \subseteq issued' /\ calls <= calls'
        /\ \A u \in Threads : call[u].id \notin launched' \ launched
    BY <1>2, <1>3, <2>1
  <2> QED  BY Zenon, <1>2, <1>3, <2>1, <2>2 DEF Frame
<1>5. Duties(0)
  BY Zenon, <1>2, <1>3, <1>4, PlainDuties
<1>6. PromiseOK' /\ OrderOK' /\ EventsOK'
  BY Zenon, <1>3, <1>4, <1>5, DutiesDone
<1>7. BankOK'
  BY Zenon, <1>2, <1>3, PlainBank
<1>8. \A u \in Threads : CallOK(u)'
  BY Zenon, <1>4, FrameCalls, NoneAssumption
<1>9. CallsOK'
  BY Zenon, <1>2, <1>8 DEF Inv, CallsOK
<1> QED  BY Zenon, <1>3, <1>6, <1>7, <1>9 DEF Inv

LEMMA StutterInv ==
  ASSUME Inv, UNCHANGED vars
  PROVE  Inv'
<1>1. /\ UNCHANGED <<created, offset, barrier, mutex, event, kind, needs, issued, calls>>
      /\ UNCHANGED <<pc, call, target, scan, handles>> /\ UNCHANGED lanes
  BY Zenon DEF vars
<1>2. /\ LanesOK' /\ Grown /\ Advanced
      /\ launched' = launched /\ done' = done /\ front' = front
  BY Zenon, <1>1, SameFacts DEF Inv
<1>3. Frame(None)
  <2>1. calls \in Nat
    BY Zenon DEF Inv, PromiseOK
  <2> QED  BY <1>1, <1>2, <2>1 DEF Frame
<1>4. Duties(0)
  BY Zenon, <1>1, <1>2, <1>3, PlainDuties
<1>5. PromiseOK' /\ OrderOK' /\ EventsOK'
  BY Zenon, <1>2, <1>3, <1>4, DutiesDone
<1>6. BankOK'
  BY Zenon, <1>1, <1>2, PlainBank
<1>7. \A u \in Threads : CallOK(u)'
  BY Zenon, <1>3, FrameCalls, NoneAssumption
<1>8. CallsOK'
  BY Zenon, <1>1, <1>7 DEF Inv, CallsOK
<1> QED  BY Zenon, <1>2, <1>5, <1>6, <1>8 DEF Inv

LEMMA InitInv ==
  ASSUME Init
  PROVE  Inv
<1>1. /\ front = [l \in Bank |-> {}] /\ deps = [i \in Ids |-> {}]
      /\ launched = {} /\ done = {}
      /\ created = (IF InOrder THEN {0} ELSE {}) /\ offset = (IF InOrder THEN 1 ELSE 0)
      /\ barrier = {} /\ event = [i \in Ids |-> {}]
      /\ kind = [i \in Ids |-> "none"] /\ needs = [i \in Ids |-> {}] /\ issued = {}
      /\ calls = 0
  BY Zenon DEF Init, LanesInit
<1>2. /\ pc = [t \in Threads |-> "idle"] /\ call = [t \in Threads |-> NoCall]
      /\ target = [t \in Threads |-> 0] /\ scan = [t \in Threads |-> 0]
      /\ handles = [t \in Threads |-> {}]
  BY Zenon DEF Init
<1>3. LanesOK
  BY Zenon, <1>1 DEF LanesOK
<1>4. BankOK
  <2>1. CASE InOrder
    <3>1. created = {0} /\ offset = 1 /\ Bank = {0}
      BY <1>1, <2>1 DEF InOrder, Bank
    <3> QED  BY <1>1, <2>1, <3>1 DEF BankOK, InOrder
  <2>2. CASE ~InOrder
    <3>1. created = {} /\ offset = 0 /\ \A s \in Bank : ~(s < 0)
      BY <1>1, <2>2, SlotsAssumption DEF Bank
    <3> QED  BY <1>1, <2>2, <3>1 DEF BankOK
  <2> QED  BY Zenon, <2>1, <2>2
<1>5. PromiseOK
  BY <1>1, MaxCommandsAssumption DEF PromiseOK
<1>6. OrderOK
  BY Zenon, <1>1 DEF OrderOK, Barriers
<1>7. EventsOK
  BY Zenon, <1>1 DEF EventsOK, Barriers
<1>8. ASSUME NEW t \in Threads
      PROVE  CallOK(t)
  <2>1. /\ pc[t] = "idle" /\ call[t] = NoCall /\ target[t] = 0 /\ scan[t] = 0
        /\ handles[t] = {} /\ 0 \in Bank
    BY <1>2, SlotsAssumption DEF Bank
  <2>2. NeedsOK(t) /\ LaunchedOK(t)
    BY Zenon, <2>1 DEF NeedsOK, LaunchedOK
  <2> QED  BY <2>1, <2>2 DEF CallOK, Labels, Before, Chosen, Locked, NoCall
<1>9. CallsOK
  <2>1. 0 \in Bank
    BY SlotsAssumption DEF Bank
  <2> QED  BY Zenon, <1>2, <1>8, <2>1 DEF CallsOK, Labels, NoCall
<1> QED  BY Zenon, <1>3, <1>4, <1>5, <1>6, <1>7, <1>9 DEF Inv

LEMMA NextInv ==
  ASSUME FailSlots \subseteq {Slots - 1}, Inv, [Next]_vars
  PROVE  Inv'
<1>1. CASE Execute
  BY Zenon, <1>1, ExecuteInv
<1>2. ASSUME NEW t \in Threads, CallEnqueue(t) \/ CallWait(t) \/ Step(t) \/ Error(t)
      PROVE  Inv'
  <2>1. CASE CallEnqueue(t)
    BY Zenon, <2>1, CallEnqueueInv
  <2>2. CASE CallWait(t)
    BY Zenon, <2>2, CallWaitInv
  <2>3. CASE Error(t)
    BY Zenon, <2>3, ErrorInv
  <2>4. CASE NextQueue(t)
    BY Zenon, <2>4, NextQueueInv
  <2>5. CASE WaitOnEvents(t)
    BY Zenon, <2>5, WaitOnEventsInv
  <2>6. CASE Launch(t)
    BY Zenon, <2>6, LaunchInv
  <2>7. CASE MakeEvent(t)
    BY Zenon, <2>7, MakeEventInv
  <2>8. CASE SyncCopy(t)
    BY Zenon, <2>8, SyncCopyInv
  <2>9. CASE HostCopy(t)
    BY Zenon, <2>9, HostCopyInv
  <2>10. CASE ReturnCopy(t) \/ EndSpread(t) \/ EndSync(t) \/ EventWait(t)
    BY Zenon, <2>10, ReturnInv
  <2>11. CASE LockWait(t)
    BY Zenon, <2>11, LockWaitInv
  <2>12. CASE Gather(t)
    BY Zenon, <2>12, GatherInv
  <2>13. CASE Gathered(t)
    BY Zenon, <2>13, GatheredInv
  <2>14. CASE WaitOnList(t)
    BY Zenon, <2>14, WaitOnListInv
  <2>15. CASE Signal(t)
    BY Zenon, <2>15, SignalInv
  <2>16. CASE Spread(t)
    BY Zenon, <2>16, SpreadInv
  <2>17. CASE SyncQueue(t)
    BY Zenon, <2>17, SyncQueueInv
  <2> QED  BY Zenon, <1>2, <2>1, <2>2, <2>3, <2>4, <2>5, <2>6, <2>7, <2>8, <2>9, <2>10,
              <2>11, <2>12, <2>13, <2>14, <2>15, <2>16, <2>17 DEF Step
<1>3. CASE UNCHANGED vars
  BY Zenon, <1>3, StutterInv
<1> QED  BY Zenon, <1>1, <1>2, <1>3 DEF Next

-----------------------------------------------------------------------------
\* The refinement

\* What AbstractQueue sees of a call
View(c) == [cmd |-> IF c.id = 0 THEN {} ELSE {c.id}, owed |-> c.owed]
Views == [t \in Threads |-> View(call[t])]

LEMMA ViewStep ==
  ASSUME DOMAIN call = Threads, NEW t \in Threads, NEW c,
         call' = [call EXCEPT ![t] = c]
  PROVE  Views' = [Views EXCEPT ![t] = View(c)]
  BY Zenon DEF Views

\* A call returns, and what it owes is done.
LEMMA ReturnStep ==
  ASSUME Inv, NEW t \in Threads, ReturnOk(t), done' = done, call[t].owed \subseteq done
  PROVE  [Contract!Next]_Contract!vars
<1>1. DOMAIN call = Threads
  BY Zenon DEF Inv, CallsOK
<1>2. /\ issued' = IF call[t].id = 0 THEN issued ELSE issued \cup {call[t].id}
      /\ call' = [call EXCEPT ![t] = NoCall]
      /\ kind' = kind /\ needs' = needs
  BY Zenon DEF ReturnOk, Leave
<1>3. Views' = [Views EXCEPT ![t] = View(NoCall)]
  BY Zenon, <1>1, <1>2, ViewStep
<1>4. View(NoCall) = Contract!Idle
  BY Zenon DEF View, NoCall, Contract!Idle
<1>5. Views[t] = View(call[t])
  BY Zenon DEF Views
<1>6. CASE Views[t] = Contract!Idle
  <2>1. call[t].id = 0
    BY <1>5, <1>6 DEF View, Contract!Idle
  <2>2. issued' = issued /\ Views' = Views
    BY Zenon, <1>2, <1>3, <1>4, <1>6, <2>1 DEF Views
  <2> QED  BY Zenon, <1>2, <2>2 DEF Contract!vars, Views, View
<1>7. CASE Views[t] # Contract!Idle
  <2>1. Views[t].owed \subseteq done /\ issued' = issued \cup Views[t].cmd
    BY <1>2, <1>5 DEF View
  <2>2. Contract!Return(t)
    BY Zenon, <1>2, <1>3, <1>4, <1>7, <2>1 DEF Contract!Return, Views, View
  <2> QED  BY Zenon, <2>2 DEF Contract!Next
<1> QED  BY Zenon, <1>6, <1>7

LEMMA StutterStep ==
  ASSUME UNCHANGED <<kind, needs, issued, done, call>>
  PROVE  [Contract!Next]_Contract!vars
  BY Zenon DEF Contract!vars

LEMMA EnqueueStep ==
  ASSUME Inv, NEW t \in Threads, CallEnqueue(t)
  PROVE  [Contract!Next]_Contract!vars
<1> DEFINE id == calls + 1
           c(op, list) == [op |-> op, id |-> id, list |-> list,
                           owed |-> IF op = "copy" THEN {id} ELSE {}]
<1>1. PICK op \in Ops \cap (Commands \cup Waits), list \in SUBSET issued :
        /\ Cardinality(list) <= MaxWaits
        /\ calls' = id
        /\ call' = [call EXCEPT ![t] = c(op, list)]
        /\ kind' = [kind EXCEPT ![id] = KindOf(op)]
        /\ needs' = [needs EXCEPT ![id] = Contract!OrderedAfter(KindOf(op), list)]
        /\ Goto(t, IF op \in Waits THEN "lock" ELSE "next")
  BY Zenon DEF CallEnqueue
<1>2. pc[t] = "idle" /\ calls < MaxCommands /\ issued' = issued /\ done' = done
  BY Zenon DEF CallEnqueue, lanes
<1>3. /\ calls \in Nat /\ id \in Ids /\ kind[id] = "none" /\ id # 0
  <2>1. calls \in Nat /\ \A i \in Ids : i > calls => kind[i] = "none"
    BY Zenon DEF Inv, PromiseOK
  <2> QED  BY <1>2, <2>1, MaxCommandsAssumption DEF Ids
<1>4. DOMAIN call = Threads /\ call[t] = NoCall
  BY Zenon, <1>2 DEF Inv, CallsOK, CallOK
<1>5. View(c(op, list)) = [cmd |-> {id}, owed |-> IF op = "copy" THEN {id} ELSE {}]
  BY Zenon, <1>3 DEF View
<1>6. Views[t] = Contract!Idle
  BY <1>4 DEF Views, View, NoCall, Contract!Idle
<1>7. Views' = [Views EXCEPT ![t] = View(c(op, list))]
  BY Zenon, <1>1, <1>4, ViewStep
<1>8. KindOf(op) \in Contract!Kinds
  BY Zenon DEF KindOf, Commands, Waits, Contract!Kinds
<1> HIDE DEF id, c
<1>9. Contract!Enqueue(t, id, KindOf(op), list, op = "copy")
  BY Zenon, <1>1, <1>2, <1>3, <1>5, <1>6, <1>7 DEF Contract!Enqueue, Views, View
<1>10. (op = "copy") \in BOOLEAN
  BY Zenon
<1> QED  BY Zenon, <1>3, <1>8, <1>9, <1>10 DEF Contract!Next

LEMMA WaitStep ==
  ASSUME Inv, NEW t \in Threads, CallWait(t)
  PROVE  [Contract!Next]_Contract!vars
<1>1. /\ pc[t] = "idle" /\ UNCHANGED <<kind, needs, issued, done>>
  BY Zenon DEF CallWait, lanes, promise
<1>2. DOMAIN call = Threads /\ call[t] = NoCall
  BY Zenon, <1>1 DEF Inv, CallsOK, CallOK
<1>3. Views[t] = Contract!Idle
  BY <1>2 DEF Views, View, NoCall, Contract!Idle
<1>4. PICK op \in Ops, list \in SUBSET issued :
        call' = [call EXCEPT ![t] = [op |-> op, id |-> 0, list |-> list, owed |-> list]]
  BY Zenon DEF CallWait
<1>5. View([op |-> op, id |-> 0, list |-> list, owed |-> list])
        = [cmd |-> {}, owed |-> list]
  BY Zenon DEF View
<1>6. Views' = [Views EXCEPT ![t] = [cmd |-> {}, owed |-> list]]
  BY Zenon, <1>2, <1>4, <1>5, ViewStep
<1>7. Contract!HostWait(t, list)
  BY Zenon, <1>1, <1>3, <1>6 DEF Contract!HostWait, Views, View
<1> QED  BY Zenon, <1>7 DEF Contract!Next

LEMMA FailStep ==
  ASSUME Inv, NEW t \in Threads, Error(t)
  PROVE  [Contract!Next]_Contract!vars
<1>1. /\ call' = [call EXCEPT ![t] = NoCall] /\ pc[t] \in Before
      /\ UNCHANGED <<kind, needs, issued, done>>
  BY Zenon DEF Error, NextQueueError, LockWaitError, RejectLaunch, NextQueueFails, ReturnError,
         Leave, lanes, promise, Before
<1>2. DOMAIN call = Threads /\ call[t].id # 0
  BY Zenon, <1>1, CallIds DEF Inv, CallsOK
<1>3. Views' = [Views EXCEPT ![t] = View(NoCall)]
  BY Zenon, <1>1, <1>2, ViewStep
<1>4. View(NoCall) = Contract!Idle
  BY Zenon DEF View, NoCall, Contract!Idle
<1>5. Views[t].cmd # {}
  BY Zenon, <1>2 DEF Views, View
<1>6. Contract!Fail(t)
  BY Zenon, <1>1, <1>3, <1>4, <1>5 DEF Contract!Fail, Views, View
<1> QED  BY Zenon, <1>6 DEF Contract!Next

\* A command that completes on the device has all it needs behind it.
LEMMA ExecuteStep ==
  ASSUME Inv, Execute
  PROVE  [Contract!Next]_Contract!vars
<1>1. PICK i \in Ids : Complete(i)
  BY Zenon DEF Execute
<1>2. UNCHANGED <<kind, needs, issued, call>>
  BY Zenon DEF Execute, promise, locals
<1>3. /\ i \in launched \ done /\ done' = done \cup {i} /\ kind[i] # "none"
      /\ deps[i] \subseteq done
  BY Zenon, <1>1 DEF Complete, Inv, PromiseOK
<1>4. needs[i] \subseteq done
  <2> SUFFICES ASSUME NEW n \in needs[i], n \notin done
               PROVE  FALSE
    BY Zenon
  <2>1. Covers({i}, n) /\ LanesOK
    BY Zenon, <1>3 DEF Inv, OrderOK
  <2>2. done \cup {i} \in SUBSET launched /\ Closed(done \cup {i})
    BY Zenon, <1>3, <2>1 DEF Closed, LanesOK
  <2>3. n = i
    BY Zenon, <2>1, <2>2 DEF Covers
  <2> QED  BY Zenon, <2>3 DEF Inv, PromiseOK
<1>5. Contract!Run(i)
  BY Zenon, <1>2, <1>3, <1>4 DEF Contract!Run
<1> QED  BY Zenon, <1>5 DEF Contract!Next

\* A blocking copy is done by the thread itself, after all it needs.
LEMMA HostCopyStep ==
  ASSUME Inv, NEW t \in Threads, HostCopy(t)
  PROVE  [Contract!Next]_Contract!vars
<1>1. PICK id : id = call[t].id
  BY Zenon
<1>2. /\ pc[t] = "hostCopy" /\ done' = done \cup {id}
      /\ UNCHANGED <<kind, needs, issued, call>>
  BY Zenon, <1>1 DEF HostCopy, RunOnHost, promise, locals
<1>3. id \in Ids /\ id \notin done
  <2>1. id \in Ids /\ id \notin launched
    BY Zenon, <1>1, <1>2, CallIds DEF Before
  <2> QED  BY Zenon, <2>1 DEF Inv, LanesOK
<1>4. kind[id] # "none" /\ needs[id] \subseteq done
  <2>1. CallOK(t)
    BY Zenon, CallFacts
  <2> QED  BY Zenon, <1>1, <1>2, <2>1 DEF CallOK, NeedsOK, Before, KindOf, Commands, Waits
<1>5. Contract!Run(id)
  BY Zenon, <1>2, <1>3, <1>4 DEF Contract!Run
<1> QED  BY Zenon, <1>3, <1>5 DEF Contract!Next

\* The calls that return, and that nothing they owe is left to do
LEMMA ReturnsStep ==
  ASSUME Inv, NEW t \in Threads,
         MakeEvent(t) \/ ReturnCopy(t) \/ EndSpread(t) \/ EndSync(t) \/ EventWait(t)
  PROVE  [Contract!Next]_Contract!vars
<1>1. CallOK(t)
  BY Zenon, CallFacts
<1>2. ReturnOk(t) /\ done' = done
  BY Zenon DEF MakeEvent, ReturnCopy, EndSpread, EndSync, EventWait, lanes
<1>3. CASE MakeEvent(t) \/ EndSpread(t)
  <2>1. call[t].owed = {}
    BY Zenon, <1>1, <1>3 DEF MakeEvent, EndSpread, CallOK
  <2> QED  BY Zenon, <1>2, <2>1, ReturnStep
<1>4. CASE ReturnCopy(t)
  <2>1. call[t].owed = {call[t].id} /\ call[t].id \in done
    BY Zenon, <1>1, <1>4 DEF ReturnCopy, CallOK, LaunchedOK
  <2> QED  BY Zenon, <1>2, <2>1, ReturnStep
<1>5. CASE EndSync(t)
  <2>1. \A i \in call[t].owed : i \in done \/ OnLane(scan[t], i)
    BY Zenon, <1>1, <1>5 DEF EndSync, CallOK, LaunchedOK
  <2>2. AtEnd(t)
    BY Zenon, <1>5 DEF EndSync
  <2>3. call[t].owed \subseteq done
    BY Zenon, <2>1, <2>2, NowhereLeft
  <2> QED  BY Zenon, <1>2, <2>3, ReturnStep
<1>6. CASE EventWait(t)
  <2>1. /\ call[t].owed \subseteq call[t].list /\ call[t].list \subseteq issued
        /\ EventsOf(call[t].list) \subseteq done
    BY Zenon, <1>1, <1>6 DEF EventWait, CallOK, LaunchedOK
  <2>2. ASSUME NEW e \in call[t].owed
        PROVE  e \in done
    <3>1. Covers(event[e], e) /\ LanesOK
      BY Zenon, <2>1 DEF Inv, EventsOK
    <3>2. event[e] \in SUBSET done
      BY Zenon, <2>1 DEF EventsOf
    <3> QED  BY Zenon, <3>1, <3>2, DoneClosed
  <2> QED  BY Zenon, <1>2, <2>2, ReturnStep
<1> QED  BY Zenon, <1>3, <1>4, <1>5, <1>6

LEMMA SignalStep ==
  ASSUME Inv, NEW t \in Threads, Signal(t)
  PROVE  [Contract!Next]_Contract!vars
<1>1. CallOK(t) /\ pc[t] = "signal" /\ done' = done
  BY Zenon, CallFacts DEF Signal, Put
<1>2. call[t].owed = {}
  BY Zenon, <1>1 DEF CallOK, Before, Locked, Waits
<1>3. CASE call[t].op = "barrier" /\ ~(InOrder /\ call[t].list = {})
  BY Zenon, <1>1, <1>3, StutterStep DEF Signal, promise
<1>4. CASE ~(call[t].op = "barrier" /\ ~(InOrder /\ call[t].list = {}))
  <2>1. ReturnOk(t)
    BY Zenon, <1>4 DEF Signal
  <2> QED  BY Zenon, <1>1, <1>2, <2>1, ReturnStep
<1> QED  BY Zenon, <1>3, <1>4

\* The queue refines the contract of the API (AbstractQueue), for any number of threads
\* and calls and any size of the bank: although nothing but the choice of a queue and
\* doWait are under OooMutex, a command runs after its wait list and after the barriers
\* before it, a barrier or marker without a wait list runs after everything before it,
\* and urQueueFinish, urEventWait and blocking copies return when what they wait for is
\* done.  The loops over OffloadQueues break at the first null slot; the assumption
\* says that no failed olCreateQueue leaves one in front of others.
THEOREM OffloadRefines ==
  ASSUME FailSlots \subseteq {Slots - 1}
  PROVE  Spec => ImplementsQueue
<1>1. Init => Inv
  BY Zenon, InitInv
<1>2. Inv /\ [Next]_vars => Inv'
  BY Zenon, NextInv
<1>3. Init => Contract!Init
  BY DEF Init, LanesInit, Contract!Init, Contract!Idle, NoCall
<1>4. Inv /\ [Next]_vars => [Contract!Next]_Contract!vars
  <2> SUFFICES ASSUME Inv, [Next]_vars
               PROVE  [Contract!Next]_Contract!vars
    BY Zenon
  <2>1. CASE Execute
    BY Zenon, <2>1, ExecuteStep
  <2>2. ASSUME NEW t \in Threads, CallEnqueue(t) \/ CallWait(t) \/ Step(t) \/ Error(t)
        PROVE  [Contract!Next]_Contract!vars
    <3>1. CASE CallEnqueue(t)
      BY Zenon, <3>1, EnqueueStep
    <3>2. CASE CallWait(t)
      BY Zenon, <3>2, WaitStep
    <3>3. CASE Error(t)
      BY Zenon, <3>3, FailStep
    <3>4. CASE NextQueue(t) \/ LockWait(t)
      BY Zenon, <3>4, StutterStep DEF NextQueue, LockWait, NextQueueNoLock, WaitOn, lanes, promise
    <3>5. CASE WaitOnEvents(t) \/ WaitOnList(t) \/ Gathered(t) \/ Launch(t)
      BY Zenon, <3>5, StutterStep
         DEF WaitOnEvents, WaitOnList, Gathered, Launch, WaitOn, Put, promise, locals
    <3>6. CASE Gather(t) \/ Spread(t) \/ SyncQueue(t) \/ SyncCopy(t)
      BY Zenon, <3>6, StutterStep
         DEF Gather, Spread, SyncQueue, SyncCopy, WaitOn, lanes, promise, locals
    <3>7. CASE HostCopy(t)
      BY Zenon, <3>7, HostCopyStep
    <3>8. CASE MakeEvent(t) \/ ReturnCopy(t) \/ EndSpread(t) \/ EndSync(t) \/ EventWait(t)
      BY Zenon, <3>8, ReturnsStep
    <3>9. CASE Signal(t)
      BY Zenon, <3>9, SignalStep
    <3> QED  BY Zenon, <2>2, <3>1, <3>2, <3>3, <3>4, <3>5, <3>6, <3>7, <3>8, <3>9 DEF Step
  <2>3. CASE UNCHANGED vars
    BY Zenon, <2>3, StutterStep DEF vars, lanes
  <2> QED  BY Zenon, <2>1, <2>2, <2>3 DEF Next
<1> QED  BY <1>1, <1>2, <1>3, <1>4, PTL DEF Spec, ImplementsQueue, Contract!Spec

=============================================================================
