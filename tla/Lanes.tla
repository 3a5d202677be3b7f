-------------------------------- MODULE Lanes --------------------------------
(***************************************************************************)
(* The in-order lanes a driver offers and an adapter builds its queue of:  *)
(* the queues of liboffload, the immediate command lists of Level Zero.    *)
(* A lane is modelled by its front, the commands whose completion          *)
(* completes everything given to it so far.  A native event is the front   *)
(* it was recorded at: it is complete when those commands are done.        *)
(***************************************************************************)
EXTENDS Integers, FiniteSets

CONSTANT MaxCommands   \* bound on the commands given to the lanes

ASSUME MaxCommandsAssumption == MaxCommands \in Nat

Ids == 1 .. MaxCommands

VARIABLES
  front,     \* the front of each lane
  deps,      \* what each launched command waits for on the device
  launched,  \* commands given to the driver
  done       \* commands that have completed

lanes == <<front, deps, launched, done>>

LanesInit(L) ==
  /\ front = [l \in L |-> {}]
  /\ deps = [i \in Ids |-> {}]
  /\ launched = {} /\ done = {}

\* Command i is put on lane l.
Put(i, l) ==
  /\ deps' = [deps EXCEPT ![i] = front[l]]
  /\ front' = [front EXCEPT ![l] = {i}]
  /\ launched' = launched \cup {i}
  /\ UNCHANGED done

\* What lane l gets from now on waits for the native events with these fronts.
WaitOn(l, at) ==
  /\ front' = [front EXCEPT ![l] = @ \cup at]
  /\ UNCHANGED <<deps, launched, done>>

\* The host has nothing left to wait for on lane l.
Drained(l) == front[l] \subseteq done

\* Command i is executed at once by the calling thread.
RunOnHost(i) ==
  /\ launched' = launched \cup {i}
  /\ done' = done \cup {i}
  /\ UNCHANGED <<front, deps>>

\* The device completes a command of which everything it waits for is done.
Complete(i) ==
  /\ i \in launched \ done
  /\ deps[i] \subseteq done
  /\ done' = done \cup {i}
  /\ UNCHANGED <<front, deps, launched>>

=============================================================================
