---------------------------- MODULE AbstractQueue ----------------------------
(***************************************************************************)
(* What the API promises of a queue (ur_api.h: urEnqueue..., urEventWait,  *)
(* urQueueFinish), whatever adapter implements it: which commands a        *)
(* command runs after, and what is done when a waiting call returns.  A    *)
(* promise speaks of the calls that had returned when a call was made; two *)
(* concurrent calls are not ordered.                                       *)
(***************************************************************************)
EXTENDS FiniteSets

CONSTANTS Threads,   \* host threads
          Commands,  \* commands that can be enqueued
          InOrder    \* whether the queue was created in order

\* A marker is urEnqueueEventsWait, a barrier urEnqueueEventsWaitWithBarrier.
Kinds == {"plain", "marker", "barrier"}

VARIABLES
  kind,    \* the kind of each command, "none" before it is enqueued
  needs,   \* the commands each command must run after
  issued,  \* commands whose enqueue call has returned
  done,    \* commands that have run
  call     \* of each thread: the command its call enqueues, and the commands
           \* that must be done before the call returns

vars == <<kind, needs, issued, done, call>>

Idle == [cmd |-> {}, owed |-> {}]

Init ==
  /\ kind = [c \in Commands |-> "none"]
  /\ needs = [c \in Commands |-> {}]
  /\ issued = {} /\ done = {}
  /\ call = [t \in Threads |-> Idle]

\* What a command of kind k with this wait list runs after.  "If the event list is
\* empty, it waits for all previously enqueued commands to complete."
OrderedAfter(k, list) ==
  list \cup (IF InOrder \/ (k # "plain" /\ list = {}) THEN issued
             ELSE {b \in issued : kind[b] = "barrier"})

Enqueue(t, c, k, list, blocking) ==
  /\ call[t] = Idle /\ kind[c] = "none"
  /\ list \subseteq issued
  /\ kind' = [kind EXCEPT ![c] = k]
  /\ needs' = [needs EXCEPT ![c] = OrderedAfter(k, list)]
  /\ call' = [call EXCEPT ![t] =
                [cmd |-> {c}, owed |-> IF blocking THEN {c} ELSE {}]]
  /\ UNCHANGED <<issued, done>>

\* urEventWait of these events, urQueueFinish of all the commands
HostWait(t, list) ==
  /\ call[t] = Idle
  /\ list \subseteq issued
  /\ call' = [call EXCEPT ![t] = [cmd |-> {}, owed |-> list]]
  /\ UNCHANGED <<kind, needs, issued, done>>

Finish(t) == HostWait(t, issued)

Return(t) ==
  /\ call[t] # Idle
  /\ call[t].owed \subseteq done
  /\ issued' = issued \cup call[t].cmd
  /\ call' = [call EXCEPT ![t] = Idle]
  /\ UNCHANGED <<kind, needs, done>>

\* An enqueue call returns an error and its command counts for nothing.
Fail(t) ==
  /\ call[t].cmd # {}
  /\ call' = [call EXCEPT ![t] = Idle]
  /\ UNCHANGED <<kind, needs, issued, done>>

Run(c) ==
  /\ kind[c] # "none" /\ c \notin done
  /\ needs[c] \subseteq done
  /\ done' = done \cup {c}
  /\ UNCHANGED <<kind, needs, issued, call>>

Next ==
  \/ \E c \in Commands : Run(c)
  \/ \E t \in Threads : Return(t) \/ Fail(t) \/ Finish(t)
  \/ \E t \in Threads, list \in SUBSET issued :
       \/ HostWait(t, list)
       \/ \E c \in Commands, k \in Kinds, blocking \in BOOLEAN :
            Enqueue(t, c, k, list, blocking)

Spec == Init /\ [][Next]_vars

=============================================================================
