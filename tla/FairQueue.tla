----------------------------- MODULE FairQueue -----------------------------
(***************************************************************************)
(* The second layer of rate limiting (internal/scheduler/fair_queue.go): a *)
(* FIFO per QoS class, selected by weighted virtual time, and the ceiling  *)
(* on the tool calls a session has in flight.                              *)
(*                                                                         *)
(* Classes are 1..NClasses in the order of types.AllPriorities, the order  *)
(* the stable sort keeps among equal virtual times.  A class's list is     *)
(* represented by the set of queued tasks and, for each of them, the tasks *)
(* of its class that stand ahead of it.  One operator per critical section *)
(* of the queue's mutex: FairQueueClients closes the module with           *)
(* submitters, Scheduler with the dispatcher.                              *)
(*                                                                         *)
(* Abstractions: EnqueuedAt and the dispatched / rejected counters, which  *)
(* feed Stats only, are left out.                                          *)
(***************************************************************************)
EXTENDS Integers, FiniteSets

CONSTANTS
  Tasks, Runs, Sessions, NClasses,
  Kind, RunOf, SessionOf, ClassOf, Cost,  \* the fields of a task
  Weight,        \* per class: types.Priority.Weight
  Scale,         \* vtimeScale
  TotalCap,      \* ceiling on queued tasks
  ClassCap,      \* SetPerPriorityCap; at least TotalCap when unset
  SessionCap     \* MaxConcurrentToolsPerSession

Classes == 1..NClasses

ASSUME FairQueueAssumption ==
  /\ IsFiniteSet(Tasks)
  /\ NClasses \in Nat
  /\ Kind \in [Tasks -> {"run", "tool"}]
  /\ RunOf \in [Tasks -> Runs]
  /\ SessionOf \in [Tasks -> Sessions]
  /\ ClassOf \in [Tasks -> Classes]
  /\ Cost \in [Tasks -> Nat \ {0}]
  /\ Weight \in [Classes -> Nat \ {0}]
  /\ Scale \in Nat
  /\ TotalCap \in Nat
  /\ ClassCap \in [Classes -> Nat]
  /\ SessionCap \in Nat

VARIABLES
  queued,     \* tasks in the lists
  ahead,      \* per queued task: the tasks of its list in front of it
  total,      \* q.total, the depth the cap is checked against
  vtime,      \* per class: virtual finish time
  sessions    \* per session: tool calls dispatched and not yet released

queueVars == <<queued, ahead, total, vtime, sessions>>

QueueTypeOK ==
  /\ queued \in SUBSET Tasks
  /\ ahead \in [Tasks -> SUBSET Tasks]
  /\ total \in Int
  /\ vtime \in [Classes -> Nat]
  /\ sessions \in [Sessions -> Nat]

QueueInit ==
  /\ queued = {}
  /\ ahead = [t \in Tasks |-> {}]
  /\ total = 0
  /\ vtime = [c \in Classes |-> 0]
  /\ sessions = [s \in Sessions |-> 0]

List(c) == {t \in queued : ClassOf[t] = c}

QueueFull(t) ==
  \/ total >= TotalCap
  \/ Cardinality(List(ClassOf[t])) >= ClassCap[ClassOf[t]]

(* Enqueue: the task goes to the back of its class, or is refused.         *)
Enqueue(t) ==
  /\ ~QueueFull(t)
  /\ queued' = queued \cup {t}
  /\ ahead' = [ahead EXCEPT ![t] = List(ClassOf[t])]
  /\ total' = total + 1
  /\ UNCHANGED <<vtime, sessions>>

Counted(t) == Kind[t] = "tool"

(* sessionHasCapacityLocked                                                *)
SessionHasCapacity(t) == Counted(t) => sessions[SessionOf[t]] < SessionCap

Dispatchable == {t \in queued : SessionHasCapacity(t)}

Ready == {ClassOf[t] : t \in Dispatchable}

Increment(t) == (Cost[t] * Scale) \div Weight[ClassOf[t]]

(* Mutant: the class rank alone decides, a strict-priority queue.          *)
Precedes_Strict(c, d) == c <= d

(* The order of sort.SliceStable on virtual time.                          *)
Precedes(c, d) == vtime[c] < vtime[d] \/ (vtime[c] = vtime[d] /\ c <= d)

(* The tasks S leave their lists.                                          *)
Unlink(S) ==
  /\ queued' = queued \ S
  /\ ahead' = [t \in Tasks |-> IF t \in S THEN {} ELSE ahead[t] \ S]
  /\ total' = total - Cardinality(S)

(* Mutant: the dispatch of a tool call is not counted for its session.     *)
Dequeue_Uncounted(t) ==
  /\ t \in Dispatchable
  /\ ahead[t] \cap Dispatchable = {}
  /\ \A d \in Ready : Precedes(ClassOf[t], d)
  /\ Unlink({t})
  /\ vtime' = [vtime EXCEPT ![ClassOf[t]] = @ + Increment(t)]
  /\ UNCHANGED sessions

(* dequeueLocked: of the classes that have a dispatchable task, the one    *)
(* with the smallest virtual time; in it, the first dispatchable task.     *)
Dequeue(t) ==
  /\ t \in Dispatchable
  /\ ahead[t] \cap Dispatchable = {}
  /\ \A d \in Ready : Precedes(ClassOf[t], d)
  /\ Unlink({t})
  /\ vtime' = [vtime EXCEPT ![ClassOf[t]] = @ + Increment(t)]
  /\ sessions' = IF Counted(t)
                 THEN [sessions EXCEPT ![SessionOf[t]] = @ + 1]
                 ELSE sessions

(* Mutant: the count of a session that is full stays.                      *)
Release_Leaks(t) ==
  /\ sessions' = IF Counted(t) /\ sessions[SessionOf[t]] \in 1 .. SessionCap - 1
                 THEN [sessions EXCEPT ![SessionOf[t]] = @ - 1]
                 ELSE sessions
  /\ UNCHANGED <<queued, ahead, total, vtime>>

(* Release: the session's count goes down, and never below zero.           *)
Release(t) ==
  /\ sessions' = IF Counted(t) /\ sessions[SessionOf[t]] > 0
                 THEN [sessions EXCEPT ![SessionOf[t]] = @ - 1]
                 ELSE sessions
  /\ UNCHANGED <<queued, ahead, total, vtime>>

(* Cancel of a queued task.                                                *)
CancelTask(t) ==
  /\ t \in queued
  /\ Unlink({t})
  /\ UNCHANGED <<vtime, sessions>>

QueuedOf(r) == {t \in queued : RunOf[t] = r}

(* Mutant: the lists are emptied and the depth is kept.                    *)
CancelRun_KeepTotal(r) ==
  /\ queued' = queued \ QueuedOf(r)
  /\ ahead' = [t \in Tasks |-> IF t \in QueuedOf(r) THEN {} ELSE ahead[t] \ QueuedOf(r)]
  /\ UNCHANGED <<total, vtime, sessions>>

(* CancelRun drops every queued task of a run.                             *)
CancelRun(r) ==
  /\ Unlink(QueuedOf(r))
  /\ UNCHANGED <<vtime, sessions>>

(* DrainAll empties the lists and resets the depth.                        *)
DrainAll ==
  /\ queued' = {}
  /\ ahead' = [t \in Tasks |-> {}]
  /\ total' = 0
  /\ UNCHANGED <<vtime, sessions>>
=============================================================================
