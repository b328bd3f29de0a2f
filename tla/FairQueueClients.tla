-------------------------- MODULE FairQueueClients --------------------------
(***************************************************************************)
(* The fair queue closed by its users: tasks are offered, dispatched,      *)
(* released when they finish, cancelled one by one or by run, or drained,  *)
(* and offered again.                                                      *)
(***************************************************************************)
EXTENDS FairQueue

CONSTANT MaxVTime     \* bound: a class past it takes no more tasks

VARIABLES
  phase,      \* per task: outside, in the queue, or dispatched
  overtook    \* history, per class d: the classes that were served since d
              \* became ready or was itself served

vars == <<queued, ahead, total, vtime, sessions, phase, overtook>>

TypeOK ==
  /\ QueueTypeOK
  /\ phase \in [Tasks -> {"out", "queued", "dispatched"}]
  /\ overtook \in [Classes -> SUBSET Classes]

Init ==
  /\ QueueInit
  /\ phase = [t \in Tasks |-> "out"]
  /\ overtook = [d \in Classes |-> {}]

Become(S, p) == phase' = [t \in Tasks |-> IF t \in S THEN p ELSE phase[t]]

(* A class that is served, or stops being ready, starts afresh.            *)
Observe(served) ==
  overtook' = [d \in Classes |->
                 IF d \in (Ready \cap Ready') \ served
                 THEN overtook[d] \cup served
                 ELSE {}]

Offer(t) ==
  /\ phase[t] = "out"
  /\ vtime[ClassOf[t]] < MaxVTime
  /\ Enqueue(t)
  /\ Become({t}, "queued")
  /\ Observe({})

Refused(t) ==
  /\ phase[t] = "out"
  /\ QueueFull(t)
  /\ UNCHANGED vars

Dispatch(t) ==
  /\ Dequeue(t)
  /\ Become({t}, "dispatched")
  /\ Observe({ClassOf[t]})

Finish(t) ==
  /\ phase[t] = "dispatched"
  /\ Release(t)
  /\ Become({t}, "out")
  /\ Observe({})

Withdraw(t) ==
  /\ CancelTask(t)
  /\ Become({t}, "out")
  /\ Observe({})

WithdrawRun(r) ==
  /\ Become(QueuedOf(r), "out")
  /\ CancelRun(r)
  /\ Observe({})

Drain ==
  /\ Become(queued, "out")
  /\ DrainAll
  /\ Observe({})

Next ==
  \/ \E t \in Tasks :
       Offer(t) \/ Refused(t) \/ Dispatch(t) \/ Finish(t) \/ Withdraw(t)
  \/ \E r \in Runs : WithdrawRun(r)
  \/ Drain

Spec == Init /\ [][Next]_vars

-----------------------------------------------------------------------------
InFlight(s) == {t \in Tasks : phase[t] = "dispatched" /\ Counted(t) /\ SessionOf[t] = s}

(* A session's count is exactly its dispatched tool calls, so it never has *)
(* more than SessionCap of them and no slot leaks, whichever way tasks     *)
(* leave the queue.                                                        *)
SessionExact ==
  \A s \in Sessions : /\ sessions[s] = Cardinality(InFlight(s))
                      /\ sessions[s] <= SessionCap

(* The depth the cap is checked against is the number of queued tasks, and *)
(* never passes the cap.                                                   *)
TotalExact == total = Cardinality(queued) /\ total <= TotalCap

(* Both counters, kept apart from the lists they count at five places.     *)
CountsExact == SessionExact /\ TotalExact

(* Delayed, never starved: while a class is ready and is not served, any   *)
(* other class is served only until its virtual time has caught up, plus   *)
(* one task.  The wait is therefore bounded by how far the other class lay *)
(* behind when it began (an idle class is not brought forward).            *)
BoundedDelay ==
  \A d \in Ready : \A c \in overtook[d] :
    \E t \in Tasks : ClassOf[t] = c /\ vtime[c] <= vtime[d] + Increment(t)
=============================================================================
