------------------------ MODULE SchedulerProperties ------------------------
(***************************************************************************)
(* What the scheduler keeps true, and statements of its source that it     *)
(* does not keep.                                                          *)
(***************************************************************************)
EXTENDS Scheduler

Holders(h) == {t \in Tasks : h \in held[t]}

(* The gate channel holds one token per task between its gate and its      *)
(* release, so at most MaxRunning tasks run, and all of the running map.   *)
GateExact ==
  /\ gate = Cardinality(Holders("gate"))
  /\ gate <= MaxRunning
  /\ running = Holders("running") /\ running \subseteq Holders("gate")

InFlight(s) == {t \in Holders("session") : Kind[t] = "tool" /\ SessionOf[t] = s}

(* A session's in-flight count is its dispatched tool calls, up to the     *)
(* last deferred release, so the session ceiling is exact.                 *)
SessionExact ==
  \A s \in Sessions : /\ sessions[s] = Cardinality(InFlight(s))
                      /\ sessions[s] <= SessionCap

Leased(r) ==
  {t \in Tasks : ResourceOf[t] = r /\ ("lease" \in held[t] \/ mail[t] = "granted")}

(* The slots of a resource class are the leases held plus the grants in    *)
(* the mail, and nobody waits for a class that has a free slot.            *)
LeaseExact ==
  \A r \in Resources :
    /\ inUse[r] = Cardinality(Leased(r)) /\ inUse[r] <= Capacity[r]
    /\ waiters[r] # <<>> => inUse[r] = Capacity[r]

(* Tasks that hold a reservation of kind k.                                *)
Reserved(k) ==
  {t \in Tasks : Kind[t] = k /\
     \/ caller[t] \in {"enqueue", "settle"}
     \/ t \in queued
     \/ "depth" \in held[t]
     \/ t \in canceller[RunOf[t]].dropped \cup closer.dropped}

(* The queue depths the caps are checked against are exact and within the  *)
(* caps: no interleaving of dispatch, Cancel, CancelRun and Close releases *)
(* a reservation twice or not at all.                                      *)
DepthExact ==
  \A k \in Kinds : depth[k] = Cardinality(Reserved(k)) /\ depth[k] <= MaxQueued[k]

(* Accepted tasks that have not been counted out, and those that have not  *)
(* been counted in.                                                        *)
NotOut ==
  {t \in Tasks : \/ t \in queued \/ "inflight" \in held[t] \/ caller[t] = "settle"
                 \/ t \in canceller[RunOf[t]].dropped \cup closer.dropped}
NotIn == {t \in Tasks : caller[t] = "count"}

(* The in-flight counter is the accepted tasks that have not been counted  *)
(* out less those that have not been counted in: every accepted task is    *)
(* added once and subtracted once, on whichever path it ends.  While one   *)
(* is not yet counted in, the counter is too low, and may be negative      *)
(* (WaitSeesAccepted, below).                                              *)
InflightExact == inflight = Cardinality(NotOut) - Cardinality(NotIn)

(* The queue depths, the session counts, the gate and the resource slots   *)
(* are each the number of tasks that owe one, and within their ceilings;   *)
(* the in-flight counter is balanced.                                      *)
CountersExact ==
  DepthExact /\ InflightExact /\ SessionExact /\ GateExact /\ LeaseExact

(* Once a run is marked cancelled, each of its running tasks has its       *)
(* context cancelled or is on the list of the CancelRun that marked it: no *)
(* task slips between the snapshot and its own dispatch.                   *)
CancelReachesAll ==
  \A t \in running :
    RunOf[t] \in cancelledRuns => t \in stopped \cup canceller[RunOf[t]].victims

(* SubmitWait answers success only for a task whose runner returned        *)
(* success.                                                                *)
SuccessIsReal ==
  \A t \in Tasks : result[t] = "ok" => outcome[t] = "ok"

Working == {"start", "acquire", "blocked", "gate", "register", "running", "finish"}

(* A task that came into the queue after Close had drained it, and after   *)
(* the dispatcher had ended (ClosedIsEmpty, below).                        *)
Stranded(t) ==
  /\ t \in queued /\ dispatcher = "off"
  /\ closer.step \in {"settle", "wait", "done", "expired"}

(* A caller that waits has its answer in the channel, or has a waiter that *)
(* will get it: its task is queued, at work, or among those that Close has *)
(* drained and is about to tell.  Only CancelRun leaves a caller without   *)
(* an answer (the engine then ends its context), and a Submit that passed  *)
(* the closed check before Close and enqueued after all of it.             *)
WaiterIsServed ==
  \A t \in Tasks : caller[t] = "wait" /\ stage[t] # "cancelled" /\ ~Stranded(t) =>
    \/ reply[t] # "none"
    \/ t \in waits /\ (t \in queued \/ stage[t] \in Working \/ t \in closer.dropped)

(* Every queued task leaves the system with all it took given back.        *)
TasksEnd == \A t \in Tasks : stage[t] = "queued" ~> stage[t] \in {"gone", "dropped", "cancelled"}

(* Every SubmitWait returns.                                               *)
CallersReturn == \A t \in Tasks : caller[t] = "admit" ~> caller[t] = "returned"

-----------------------------------------------------------------------------
(* Statements of the source that the code does not keep.                   *)

(* "Wait blocks until every accepted task has finished."                   *)
WaitSeesAccepted ==
  inflight <= 0 => \A t \in Tasks :
    caller[t] = "wait" => t \notin queued /\ "inflight" \notin held[t]

(* "Close stops accepting work, cancels everything in flight": after the   *)
(* cancel pass of Close a running task has a cancelled context.            *)
CloseCancelsAll ==
  closer.step \in {"drain", "settle", "wait", "done", "expired"}
    => running \subseteq stopped

(* "Stop the task": the task of a caller that gave up does not run with a  *)
(* live context.                                                           *)
AbandonedIsStopped ==
  \A t \in running : result[t] = "expired" => t \in stopped

(* "the completion path still cleans up its waiter entry": nothing stays   *)
(* in the waits map once the caller has returned and the task is over.     *)
NoStaleWaiter ==
  \A t \in waits : ~(caller[t] = "returned" /\ stage[t] \in {"none", "dropped", "cancelled", "gone"})

(* Once Close has drained the queue, the dispatcher has ended and Close    *)
(* has returned, no task is in a queue that nobody serves any more ("each  *)
(* abandoned task must ... fail its waiter").                              *)
ClosedIsEmpty == closer.step = "done" => queued = {}
=============================================================================
