----------------------------- MODULE Scheduler -----------------------------
(***************************************************************************)
(* The three-layer scheduler (internal/scheduler/scheduler.go, budget.go): *)
(* SubmitWait callers, the dispatch loop, one goroutine per dispatched     *)
(* task, CancelRun and Close, interleaved at their critical sections.  The *)
(* fair queue and the resource pool are the modules of those names.        *)
(*                                                                         *)
(* A task goroutine stacks a deferred release for everything it takes;     *)
(* held[t] is that stack (its order is fixed, so a set says it all), and   *)
(* after finish the releases run one by one, last taken first.             *)
(*                                                                         *)
(* Abstractions: task IDs are fresh, so a duplicate waiter does not occur; *)
(* the memory budget, notifications and Stats counters are left out; the   *)
(* wake channel only shortens the dispatcher's poll; one CancelRun per run *)
(* is in progress at a time.                                               *)
(***************************************************************************)
EXTENDS Integers, Sequences, FiniteSets

CONSTANTS
  Tasks, Runs, Sessions, NClasses, Resources,
  Kind, RunOf, SessionOf, ClassOf, Cost, ResourceOf,
  Weight, Scale, ClassCap, SessionCap,
  MaxQueued,     \* per kind: MaxQueuedRuns, MaxQueuedToolCalls
  Capacity,      \* per resource class
  MaxWaiters,
  MaxRunning     \* MaxRunningTasks, the capacity of the gate channel

Kinds == {"run", "tool"}

TotalCap == IF MaxQueued["tool"] > MaxQueued["run"]
            THEN MaxQueued["tool"] ELSE MaxQueued["run"]

ASSUME SchedulerAssumption ==
  /\ IsFiniteSet(Tasks)
  /\ Kind \in [Tasks -> Kinds]
  /\ RunOf \in [Tasks -> Runs]
  /\ SessionOf \in [Tasks -> Sessions] /\ SessionCap \in Nat
  /\ ResourceOf \in [Tasks -> Resources]
  /\ Capacity \in [Resources -> Nat] /\ MaxWaiters \in Nat
  /\ MaxQueued \in [Kinds -> Nat \ {0}]
  /\ MaxRunning \in Nat \ {0}

VARIABLES
  queued, ahead, total, vtime, sessions,   \* the fair queue
  inUse, waiters, mail, poolClosed,        \* the resource pool
  depth,          \* the budget's runQueue and toolQueue
  inflight,       \* the counter Wait watches
  gate,           \* slots taken in the gate channel
  running,        \* keys of the running map
  stopped,        \* tasks whose context was cancelled
  waits,          \* keys of the waits map
  cancelledRuns,
  closed,
  dispatcher,     \* the dispatch loop: "on" or "off"
  caller,         \* per task: where its SubmitWait caller is
  reply,          \* per task: content of the caller's one-place channel
  result,         \* per task: what SubmitWait returned
  stage,          \* per task: where the task is
  held,           \* per task: the releases its goroutine has deferred
  outcome,        \* per task: the error given to finish
  canceller,      \* per run: the CancelRun call in progress
  closer          \* the Close call

queueVars == <<queued, ahead, total, vtime, sessions>>
poolVars == <<inUse, waiters, mail, poolClosed>>
acctVars == <<depth, inflight>>
execVars == <<gate, running, stopped>>
askVars == <<waits, reply, caller, result>>
taskVars == <<stage, held, outcome>>
ctlVars == <<cancelledRuns, closed, canceller, closer, dispatcher>>
vars == <<queueVars, poolVars, acctVars, execVars, askVars, taskVars, ctlVars>>

Q == INSTANCE FairQueue
Pool == INSTANCE ResourcePool WITH Callers <- Tasks, Classes <- Resources

CallerStates == {"idle", "admit", "reserve", "enqueue", "count", "wait",
                 "cancel", "settle", "returned"}
Stages == {"none", "queued", "start", "acquire", "blocked", "gate", "register",
           "running", "finish", "unwind", "gone",
           "dropped",      \* by its own Cancel, or by Close
           "cancelled"}    \* dropped by CancelRun
Releases == {"running", "gate", "lease", "depth", "session", "inflight"}
Outcomes == {"none", "ok", "failed", "cancelled", "refused", "closed", "expired"}
CancelSteps == {"idle", "drop", "settle"}
CloseSteps == {"open", "pool", "stop", "drain", "settle", "wait", "done", "expired"}

TypeOK ==
  /\ Q!QueueTypeOK /\ Pool!PoolTypeOK
  /\ depth \in [Kinds -> Nat]
  /\ inflight \in Int
  /\ gate \in Nat
  /\ running \in SUBSET Tasks /\ stopped \in SUBSET Tasks /\ waits \in SUBSET Tasks
  /\ cancelledRuns \in SUBSET Runs
  /\ closed \in BOOLEAN
  /\ dispatcher \in {"on", "off"}
  /\ caller \in [Tasks -> CallerStates]
  /\ reply \in [Tasks -> Outcomes] /\ result \in [Tasks -> Outcomes]
  /\ stage \in [Tasks -> Stages]
  /\ held \in [Tasks -> SUBSET Releases]
  /\ outcome \in [Tasks -> Outcomes]
  /\ canceller \in [Runs -> [step : CancelSteps, victims : SUBSET Tasks, dropped : SUBSET Tasks]]
  /\ closer \in [step : CloseSteps, victims : SUBSET Tasks, dropped : SUBSET Tasks]

Init ==
  /\ Q!QueueInit /\ Pool!PoolInit
  /\ depth = [k \in Kinds |-> 0]
  /\ inflight = 0 /\ gate = 0
  /\ running = {} /\ stopped = {} /\ waits = {} /\ cancelledRuns = {}
  /\ closed = FALSE /\ dispatcher = "on"
  /\ caller = [t \in Tasks |-> "idle"]
  /\ reply = [t \in Tasks |-> "none"] /\ result = [t \in Tasks |-> "none"]
  /\ stage = [t \in Tasks |-> "none"]
  /\ held = [t \in Tasks |-> {}]
  /\ outcome = [t \in Tasks |-> "none"]
  /\ canceller = [r \in Runs |-> [step |-> "idle", victims |-> {}, dropped |-> {}]]
  /\ closer = [step |-> "open", victims |-> {}, dropped |-> {}]

(* ReleaseQueue for n tasks of one kind: floors at zero.                   *)
ReleaseDepth(k, n) ==
  depth' = [depth EXCEPT ![k] = IF @ > n THEN @ - n ELSE 0]

-----------------------------------------------------------------------------
(* SubmitWait, one step per lock taken.                                    *)

CallerTo(t, s) == caller' = [caller EXCEPT ![t] = s]

Return(t, r) == CallerTo(t, "returned") /\ result' = [result EXCEPT ![t] = r]

(* A Submit that fails: SubmitWait withdraws its waiter and returns.       *)
Fail(t, r) == Return(t, r) /\ waits' = waits \ {t}

Proceed(t, s) == CallerTo(t, s) /\ UNCHANGED <<result, waits>>

(* The waiter is registered under the scheduler's lock.                    *)
SubmitWait(t) ==
  /\ caller[t] = "idle"
  /\ \/ closed /\ Fail(t, "closed")
     \/ ~closed /\ CallerTo(t, "admit") /\ waits' = waits \cup {t} /\ UNCHANGED result
  /\ UNCHANGED <<queueVars, poolVars, acctVars, execVars, taskVars, ctlVars, reply>>

Room(t) == depth[Kind[t]] < MaxQueued[Kind[t]]

(* Submit: AdmitQueue, then the closed check.                              *)
Admit(t) ==
  /\ caller[t] = "admit"
  /\ \/ ~Room(t) /\ Fail(t, "refused")
     \/ Room(t) /\ closed /\ Fail(t, "closed")
     \/ Room(t) /\ ~closed /\ Proceed(t, "reserve")
  /\ UNCHANGED <<queueVars, poolVars, acctVars, execVars, taskVars, ctlVars, reply>>

(* Submit: ReserveQueue checks the cap again and counts the task.          *)
Reserve(t) ==
  /\ caller[t] = "reserve"
  /\ \/ ~Room(t) /\ Fail(t, "refused") /\ UNCHANGED depth
     \/ Room(t) /\ depth' = [depth EXCEPT ![Kind[t]] = @ + 1] /\ Proceed(t, "enqueue")
  /\ UNCHANGED <<queueVars, poolVars, inflight, execVars, taskVars, ctlVars, reply>>

(* Submit: the fair queue takes the task, or the reservation is returned.  *)
Enqueue(t) ==
  /\ caller[t] = "enqueue"
  /\ \/ /\ Q!Enqueue(t)
        /\ stage' = [stage EXCEPT ![t] = "queued"]
        /\ Proceed(t, "count") /\ UNCHANGED depth
     \/ /\ Q!QueueFull(t)
        /\ ReleaseDepth(Kind[t], 1)
        /\ Fail(t, "refused") /\ UNCHANGED <<queueVars, stage>>
  /\ UNCHANGED <<poolVars, inflight, execVars, reply, held, outcome, ctlVars>>

(* Submit: the task is counted in flight, after it became dispatchable.    *)
Count(t) ==
  /\ caller[t] = "count"
  /\ inflight' = inflight + 1
  /\ Proceed(t, "wait")
  /\ UNCHANGED <<queueVars, poolVars, depth, execVars, taskVars, ctlVars, reply>>

(* The select of SubmitWait: the answer, or the caller's context ends.     *)
Answered(t) ==
  /\ caller[t] = "wait" /\ reply[t] # "none"
  /\ Return(t, reply[t])
  /\ UNCHANGED <<queueVars, poolVars, acctVars, execVars, taskVars, ctlVars, reply, waits>>

GiveUp(t) ==
  /\ caller[t] = "wait"
  /\ Proceed(t, "cancel")
  /\ UNCHANGED <<queueVars, poolVars, acctVars, execVars, taskVars, ctlVars, reply>>

(* Cancel: a queued task leaves the queue; a running one has its context   *)
(* cancelled; anything else is NotFound, which SubmitWait ignores.         *)
Cancel(t) ==
  /\ caller[t] = "cancel"
  /\ \/ /\ Q!CancelTask(t)
        /\ stage' = [stage EXCEPT ![t] = "dropped"]
        /\ CallerTo(t, "settle") /\ UNCHANGED <<stopped, result>>
     \/ /\ t \notin queued
        /\ stopped' = stopped \cup (running \cap {t})
        /\ Return(t, "expired") /\ UNCHANGED <<queueVars, stage>>
  /\ UNCHANGED <<poolVars, acctVars, gate, running, waits, reply, held, outcome, ctlVars>>

(* Answer whoever still waits for the tasks S; their entries are removed   *)
(* under the lock first, so each channel is sent to at most once.          *)
Answer(S, o) ==
  /\ waits' = waits \ S
  /\ reply' = [t \in Tasks |-> IF t \in S \cap waits THEN o[t] ELSE reply[t]]

Same(o) == [t \in Tasks |-> o]

(* Cancel, after the removal: the accounting of a queued task.  The kind   *)
(* is written as a tool call whatever the task was.                        *)
CancelSettle(t) ==
  /\ caller[t] = "settle"
  /\ Answer({t}, Same("cancelled"))
  /\ ReleaseDepth("tool", 1)
  /\ inflight' = inflight - 1
  /\ Return(t, "expired")
  /\ UNCHANGED <<queueVars, poolVars, execVars, taskVars, ctlVars>>

-----------------------------------------------------------------------------
(* dispatchLoop and runTask.                                               *)

(* The task goes on to stage s with the releases S deferred; it ends with  *)
(* error o and finish comes next; it runs the deferred release h.          *)
Advance(t, s, S) ==
  /\ stage' = [stage EXCEPT ![t] = s]
  /\ held' = [held EXCEPT ![t] = @ \cup S]
  /\ UNCHANGED outcome

EndWith(t, o) ==
  /\ stage' = [stage EXCEPT ![t] = "finish"]
  /\ outcome' = [outcome EXCEPT ![t] = o]
  /\ UNCHANGED held

Unwind(t, h) ==
  /\ stage[t] = "unwind" /\ h \in held[t]
  /\ held' = [held EXCEPT ![t] = @ \ {h}]
  /\ UNCHANGED outcome

(* The single dispatcher takes what the fair queue selects and starts a    *)
(* goroutine that owns the session lease, the reservation and the count.   *)
Dispatch(t) ==
  /\ dispatcher = "on"
  /\ Q!Dequeue(t)
  /\ Advance(t, "start", {"inflight", "session", "depth"})
  /\ UNCHANGED <<poolVars, acctVars, execVars, askVars, ctlVars>>

(* The poll that finds the scheduler closed and the queue empty.           *)
DispatcherExit ==
  /\ dispatcher = "on" /\ closed /\ total = 0
  /\ dispatcher' = "off"
  /\ UNCHANGED <<queueVars, poolVars, acctVars, execVars, askVars, taskVars,
                 cancelledRuns, closed, canceller, closer>>

(* runCancelled, before anything is acquired.                              *)
Start(t) ==
  /\ stage[t] = "start"
  /\ IF RunOf[t] \in cancelledRuns THEN EndWith(t, "cancelled")
     ELSE Advance(t, IF Kind[t] = "tool" THEN "acquire" ELSE "gate", {})
  /\ UNCHANGED <<queueVars, poolVars, acctVars, execVars, askVars, ctlVars>>

(* Layer 3: resources.Acquire with a context that nobody cancels.          *)
AcquireLease(t) ==
  /\ stage[t] = "acquire"
  /\ \/ Pool!TakeSlot(ResourceOf[t]) /\ Advance(t, "gate", {"lease"})
     \/ Pool!JoinWaiters(t, ResourceOf[t]) /\ Advance(t, "blocked", {})
     \/ Pool!Refused(ResourceOf[t]) /\ EndWith(t, IF poolClosed THEN "closed" ELSE "refused")
  /\ UNCHANGED <<queueVars, acctVars, execVars, askVars, ctlVars>>

(* Mutant: the release of a handed-off lease is not deferred.              *)
LeaseArrives_NoDefer(t) ==
  /\ stage[t] = "blocked"
  /\ \/ Pool!ReadMail(t, "granted") /\ Advance(t, "gate", {})
     \/ Pool!ReadMail(t, "closed") /\ EndWith(t, "closed")
  /\ UNCHANGED <<queueVars, acctVars, execVars, askVars, ctlVars>>

(* A blocked Acquire is woken by a hand-off or by the pool's Close.        *)
LeaseArrives(t) ==
  /\ stage[t] = "blocked"
  /\ \/ Pool!ReadMail(t, "granted") /\ Advance(t, "gate", {"lease"})
     \/ Pool!ReadMail(t, "closed") /\ EndWith(t, "closed")
  /\ UNCHANGED <<queueVars, acctVars, execVars, askVars, ctlVars>>

(* Mutant: the place in the gate is not given back.                        *)
EnterGate_NoDefer(t) ==
  /\ stage[t] = "gate"
  /\ \/ gate < MaxRunning /\ gate' = gate + 1 /\ Advance(t, "register", {})
     \/ gate >= MaxRunning /\ EndWith(t, "refused") /\ UNCHANGED gate
  /\ UNCHANGED <<queueVars, poolVars, acctVars, running, stopped, askVars, ctlVars>>

(* Layer 1: the global gate, fail fast.                                    *)
EnterGate(t) ==
  /\ stage[t] = "gate"
  /\ \/ gate < MaxRunning /\ gate' = gate + 1 /\ Advance(t, "register", {"gate"})
     \/ gate >= MaxRunning /\ EndWith(t, "refused") /\ UNCHANGED gate
  /\ UNCHANGED <<queueVars, poolVars, acctVars, running, stopped, askVars, ctlVars>>

(* Mutant: the second look at cancelledRuns is dropped.                    *)
Register_NoRecheck(t) ==
  /\ stage[t] = "register"
  /\ running' = running \cup {t} /\ Advance(t, "running", {"running"})
  /\ UNCHANGED <<queueVars, poolVars, acctVars, gate, stopped, askVars, ctlVars>>

(* Under the scheduler's lock: cancelledRuns once more, then the task      *)
(* enters the running map.                                                 *)
Register(t) ==
  /\ stage[t] = "register"
  /\ \/ RunOf[t] \in cancelledRuns /\ EndWith(t, "cancelled") /\ UNCHANGED running
     \/ /\ RunOf[t] \notin cancelledRuns
        /\ running' = running \cup {t} /\ Advance(t, "running", {"running"})
  /\ UNCHANGED <<queueVars, poolVars, acctVars, gate, stopped, askVars, ctlVars>>

(* runContained: the runner returns or panics; a cancelled context may     *)
(* make it return a cancellation.                                          *)
RunnerReturns(t) ==
  /\ stage[t] = "running"
  /\ \E o \in {"ok", "failed", "cancelled"} :
       (o = "cancelled" => t \in stopped) /\ EndWith(t, o)
  /\ UNCHANGED <<queueVars, poolVars, acctVars, execVars, askVars, ctlVars>>

(* Mutant: the waiter is removed but not told.                             *)
Finish_Silent(t) ==
  /\ stage[t] = "finish"
  /\ waits' = waits \ {t}
  /\ Advance(t, "unwind", {})
  /\ UNCHANGED <<queueVars, poolVars, acctVars, execVars, caller, result, reply, ctlVars>>

(* finish: the waiter, if there still is one, gets the outcome.            *)
Finish(t) ==
  /\ stage[t] = "finish"
  /\ Answer({t}, outcome)
  /\ Advance(t, "unwind", {})
  /\ UNCHANGED <<queueVars, poolVars, acctVars, execVars, caller, result, ctlVars>>

(* The deferred releases, last taken first.                                *)
Unregister(t) ==
  /\ Unwind(t, "running")
  /\ running' = running \ {t}
  /\ UNCHANGED <<queueVars, poolVars, acctVars, gate, stopped, askVars, stage, ctlVars>>

LeaveGate(t) ==
  /\ Unwind(t, "gate") /\ "running" \notin held[t]
  /\ gate' = gate - 1
  /\ UNCHANGED <<queueVars, poolVars, acctVars, running, stopped, askVars, stage, ctlVars>>

ReleaseLease(t) ==
  /\ Unwind(t, "lease") /\ "gate" \notin held[t]
  /\ Pool!Release(ResourceOf[t])
  /\ UNCHANGED <<queueVars, acctVars, execVars, askVars, stage, ctlVars>>

ReleaseReservation(t) ==
  /\ Unwind(t, "depth") /\ held[t] \cap {"running", "gate", "lease"} = {}
  /\ ReleaseDepth(Kind[t], 1)
  /\ UNCHANGED <<queueVars, poolVars, inflight, execVars, askVars, stage, ctlVars>>

ReleaseSession(t) ==
  /\ Unwind(t, "session") /\ "depth" \notin held[t]
  /\ Q!Release(t)
  /\ UNCHANGED <<poolVars, acctVars, execVars, askVars, stage, ctlVars>>

Uncount(t) ==
  /\ Unwind(t, "inflight") /\ held[t] = {"inflight"}
  /\ inflight' = inflight - 1
  /\ stage' = [stage EXCEPT ![t] = "gone"]
  /\ UNCHANGED <<queueVars, poolVars, depth, execVars, askVars, ctlVars>>

-----------------------------------------------------------------------------
(* CancelRun.                                                              *)

RunningOf(r) == {t \in running : RunOf[t] = r}

(* The mark and the snapshot of running tasks share one critical section.  *)
CancelRunMark(r) ==
  /\ canceller[r].step = "idle"
  /\ cancelledRuns' = cancelledRuns \cup {r}
  /\ canceller' = [canceller EXCEPT ![r].step = "drop", ![r].victims = RunningOf(r)]
  /\ UNCHANGED <<queueVars, poolVars, acctVars, execVars, askVars, taskVars,
                 closed, closer, dispatcher>>

DropAll(S, s) == stage' = [t \in Tasks |-> IF t \in S THEN s ELSE stage[t]]

CancelRunDrop(r) ==
  /\ canceller[r].step = "drop"
  /\ canceller' = [canceller EXCEPT ![r].step = "settle", ![r].dropped = Q!QueuedOf(r)]
  /\ Q!CancelRun(r)
  /\ DropAll(Q!QueuedOf(r), "cancelled")
  /\ UNCHANGED <<poolVars, acctVars, execVars, askVars, held, outcome,
                 cancelledRuns, closed, closer, dispatcher>>

NoCanceller == [step |-> "idle", victims |-> {}, dropped |-> {}]

(* The dropped tasks leave the accounting, as tool calls; their waiters    *)
(* are not told.  Then the snapshot's contexts are cancelled.              *)
CancelRunSettle(r) ==
  /\ canceller[r].step = "settle"
  /\ ReleaseDepth("tool", Cardinality(canceller[r].dropped))
  /\ inflight' = inflight - Cardinality(canceller[r].dropped)
  /\ stopped' = stopped \cup canceller[r].victims
  /\ canceller' = [canceller EXCEPT ![r] = NoCanceller]
  /\ UNCHANGED <<queueVars, poolVars, gate, running, askVars, taskVars,
                 cancelledRuns, closed, closer, dispatcher>>

(* ClearRunCancellation, when the engine resumes a parked run: its agent   *)
(* loop has ended, so it has no SubmitWait call in progress.               *)
ClearRunCancellation(r) ==
  /\ r \in cancelledRuns
  /\ \A t \in Tasks : RunOf[t] = r => caller[t] \in {"idle", "returned"}
  /\ cancelledRuns' = cancelledRuns \ {r}
  /\ UNCHANGED <<queueVars, poolVars, acctVars, execVars, askVars, taskVars,
                 closed, canceller, closer, dispatcher>>

-----------------------------------------------------------------------------
(* Close.                                                                  *)

CloserAt(s, next) == closer.step = s /\ closer' = [closer EXCEPT !.step = next]

Close ==
  /\ closer.step = "open"
  /\ closer' = [closer EXCEPT !.step = "pool", !.victims = running]
  /\ closed' = TRUE
  /\ UNCHANGED <<queueVars, poolVars, acctVars, execVars, askVars, taskVars,
                 cancelledRuns, canceller, dispatcher>>

ClosePool ==
  /\ CloserAt("pool", "stop")
  /\ Pool!ClosePool
  /\ UNCHANGED <<queueVars, acctVars, execVars, askVars, taskVars,
                 cancelledRuns, closed, canceller, dispatcher>>

CloseStop ==
  /\ CloserAt("stop", "drain")
  /\ stopped' = stopped \cup closer.victims
  /\ UNCHANGED <<queueVars, poolVars, acctVars, gate, running, askVars, taskVars,
                 cancelledRuns, closed, canceller, dispatcher>>

CloseDrain ==
  /\ closer.step = "drain"
  /\ closer' = [closer EXCEPT !.step = "settle", !.dropped = queued]
  /\ Q!DrainAll
  /\ DropAll(queued, "dropped")
  /\ UNCHANGED <<poolVars, acctVars, execVars, askVars, held, outcome,
                 cancelledRuns, closed, canceller, dispatcher>>

(* Every abandoned task leaves the accounting and its waiter is told.      *)
Settling ==
  /\ closer.step = "settle"
  /\ closer' = [closer EXCEPT !.step = "wait", !.dropped = {}]
  /\ UNCHANGED <<queueVars, poolVars, execVars, caller, result, taskVars,
                 cancelledRuns, closed, canceller, dispatcher>>
DrainedDepth ==
  LET n(k) == Cardinality({t \in closer.dropped : Kind[t] = k})
  IN depth' = [k \in Kinds |-> IF depth[k] > n(k) THEN depth[k] - n(k) ELSE 0]
DrainedCount == inflight' = inflight - Cardinality(closer.dropped)

(* Mutants: the reservations are kept; the waiters are not told; their     *)
(* channels are closed, so they read a nil error.                          *)
CloseSettle_KeepDepth ==
  Settling /\ UNCHANGED depth /\ DrainedCount /\ Answer(closer.dropped, Same("closed"))
CloseSettle_Silent ==
  Settling /\ DrainedDepth /\ DrainedCount /\ UNCHANGED <<waits, reply>>
CloseSettle_Nil ==
  Settling /\ DrainedDepth /\ DrainedCount /\ Answer(closer.dropped, Same("ok"))

CloseSettle ==
  Settling /\ DrainedDepth /\ DrainedCount /\ Answer(closer.dropped, Same("closed"))

(* Close returns: Wait saw nothing in flight and the dispatcher ended, or  *)
(* one of the two waits (10s, 1s) timed out.                               *)
CloseReturns ==
  /\ \/ inflight <= 0 /\ dispatcher = "off" /\ CloserAt("wait", "done")
     \/ (inflight > 0 \/ dispatcher = "on") /\ CloserAt("wait", "expired")
  /\ UNCHANGED <<queueVars, poolVars, acctVars, execVars, askVars, taskVars,
                 cancelledRuns, closed, canceller, dispatcher>>
-----------------------------------------------------------------------------
CallerStep(t) ==
  \/ SubmitWait(t) \/ Admit(t) \/ Reserve(t) \/ Enqueue(t) \/ Count(t)
  \/ Answered(t) \/ GiveUp(t) \/ Cancel(t) \/ CancelSettle(t)

TaskStep(t) ==
  \/ Dispatch(t) \/ Start(t) \/ AcquireLease(t) \/ LeaseArrives(t)
  \/ EnterGate(t) \/ Register(t) \/ RunnerReturns(t) \/ Finish(t)
  \/ Unregister(t) \/ LeaveGate(t) \/ ReleaseLease(t)
  \/ ReleaseReservation(t) \/ ReleaseSession(t) \/ Uncount(t)

RunStep(r) ==
  CancelRunMark(r) \/ CancelRunDrop(r) \/ CancelRunSettle(r) \/ ClearRunCancellation(r)

CloseStep ==
  \/ Close \/ ClosePool \/ CloseStop \/ CloseDrain \/ CloseSettle \/ CloseReturns
  \/ DispatcherExit

Next ==
  \/ \E t \in Tasks : CallerStep(t) \/ TaskStep(t)
  \/ \E r \in Runs : RunStep(r)
  \/ CloseStep

Spec == Init /\ [][Next]_vars

(* The scheduler while nobody closes it, while nobody cancels a run or     *)
(* closes it, and while no run is cancelled.                               *)
OpenNext ==
  \/ \E t \in Tasks : CallerStep(t) \/ TaskStep(t)
  \/ \E r \in Runs : RunStep(r)

QuietNext == \E t \in Tasks : CallerStep(t) \/ TaskStep(t)

ClosingNext ==
  \/ \E t \in Tasks : CallerStep(t) \/ TaskStep(t)
  \/ CloseStep

OpenSpec == Init /\ [][OpenNext]_vars
QuietSpec == Init /\ [][QuietNext]_vars
ClosingSpec == Init /\ [][ClosingNext]_vars

(* Submitters, the dispatcher and every goroutine keep running; a runner   *)
(* returns because its context and its own timeout end it.  A caller's     *)
(* context is only sure to end when CancelRun dropped its task: the engine *)
(* cancels the run's context right after that call.                        *)
CallerProgress(t) ==
  \/ Admit(t) \/ Reserve(t) \/ Enqueue(t) \/ Count(t)
  \/ Answered(t) \/ Cancel(t) \/ CancelSettle(t)

Fairness ==
  /\ \A t \in Tasks : /\ WF_vars(CallerProgress(t))
                       /\ WF_vars(stage[t] = "cancelled" /\ GiveUp(t))
                       /\ WF_vars(TaskStep(t))
  /\ \A r \in Runs : WF_vars(CancelRunDrop(r) \/ CancelRunSettle(r))

FairQuietSpec == Init /\ [][QuietNext]_vars /\ Fairness
FairOpenSpec == Init /\ [][OpenNext]_vars /\ Fairness
=============================================================================
