--------------------------- MODULE SchedulerProofs ---------------------------
(***************************************************************************)
(* Proofs about the scheduler with Submit, Cancel, CancelRun and Close at  *)
(* any moment, for every number of tasks and runs: every counter is what   *)
(* it counts, CancelRun reaches every running task of its run, no waiting  *)
(* caller is left without an answer but by CancelRun or by a Submit that   *)
(* overtook Close, and the pool is used the way its own theorems ask.      *)
(*                                                                         *)
(* The argument for the gate.  A goroutine's deferred releases and its     *)
(* place agree: before the gate it has none for it, and a task enters the  *)
(* queue once, before it has deferred anything.  For CancelRun: the mark   *)
(* and the snapshot are one critical section, and Register looks at the    *)
(* mark in the section that makes the task visible to the snapshot.  For   *)
(* the counters: a task is removed from the queue once, and stays with its *)
(* remover until it is taken out of every count (DropInv).                 *)
(***************************************************************************)
EXTENDS SchedulerProperties, FiniteSetTheorems, TLAPS

(* A canceller's record has its fields, whatever they hold.                *)
CancellerOK ==
  /\ canceller = [r \in Runs |-> canceller[r]]
  /\ \A r \in Runs : /\ "step" \in DOMAIN canceller[r]
                     /\ "victims" \in DOMAIN canceller[r]
                     /\ "dropped" \in DOMAIN canceller[r]

ReachInv == CancellerOK /\ cancelledRuns \subseteq Runs /\ CancelReachesAll

-----------------------------------------------------------------------------
(* Where no task begins to run, no run is marked and no victim forgotten.  *)
LEMMA ReachKept ==
  ASSUME ReachInv, running' \subseteq running, cancelledRuns' \subseteq cancelledRuns,
         stopped \subseteq stopped', UNCHANGED canceller
  PROVE  ReachInv'
BY DEF ReachInv, CancellerOK, CancelReachesAll

LEMMA ReachInit == Init => ReachInv
BY DEF Init, ReachInv, CancellerOK, CancelReachesAll

LEMMA ReachCallers ==
  ASSUME ReachInv, NEW t \in Tasks, CallerStep(t)
  PROVE  ReachInv'
<1>1. /\ UNCHANGED <<running, cancelledRuns, canceller>>
      /\ stopped \subseteq stopped'
  BY DEF CallerStep, SubmitWait, Admit, Reserve, Enqueue, Count, Answered, GiveUp, Cancel,
     CancelSettle, execVars, ctlVars
<1> QED
  BY <1>1, ReachKept

LEMMA ReachTasks ==
  ASSUME ReachInv, NEW t \in Tasks, TaskStep(t)
  PROVE  ReachInv'
<1>1. UNCHANGED <<stopped, cancelledRuns, canceller>>
  BY DEF TaskStep, Dispatch, Start, AcquireLease, LeaseArrives, EnterGate, Register,
     RunnerReturns, Finish, Unregister, LeaveGate, ReleaseLease, ReleaseReservation,
     ReleaseSession, Uncount, execVars, ctlVars
<1>2. CASE Register(t) /\ running' = running \cup {t}
  <2>1. RunOf[t] \notin cancelledRuns \/ running' = running
    BY <1>2 DEF Register
  <2> QED
    BY <1>1, <1>2, <2>1 DEF ReachInv, CancellerOK, CancelReachesAll
<1>3. CASE running' \subseteq running
  BY <1>1, <1>3, ReachKept
<1> QED
  BY <1>2, <1>3 DEF TaskStep, Dispatch, Start, AcquireLease, LeaseArrives, EnterGate, Register,
     RunnerReturns, Finish, Unregister, LeaveGate, ReleaseLease, ReleaseReservation,
     ReleaseSession, Uncount, execVars

LEMMA ReachMark ==
  ASSUME ReachInv, NEW r \in Runs, CancelRunMark(r)
  PROVE  ReachInv'
<1>1. canceller' = [canceller EXCEPT ![r] =
                      [canceller[r] EXCEPT !.step = "drop", !.victims = RunningOf(r)]]
  BY DEF CancelRunMark
<1>2. canceller'[r] = [canceller[r] EXCEPT !.step = "drop", !.victims = RunningOf(r)]
      /\ \A x \in Runs \ {r} : canceller'[x] = canceller[x]
  BY <1>1 DEF ReachInv, CancellerOK
<1>3. canceller'[r].victims = RunningOf(r) /\ DOMAIN canceller'[r] = DOMAIN canceller[r]
  BY <1>2 DEF ReachInv, CancellerOK
<1>4. CancellerOK'
  BY <1>1, <1>2, <1>3 DEF ReachInv, CancellerOK
<1>5. UNCHANGED <<running, stopped>> /\ cancelledRuns' = cancelledRuns \cup {r}
  BY DEF CancelRunMark, execVars
<1>6. ASSUME NEW t \in running', RunOf[t] \in cancelledRuns'
      PROVE  t \in stopped' \cup canceller'[RunOf[t]].victims
  <2>1. CASE RunOf[t] = r
    BY <1>3, <1>5, <1>6, <2>1 DEF RunningOf
  <2>2. CASE RunOf[t] # r
    <3>1. t \in stopped \cup canceller[RunOf[t]].victims
      BY <1>5, <1>6, <2>2 DEF ReachInv, CancelReachesAll
    <3>2. RunOf[t] \in Runs \ {r}
      BY <1>5, <1>6, <2>2 DEF ReachInv
    <3> QED
      BY <1>2, <1>5, <3>1, <3>2
  <2> QED
    BY <2>1, <2>2
<1> QED
  BY <1>4, <1>5, <1>6 DEF ReachInv, CancelReachesAll

(* The drop leaves every snapshot as it was.                               *)
LEMMA ReachDrop ==
  ASSUME ReachInv, NEW r \in Runs, CancelRunDrop(r)
  PROVE  ReachInv'
<1>1. canceller' = [canceller EXCEPT ![r] =
                      [canceller[r] EXCEPT !.step = "settle", !.dropped = Q!QueuedOf(r)]]
  BY DEF CancelRunDrop
<1>2. \A x \in Runs : /\ DOMAIN canceller'[x] = DOMAIN canceller[x]
                      /\ canceller'[x].victims = canceller[x].victims
  BY <1>1 DEF ReachInv, CancellerOK
<1>3. CancellerOK'
  BY <1>1, <1>2 DEF ReachInv, CancellerOK
<1>4. UNCHANGED <<running, stopped, cancelledRuns>>
  BY DEF CancelRunDrop, execVars
<1>5. ASSUME NEW t \in running', RunOf[t] \in cancelledRuns'
      PROVE  t \in stopped' \cup canceller'[RunOf[t]].victims
  <2>1. RunOf[t] \in Runs /\ t \in stopped \cup canceller[RunOf[t]].victims
    BY <1>4, <1>5 DEF ReachInv, CancelReachesAll
  <2> QED
    BY <1>2, <1>4, <2>1
<1> QED
  BY <1>3, <1>4, <1>5 DEF ReachInv, CancelReachesAll

(* The settlement forgets its snapshot once every context in it is ended.  *)
LEMMA ReachSettle ==
  ASSUME ReachInv, NEW r \in Runs, CancelRunSettle(r)
  PROVE  ReachInv'
<1>1. canceller' = [canceller EXCEPT ![r] = NoCanceller]
  BY DEF CancelRunSettle
<1>2. canceller'[r] = NoCanceller /\ \A x \in Runs \ {r} : canceller'[x] = canceller[x]
  BY <1>1 DEF ReachInv, CancellerOK
<1>3. CancellerOK'
  BY <1>1, <1>2 DEF ReachInv, CancellerOK, NoCanceller
<1>4. UNCHANGED <<running, cancelledRuns>> /\ stopped' = stopped \cup canceller[r].victims
  BY DEF CancelRunSettle
<1>5. ASSUME NEW t \in running', RunOf[t] \in cancelledRuns'
      PROVE  t \in stopped' \cup canceller'[RunOf[t]].victims
  <2>1. RunOf[t] \in Runs /\ t \in stopped \cup canceller[RunOf[t]].victims
    BY <1>4, <1>5 DEF ReachInv, CancelReachesAll
  <2>2. CASE RunOf[t] = r
    BY <1>4, <2>1, <2>2
  <2>3. CASE RunOf[t] # r
    BY <1>2, <1>4, <2>1, <2>3
  <2> QED
    BY <2>2, <2>3
<1> QED
  BY <1>3, <1>4, <1>5 DEF ReachInv, CancelReachesAll

LEMMA ReachRuns ==
  ASSUME ReachInv, NEW r \in Runs, RunStep(r)
  PROVE  ReachInv'
<1>1. CASE ClearRunCancellation(r)
  BY <1>1, ReachKept DEF ClearRunCancellation, execVars
<1> QED
  BY <1>1, ReachMark, ReachDrop, ReachSettle DEF RunStep

(* Close ends contexts and begins nothing.                                 *)
LEMMA ReachClose ==
  ASSUME ReachInv, CloseStep
  PROVE  ReachInv'
<1>1. /\ UNCHANGED <<running, cancelledRuns, canceller>>
      /\ stopped \subseteq stopped'
  BY DEF CloseStep, Close, ClosePool, CloseStop, CloseDrain, CloseSettle, Settling,
     CloseReturns, DispatcherExit, execVars
<1> QED
  BY <1>1, ReachKept

-----------------------------------------------------------------------------
(* No running task escapes the cancellation of its run: CancelRun's mark   *)
(* and snapshot against runTask's registration, with every other caller,   *)
(* task and the Close call in between.                                     *)
THEOREM SchedulerCancelReachesAll == Spec => []CancelReachesAll
<1>1. ReachInv /\ [Next]_vars => ReachInv'
  <2> SUFFICES ASSUME ReachInv, [Next]_vars PROVE ReachInv'
    OBVIOUS
  <2>1. ASSUME NEW t \in Tasks, CallerStep(t) \/ TaskStep(t) PROVE ReachInv'
    BY <2>1, ReachCallers, ReachTasks
  <2>2. ASSUME NEW r \in Runs, RunStep(r) PROVE ReachInv'
    BY <2>2, ReachRuns
  <2>3. CASE UNCHANGED vars
    BY <2>3, ReachKept DEF vars, execVars, ctlVars
  <2> QED
    BY <2>1, <2>2, <2>3, ReachClose DEF Next
<1>2. ReachInv => CancelReachesAll
  BY DEF ReachInv
<1> QED
  BY ReachInit, <1>1, <1>2, PTL DEF Spec
-----------------------------------------------------------------------------
(* The places from which a goroutine has not passed the gate.              *)
BeforeGate ==
  {"none", "queued", "dropped", "cancelled", "start", "acquire", "blocked", "gate"}

(* A task's place, its caller's place and its deferred releases agree.     *)
Shape(t) ==
  /\ caller[t] \in {"idle", "admit", "reserve", "enqueue"} => stage[t] = "none"
  /\ t \in queued => stage[t] = "queued"
  /\ stage[t] \in BeforeGate => "gate" \notin held[t] /\ "running" \notin held[t]
  /\ stage[t] = "register" => "gate" \in held[t] /\ "running" \notin held[t]
  /\ "running" \in held[t] => "gate" \in held[t]
  /\ held[t] # {} => stage[t] \notin {"none", "queued", "dropped", "cancelled"}
  /\ "lease" \in held[t] => stage[t] \notin {"start", "acquire", "blocked"}
  /\ caller[t] = "settle" => stage[t] = "dropped"

GateTypes ==
  /\ caller \in [Tasks -> CallerStates]
  /\ stage \in [Tasks -> Stages]
  /\ held \in [Tasks -> SUBSET Releases]

ShapeInv == GateTypes /\ \A t \in Tasks : Shape(t)

LEMMA ShapeInit == Init => ShapeInv
BY DEF Init, ShapeInv, GateTypes, Shape, Q!QueueInit, CallerStates, Stages, Releases

(* A step that moves one task and lists no other.                          *)
LEMMA ShapeOne ==
  ASSUME ShapeInv, NEW t \in Tasks, GateTypes', Shape(t)',
         queued' \subseteq queued \cup {t},
         \A x \in Tasks \ {t} : /\ caller'[x] = caller[x]
                                /\ stage'[x] = stage[x]
                                /\ held'[x] = held[x]
  PROVE  ShapeInv'
BY DEF ShapeInv, Shape

(* A step of a caller that leaves every task in its place.                 *)
LEMMA ShapeWaits ==
  ASSUME ShapeInv, NEW t \in Tasks, NEW s \in CallerStates, CallerTo(t, s),
         s \in {"idle", "admit", "reserve", "enqueue"} => stage[t] = "none", s # "settle",
         queued' \subseteq queued, UNCHANGED <<stage, held>>
  PROVE  ShapeInv'
<1>1. GateTypes'
  BY DEF ShapeInv, GateTypes, CallerTo
<1>2. Shape(t)' /\ \A x \in Tasks \ {t} : caller'[x] = caller[x]
  BY DEF ShapeInv, GateTypes, Shape, CallerTo, CallerStates
<1> QED
  BY <1>1, <1>2, ShapeOne

LEMMA ShapeCallers ==
  ASSUME ShapeInv, NEW t \in Tasks, CallerStep(t)
  PROVE  ShapeInv'
<1>1. caller[t] \in {"idle", "admit", "reserve", "enqueue"} => stage[t] = "none"
  BY DEF ShapeInv, Shape
<1>2. CASE SubmitWait(t) \/ Admit(t) \/ Reserve(t)
  <2>1. CallerTo(t, "admit") \/ CallerTo(t, "reserve") \/ CallerTo(t, "enqueue")
          \/ CallerTo(t, "returned")
    BY <1>2 DEF SubmitWait, Admit, Reserve, Fail, Return, Proceed
  <2>2. stage[t] = "none" /\ UNCHANGED <<queued, stage, held>>
    BY <1>1, <1>2 DEF SubmitWait, Admit, Reserve, taskVars, queueVars
  <2> QED
    BY <2>1, <2>2, ShapeWaits DEF CallerStates
<1>3. CASE Enqueue(t)
  <2>1. CASE Q!Enqueue(t)
    <3>1. stage' = [stage EXCEPT ![t] = "queued"] /\ CallerTo(t, "count")
          /\ queued' = queued \cup {t} /\ UNCHANGED held
      BY <1>3, <2>1 DEF Enqueue, Proceed, Q!Enqueue, Q!QueueFull
    <3>2. stage[t] = "none"
      BY <1>1, <1>3 DEF Enqueue
    <3>3. GateTypes' /\ Shape(t)'
      BY <3>1, <3>2 DEF ShapeInv, GateTypes, Shape, CallerTo, BeforeGate, CallerStates, Stages
    <3> QED
      BY <3>1, <3>3, ShapeOne DEF ShapeInv, GateTypes, CallerTo
  <2>2. CASE ~Q!Enqueue(t)
    <3>1. CallerTo(t, "returned") /\ UNCHANGED <<queued, stage, held>>
      BY <1>3, <2>2 DEF Enqueue, Fail, Return, queueVars
    <3> QED
      BY <3>1, ShapeWaits DEF CallerStates
  <2> QED
    BY <2>1, <2>2
<1>4. CASE Count(t) \/ Answered(t) \/ GiveUp(t) \/ CancelSettle(t)
  <2>1. CallerTo(t, "wait") \/ CallerTo(t, "cancel") \/ CallerTo(t, "returned")
    BY <1>4 DEF Count, Answered, GiveUp, CancelSettle, Return, Proceed
  <2>2. UNCHANGED <<queued, stage, held>>
    BY <1>4 DEF Count, Answered, GiveUp, CancelSettle, taskVars, queueVars
  <2> QED
    BY <2>1, <2>2, ShapeWaits DEF CallerStates
<1>5. CASE Cancel(t)
  <2>1. CASE t \in queued
    <3>1. stage' = [stage EXCEPT ![t] = "dropped"] /\ CallerTo(t, "settle")
          /\ queued' = queued \ {t} /\ UNCHANGED held
      BY <1>5, <2>1 DEF Cancel, Q!CancelTask, Q!Unlink
    <3>2. stage[t] = "queued"
      BY <2>1 DEF ShapeInv, Shape
    <3>3. GateTypes' /\ Shape(t)'
      BY <3>1, <3>2 DEF ShapeInv, GateTypes, Shape, CallerTo, BeforeGate, CallerStates, Stages
    <3> QED
      BY <3>1, <3>3, ShapeOne DEF ShapeInv, GateTypes, CallerTo
  <2>2. CASE t \notin queued
    <3>1. CallerTo(t, "returned") /\ UNCHANGED <<queued, stage, held>>
      BY <1>5, <2>2 DEF Cancel, Return, queueVars, Q!CancelTask
    <3> QED
      BY <3>1, ShapeWaits DEF CallerStates
  <2> QED
    BY <2>1, <2>2
<1> QED
  BY <1>2, <1>3, <1>4, <1>5 DEF CallerStep

(* A goroutine goes on, with the releases S deferred, or comes to its end. *)
LEMMA ShapeAdvance ==
  ASSUME ShapeInv, NEW t \in Tasks, NEW s \in Stages, NEW S \in SUBSET Releases,
         Advance(t, s, S), stage[t] \notin {"none", "dropped", "cancelled"},
         s \notin {"none", "queued", "dropped", "cancelled"},
         s \in {"start", "acquire", "blocked"}
           => stage[t] \in {"queued", "start", "acquire"} /\ "lease" \notin S,
         t \notin queued', queued' \subseteq queued, UNCHANGED caller,
         \/ S \cap {"gate", "running"} = {} /\ s # "register"
              /\ (s \in BeforeGate => stage[t] \in BeforeGate)
         \/ stage[t] = "gate" /\ s = "register" /\ S = {"gate"}
         \/ stage[t] = "register" /\ s = "running" /\ S = {"running"}
  PROVE  ShapeInv'
<1>1. GateTypes'
  BY DEF ShapeInv, GateTypes, Advance
<1>2. stage'[t] = s /\ held'[t] = held[t] \cup S
  BY DEF ShapeInv, GateTypes, Advance
<1>3. Shape(t)'
  BY <1>2 DEF ShapeInv, Shape, BeforeGate
<1> QED
  BY <1>1, <1>3, ShapeOne DEF ShapeInv, GateTypes, Advance

LEMMA ShapeEnds ==
  ASSUME ShapeInv, NEW t \in Tasks, NEW o, EndWith(t, o),
         stage[t] \notin {"none", "queued", "dropped", "cancelled"},
         UNCHANGED <<queued, caller>>
  PROVE  ShapeInv'
<1>1. GateTypes'
  BY DEF ShapeInv, GateTypes, EndWith, Stages
<1>2. stage'[t] = "finish" /\ held' = held
  BY DEF ShapeInv, GateTypes, EndWith
<1>3. Shape(t)'
  BY <1>2 DEF ShapeInv, Shape, BeforeGate
<1> QED
  BY <1>1, <1>3, ShapeOne DEF ShapeInv, GateTypes, EndWith

(* A deferred release runs; the gate's comes after the running map's.      *)
LEMMA ShapeUnwinds ==
  ASSUME ShapeInv, NEW t \in Tasks, NEW h \in Releases, Unwind(t, h),
         h = "gate" => "running" \notin held[t],
         stage' = stage \/ stage' = [stage EXCEPT ![t] = "gone"],
         UNCHANGED <<queued, caller>>
  PROVE  ShapeInv'
<1>1. GateTypes'
  BY DEF ShapeInv, GateTypes, Unwind, Stages
<1>2. stage'[t] \in {"unwind", "gone"} /\ held'[t] = held[t] \ {h}
  BY DEF ShapeInv, GateTypes, Unwind
<1>3. Shape(t)'
  BY <1>2 DEF ShapeInv, Shape, BeforeGate, Unwind
<1> QED
  BY <1>1, <1>3, ShapeOne DEF ShapeInv, GateTypes, Unwind

LEMMA ShapeTasks ==
  ASSUME ShapeInv, NEW t \in Tasks, TaskStep(t)
  PROVE  ShapeInv'
<1> USE DEF Stages, Releases, BeforeGate
<1>0. /\ t \in queued => stage[t] = "queued"
      /\ UNCHANGED caller
  BY DEF ShapeInv, Shape, TaskStep, Dispatch, Start, AcquireLease, LeaseArrives, EnterGate,
     Register, RunnerReturns, Finish, Unregister, LeaveGate, ReleaseLease,
     ReleaseReservation, ReleaseSession, Uncount, askVars
<1>1. CASE Dispatch(t)
  <2>1. t \in queued /\ queued' = queued \ {t}
    BY <1>1 DEF Dispatch, Q!Dequeue, Q!Dispatchable, Q!Unlink
  <2> QED
    BY <1>0, <1>1, <2>1, ShapeAdvance DEF Dispatch
<1>2. CASE Start(t)
  BY <1>0, <1>2, ShapeAdvance, ShapeEnds DEF Start, queueVars
<1>3. CASE AcquireLease(t)
  BY <1>0, <1>3, ShapeAdvance, ShapeEnds DEF AcquireLease, queueVars
<1>4. CASE LeaseArrives(t)
  BY <1>0, <1>4, ShapeAdvance, ShapeEnds DEF LeaseArrives, queueVars
<1>5. CASE EnterGate(t)
  BY <1>0, <1>5, ShapeAdvance, ShapeEnds DEF EnterGate, queueVars
<1>6. CASE Register(t)
  BY <1>0, <1>6, ShapeAdvance, ShapeEnds DEF Register, queueVars
<1>7. CASE RunnerReturns(t)
  BY <1>0, <1>7, ShapeEnds DEF RunnerReturns, queueVars
<1>8. CASE Finish(t)
  BY <1>0, <1>8, ShapeAdvance DEF Finish, queueVars
<1>9. CASE Unregister(t) \/ LeaveGate(t) \/ ReleaseLease(t) \/ ReleaseReservation(t)
  BY <1>0, <1>9, ShapeUnwinds DEF Unregister, LeaveGate, ReleaseLease, ReleaseReservation,
     queueVars
<1>10. CASE ReleaseSession(t) \/ Uncount(t)
  BY <1>0, <1>10, ShapeUnwinds DEF ReleaseSession, Uncount, queueVars, Q!Release
<1> QED
  BY <1>1, <1>2, <1>3, <1>4, <1>5, <1>6, <1>7, <1>8, <1>9, <1>10 DEF TaskStep

(* Dropping listed tasks, or leaving every task where it is.               *)
LEMMA ShapeDrops ==
  ASSUME ShapeInv, NEW S \in SUBSET queued, NEW s \in {"dropped", "cancelled"},
         DropAll(S, s), queued' \subseteq queued \ S, UNCHANGED <<held, caller>>
  PROVE  ShapeInv'
<1>1. GateTypes'
  BY DEF ShapeInv, GateTypes, DropAll, Stages
<1>2. \A t \in Tasks : stage'[t] = IF t \in S THEN s ELSE stage[t]
  BY DEF DropAll
<1>3. \A t \in Tasks : Shape(t)'
  BY <1>2 DEF ShapeInv, Shape, BeforeGate
<1> QED
  BY <1>1, <1>3 DEF ShapeInv

LEMMA ShapeStays ==
  ASSUME ShapeInv, UNCHANGED <<queued, stage, held, caller>>
  PROVE  ShapeInv'
BY DEF ShapeInv, Shape, GateTypes

LEMMA ShapeRuns ==
  ASSUME ShapeInv, NEW r \in Runs, RunStep(r)
  PROVE  ShapeInv'
<1>1. CASE CancelRunDrop(r)
  <2>1. Q!QueuedOf(r) \subseteq queued /\ queued' = queued \ Q!QueuedOf(r)
    BY <1>1 DEF CancelRunDrop, Q!CancelRun, Q!Unlink, Q!QueuedOf
  <2> QED
    BY <1>1, <2>1, ShapeDrops DEF CancelRunDrop, askVars
<1>2. CASE ~CancelRunDrop(r)
  BY <1>2, ShapeStays DEF RunStep, CancelRunMark, CancelRunSettle, ClearRunCancellation,
     queueVars, askVars, taskVars
<1> QED
  BY <1>1, <1>2

LEMMA ShapeClose ==
  ASSUME ShapeInv, CloseStep
  PROVE  ShapeInv'
<1>1. CASE CloseDrain
  BY <1>1, ShapeDrops DEF CloseDrain, Q!DrainAll, askVars
<1>2. CASE ~CloseDrain
  BY <1>2, ShapeStays DEF CloseStep, Close, ClosePool, CloseStop, CloseSettle, Settling,
     CloseReturns, DispatcherExit, queueVars, askVars, taskVars
<1> QED
  BY <1>1, <1>2

-----------------------------------------------------------------------------
(* The gate, given the shapes.                                             *)
LEMMA HoldersFinite == \A h : IsFiniteSet(Holders(h)) /\ IsFiniteSet(Holders(h))'
BY SchedulerAssumption, FS_Subset DEF Holders

LEMMA HoldersGrow ==
  ASSUME ShapeInv, NEW t \in Tasks, NEW s, NEW S, Advance(t, s, S), NEW h
  PROVE  Holders(h)' = IF h \in S THEN Holders(h) \cup {t} ELSE Holders(h)
BY DEF ShapeInv, GateTypes, Advance, Holders

LEMMA HoldersShrink ==
  ASSUME ShapeInv, NEW t \in Tasks, NEW g, Unwind(t, g), NEW h
  PROVE  Holders(h)' = IF h = g THEN Holders(h) \ {t} ELSE Holders(h)
BY DEF ShapeInv, GateTypes, Unwind, Holders

(* Releases other than the gate's and the running map's leave both alone.  *)
LEMMA GateKept ==
  ASSUME GateExact, UNCHANGED <<gate, running>>,
         Holders("gate")' = Holders("gate"), Holders("running")' = Holders("running")
  PROVE  GateExact'
BY DEF GateExact

LEMMA GateStays ==
  ASSUME GateExact, UNCHANGED <<gate, running, held>>
  PROVE  GateExact'
BY GateKept DEF Holders

LEMMA GateInit == Init => GateExact
<1> SUFFICES ASSUME Init PROVE GateExact
  OBVIOUS
<1>1. Holders("gate") = {} /\ Holders("running") = {}
  BY DEF Init, Holders
<1>2. MaxRunning \in Nat
  BY SchedulerAssumption
<1>3. gate = 0 /\ running = {}
  BY DEF Init
<1>4. Cardinality(Holders("gate")) = 0
  BY <1>1, FS_EmptySet
<1> QED
  BY <1>1, <1>2, <1>3, <1>4 DEF GateExact

LEMMA GateCallers ==
  ASSUME GateExact, NEW t \in Tasks, CallerStep(t)
  PROVE  GateExact'
BY GateStays DEF CallerStep, SubmitWait, Admit, Reserve, Enqueue, Count, Answered, GiveUp,
   Cancel, CancelSettle, execVars, taskVars

LEMMA GateTasks ==
  ASSUME ShapeInv, GateExact, NEW t \in Tasks, TaskStep(t)
  PROVE  GateExact'
<1>1. CASE Dispatch(t)
  <2>1. Advance(t, "start", {"inflight", "session", "depth"}) /\ UNCHANGED <<gate, running>>
    BY <1>1 DEF Dispatch, execVars
  <2> QED
    BY <2>1, HoldersGrow, GateKept
<1>2. CASE Start(t)
  <2>1. CASE RunOf[t] \in cancelledRuns
    BY <1>2, <2>1, GateStays DEF Start, EndWith, execVars
  <2>2. CASE RunOf[t] \notin cancelledRuns
    <3>1. \E s : Advance(t, s, {}) /\ UNCHANGED <<gate, running>>
      BY <1>2, <2>2 DEF Start, execVars
    <3> QED
      BY <3>1, HoldersGrow, GateKept
  <2> QED
    BY <2>1, <2>2
<1>3. CASE AcquireLease(t) \/ LeaseArrives(t)
  <2>1. UNCHANGED <<gate, running>>
    BY <1>3 DEF AcquireLease, LeaseArrives, execVars
  <2>2. \/ Advance(t, "gate", {"lease"}) \/ Advance(t, "blocked", {})
        \/ UNCHANGED held
    BY <1>3 DEF AcquireLease, LeaseArrives, EndWith
  <2> QED
    BY <2>1, <2>2, HoldersGrow, GateKept, GateStays
<1>4. CASE EnterGate(t)
  <2>1. CASE gate < MaxRunning
    <3>1. gate \in Nat
      BY HoldersFinite, FS_CardinalityType DEF GateExact
    <3>2. MaxRunning \in Nat
      BY SchedulerAssumption
    <3>3. Advance(t, "register", {"gate"}) /\ gate' = gate + 1 /\ UNCHANGED running
      BY <1>4, <2>1, <3>1, <3>2 DEF EnterGate
    <3>4. t \notin Holders("gate")
      BY <1>4 DEF EnterGate, ShapeInv, Shape, BeforeGate, Holders
    <3>5. Holders("gate")' = Holders("gate") \cup {t} /\ Holders("running")' = Holders("running")
      BY <3>3, HoldersGrow
    <3>6. Cardinality(Holders("gate")') = gate + 1
      BY <3>4, <3>5, HoldersFinite, FS_AddElement DEF GateExact
    <3> QED
      BY <2>1, <3>1, <3>2, <3>3, <3>5, <3>6 DEF GateExact
  <2>2. CASE ~(gate < MaxRunning)
    BY <1>4, <2>2, GateStays DEF EnterGate, EndWith
  <2> QED
    BY <2>1, <2>2
<1>5. CASE Register(t)
  <2>1. CASE RunOf[t] \in cancelledRuns
    BY <1>5, <2>1, GateStays DEF Register, EndWith
  <2>2. CASE RunOf[t] \notin cancelledRuns
    <3>1. Advance(t, "running", {"running"}) /\ running' = running \cup {t} /\ UNCHANGED gate
      BY <1>5, <2>2 DEF Register
    <3>2. t \in Holders("gate")
      BY <1>5 DEF Register, ShapeInv, Shape, Holders
    <3>3. Holders("gate")' = Holders("gate") /\ Holders("running")' = Holders("running") \cup {t}
      BY <3>1, HoldersGrow
    <3> QED
      BY <3>1, <3>2, <3>3 DEF GateExact
  <2> QED
    BY <2>1, <2>2
<1>6. CASE RunnerReturns(t)
  BY <1>6, GateStays DEF RunnerReturns, EndWith, execVars
<1>7. CASE Finish(t)
  <2>1. Advance(t, "unwind", {}) /\ UNCHANGED <<gate, running>>
    BY <1>7 DEF Finish, execVars
  <2> QED
    BY <2>1, HoldersGrow, GateKept
<1>8. CASE Unregister(t)
  <2>1. Unwind(t, "running") /\ running' = running \ {t} /\ UNCHANGED gate
    BY <1>8 DEF Unregister
  <2>2. Holders("gate")' = Holders("gate") /\ Holders("running")' = Holders("running") \ {t}
    BY <2>1, HoldersShrink
  <2> QED
    BY <2>1, <2>2 DEF GateExact
<1>9. CASE LeaveGate(t)
  <2>1. Unwind(t, "gate") /\ gate' = gate - 1 /\ UNCHANGED running
    BY <1>9 DEF LeaveGate
  <2>2. t \in Holders("gate") /\ t \notin Holders("running")
    BY <1>9 DEF LeaveGate, Unwind, Holders
  <2>3. Holders("gate")' = Holders("gate") \ {t} /\ Holders("running")' = Holders("running")
    BY <2>1, HoldersShrink
  <2>4. Cardinality(Holders("gate")') = gate - 1
    BY <2>2, <2>3, HoldersFinite, FS_RemoveElement DEF GateExact
  <2>5. gate \in Nat
    BY HoldersFinite, FS_CardinalityType DEF GateExact
  <2> QED
    BY <2>1, <2>2, <2>3, <2>4, <2>5, SchedulerAssumption DEF GateExact
<1>10. CASE ReleaseLease(t) \/ ReleaseReservation(t) \/ ReleaseSession(t) \/ Uncount(t)
  <2>1. UNCHANGED <<gate, running>>
    BY <1>10 DEF ReleaseLease, ReleaseReservation, ReleaseSession, Uncount, execVars
  <2>2. Unwind(t, "lease") \/ Unwind(t, "depth") \/ Unwind(t, "session") \/ Unwind(t, "inflight")
    BY <1>10 DEF ReleaseLease, ReleaseReservation, ReleaseSession, Uncount
  <2> QED
    BY <2>1, <2>2, HoldersShrink, GateKept
<1> QED
  BY <1>1, <1>2, <1>3, <1>4, <1>5, <1>6, <1>7, <1>8, <1>9, <1>10 DEF TaskStep

LEMMA GateOthers ==
  ASSUME GateExact, (\E r \in Runs : RunStep(r)) \/ CloseStep
  PROVE  GateExact'
BY GateStays DEF RunStep, CancelRunMark, CancelRunDrop, CancelRunSettle,
   ClearRunCancellation, CloseStep, Close, ClosePool, CloseStop, CloseDrain, CloseSettle,
   Settling, CloseReturns, DispatcherExit, execVars, taskVars

(* The gate channel holds exactly the tokens of the tasks between their    *)
(* gate and its deferred release, never more than MaxRunningTasks, and     *)
(* every task of the running map holds one: on every exit path of runTask, *)
(* beside Submit, Cancel, CancelRun and Close.                             *)
THEOREM SchedulerGateExact == Spec => []GateExact
<1>1. Init => ShapeInv /\ GateExact
  BY ShapeInit, GateInit
<1>2. ShapeInv /\ GateExact /\ [Next]_vars => ShapeInv' /\ GateExact'
  <2> SUFFICES ASSUME ShapeInv, GateExact, [Next]_vars PROVE ShapeInv' /\ GateExact'
    OBVIOUS
  <2>1. ASSUME NEW t \in Tasks, CallerStep(t) \/ TaskStep(t) PROVE ShapeInv' /\ GateExact'
    BY <2>1, ShapeCallers, ShapeTasks, GateCallers, GateTasks
  <2>2. ASSUME NEW r \in Runs, RunStep(r) PROVE ShapeInv' /\ GateExact'
    BY <2>2, ShapeRuns, GateOthers
  <2>3. CASE CloseStep
    BY <2>3, ShapeClose, GateOthers
  <2>4. CASE UNCHANGED vars
    BY <2>4, ShapeStays, GateStays DEF vars, queueVars, askVars, execVars, taskVars
  <2> QED
    BY <2>1, <2>2, <2>3, <2>4 DEF Next
<1> QED
  BY <1>1, <1>2, PTL DEF Spec
-----------------------------------------------------------------------------
(* The scheduler's goroutines are callers of the resource pool as          *)
(* ResourcePoolClients describes them: what is proved there holds here.    *)
PoolPhase(t) ==
  IF stage[t] = "blocked" THEN "waiting" ELSE IF "lease" \in held[t] THEN "holding" ELSE "out"

Users == INSTANCE ResourcePoolProofs
           WITH Callers <- Tasks, Classes <- Resources,
                phase <- [t \in Tasks |-> PoolPhase(t)], want <- ResourceOf

LEMMA UsersSets ==
  /\ \A S : IsFiniteSet(S) <=> Users!IsFiniteSet(S)
  /\ \A S : Cardinality(S) = Users!Cardinality(S)
BY DEF IsFiniteSet, Users!IsFiniteSet, Cardinality, Users!Cardinality

LEMMA UsersAssumption == Users!PoolAssumption
BY SchedulerAssumption, UsersSets DEF Users!PoolAssumption

LEMMA UsersInit == Init => Users!Init
BY SchedulerAssumption
   DEF Init, Users!Init, Pool!PoolInit, Users!PoolInit, PoolPhase

(* A step that leaves the pool, the leases and the blocked tasks alone.    *)
LEMMA UsersStay ==
  ASSUME UNCHANGED poolVars, \A t \in Tasks : PoolPhase(t)' = PoolPhase(t)
  PROVE  UNCHANGED Users!vars
BY DEF poolVars, Users!vars

LEMMA UsersOne ==
  ASSUME ShapeInv, NEW t \in Tasks, NEW p, PoolPhase(t)' = p,
         \A x \in Tasks \ {t} : stage'[x] = stage[x] /\ held'[x] = held[x]
  PROVE  Users!Become(t, p) /\ UNCHANGED ResourceOf
BY DEF Users!Become, PoolPhase

LEMMA UsersTasks ==
  ASSUME ShapeInv, NEW t \in Tasks, TaskStep(t)
  PROVE  [Users!Next]_Users!vars
<1> USE DEF ShapeInv, GateTypes
<1>0. /\ \A x \in Tasks \ {t} : stage'[x] = stage[x] /\ held'[x] = held[x]
      /\ ResourceOf[t] \in Resources
  BY SchedulerAssumption
     DEF TaskStep, Dispatch, Start, AcquireLease, LeaseArrives, EnterGate, Register,
     RunnerReturns, Finish, Unregister, LeaveGate, ReleaseLease, ReleaseReservation,
     ReleaseSession, Uncount, Advance, EndWith, Unwind
<1>1. CASE AcquireLease(t)
  <2>1. PoolPhase(t) = "out"
    BY <1>1 DEF AcquireLease, PoolPhase, Shape
  <2>2. CASE Pool!TakeSlot(ResourceOf[t]) /\ Advance(t, "gate", {"lease"})
    <3>1. PoolPhase(t)' = "holding"
      BY <2>2 DEF PoolPhase, Advance
    <3>2. Users!AcquireNow(t, ResourceOf[t])
      BY <1>0, <2>1, <2>2, <3>1, UsersOne, SchedulerAssumption
         DEF Users!AcquireNow, Users!TakeSlot, Pool!TakeSlot, Users!HasSlot, Pool!HasSlot
    <3> QED
      BY <1>0, <3>2 DEF Users!Next
  <2>3. CASE Pool!JoinWaiters(t, ResourceOf[t]) /\ Advance(t, "blocked", {})
    <3>1. PoolPhase(t)' = "waiting"
      BY <2>3 DEF PoolPhase, Advance
    <3>2. Users!AcquireLater(t, ResourceOf[t])
      BY <1>0, <2>1, <2>3, <3>1, UsersOne, SchedulerAssumption
         DEF Users!AcquireLater, Users!JoinWaiters, Pool!JoinWaiters, Users!HasSlot,
         Pool!HasSlot
    <3> QED
      BY <1>0, <3>2 DEF Users!Next
  <2>4. CASE Pool!Refused(ResourceOf[t]) /\ UNCHANGED held /\ stage'[t] = "finish"
    <3>1. PoolPhase(t)' = "out"
      BY <1>1, <2>1, <2>4 DEF PoolPhase, AcquireLease
    <3> QED
      BY <1>0, <2>1, <2>4, <3>1, UsersStay DEF Pool!Refused, Pool!poolVars, poolVars, PoolPhase
  <2> QED
    BY <1>1, <2>2, <2>3, <2>4 DEF AcquireLease, EndWith
<1>2. CASE LeaseArrives(t)
  <2>1. PoolPhase(t) = "waiting"
    BY <1>2 DEF LeaseArrives, PoolPhase
  <2>2. CASE Pool!ReadMail(t, "granted") /\ Advance(t, "gate", {"lease"})
    <3>1. PoolPhase(t)' = "holding"
      BY <2>2 DEF PoolPhase, Advance
    <3>2. Users!Granted(t)
      BY <1>0, <2>1, <2>2, <3>1, UsersOne DEF Users!Granted, Users!ReadMail, Pool!ReadMail
    <3> QED
      BY <3>2 DEF Users!Next
  <2>3. CASE Pool!ReadMail(t, "closed") /\ EndWith(t, "closed")
    <3>1. PoolPhase(t)' = "out"
      BY <1>2, <2>3 DEF PoolPhase, EndWith, LeaseArrives, Shape
    <3>2. Users!FailedByClose(t)
      BY <1>0, <2>1, <2>3, <3>1, UsersOne
         DEF Users!FailedByClose, Users!ReadMail, Pool!ReadMail
    <3> QED
      BY <3>2 DEF Users!Next
  <2> QED
    BY <1>2, <2>2, <2>3 DEF LeaseArrives
<1>3. CASE ReleaseLease(t)
  <2>1. PoolPhase(t) = "holding"
    BY <1>3 DEF ReleaseLease, Unwind, PoolPhase
  <2>2. PoolPhase(t)' = "out"
    BY <1>3 DEF ReleaseLease, Unwind, PoolPhase
  <2>3. Users!GiveBack(t)
    BY <1>0, <1>3, <2>1, <2>2, UsersOne
       DEF ReleaseLease, Users!GiveBack, Users!Release, Pool!Release, Users!HandOff,
       Pool!HandOff
  <2> QED
    BY <2>3 DEF Users!Next
<1>4. CASE ~AcquireLease(t) /\ ~LeaseArrives(t) /\ ~ReleaseLease(t)
  <2>1. UNCHANGED poolVars
    BY <1>4 DEF TaskStep, Dispatch, Start, EnterGate, Register, RunnerReturns, Finish,
       Unregister, LeaveGate, ReleaseReservation, ReleaseSession, Uncount
  <2>2. stage[t] # "blocked" /\ stage'[t] # "blocked"
    BY <1>4 DEF TaskStep, Dispatch, Start, EnterGate, Register, RunnerReturns, Finish,
       Unregister, LeaveGate, ReleaseReservation, ReleaseSession, Uncount, Advance, EndWith,
       Unwind, Q!Dequeue, Q!Dispatchable, Shape
  <2>3. "lease" \in held'[t] <=> "lease" \in held[t]
    BY <1>4 DEF TaskStep, Dispatch, Start, EnterGate, Register, RunnerReturns, Finish,
       Unregister, LeaveGate, ReleaseReservation, ReleaseSession, Uncount, Advance, EndWith,
       Unwind
  <2> QED
    BY <1>0, <2>1, <2>2, <2>3, UsersStay DEF PoolPhase
<1> QED
  BY <1>1, <1>2, <1>3, <1>4

LEMMA UsersCallers ==
  ASSUME ShapeInv, NEW t \in Tasks, CallerStep(t)
  PROVE  UNCHANGED Users!vars
<1>1. UNCHANGED poolVars /\ UNCHANGED held
  BY DEF CallerStep, SubmitWait, Admit, Reserve, Enqueue, Count, Answered, GiveUp, Cancel,
     CancelSettle, taskVars
<1>2. \A x \in Tasks : stage'[x] = "blocked" <=> stage[x] = "blocked"
  BY DEF ShapeInv, GateTypes, Shape, CallerStep, SubmitWait, Admit, Reserve, Enqueue, Count,
     Answered, GiveUp, Cancel, CancelSettle, taskVars, Q!CancelTask
<1> QED
  BY <1>1, <1>2, UsersStay DEF PoolPhase

LEMMA UsersRuns ==
  ASSUME ShapeInv, NEW r \in Runs, RunStep(r)
  PROVE  UNCHANGED Users!vars
<1>1. UNCHANGED poolVars /\ UNCHANGED held
  BY DEF RunStep, CancelRunMark, CancelRunDrop, CancelRunSettle, ClearRunCancellation, taskVars
<1>2. \A x \in Tasks : stage'[x] = "blocked" <=> stage[x] = "blocked"
  BY DEF ShapeInv, GateTypes, Shape, RunStep, CancelRunMark, CancelRunDrop, CancelRunSettle,
     ClearRunCancellation, taskVars, DropAll, Q!QueuedOf
<1> QED
  BY <1>1, <1>2, UsersStay DEF PoolPhase

LEMMA UsersClose ==
  ASSUME ShapeInv, CloseStep
  PROVE  [Users!Next]_Users!vars
<1>1. UNCHANGED held /\ \A x \in Tasks : stage'[x] = "blocked" <=> stage[x] = "blocked"
  BY DEF ShapeInv, GateTypes, Shape, CloseStep, Close, ClosePool, CloseStop, CloseDrain,
     CloseSettle, Settling, CloseReturns, DispatcherExit, taskVars, DropAll
<1>2. CASE ClosePool
  <2>1. Users!Close
    BY <1>1, <1>2 DEF ClosePool, Users!Close, Users!ClosePool, Pool!ClosePool, Users!Blocked,
       Pool!Blocked, Users!Range, Pool!Range, PoolPhase
  <2> QED
    BY <2>1 DEF Users!Next
<1>3. CASE ~ClosePool
  <2>1. UNCHANGED poolVars
    BY <1>3 DEF CloseStep, Close, CloseStop, CloseDrain, CloseSettle, Settling, CloseReturns,
       DispatcherExit
  <2> QED
    BY <1>1, <2>1, UsersStay DEF PoolPhase
<1> QED
  BY <1>2, <1>3
LEMMA UsersNext == ASSUME ShapeInv, [Next]_vars PROVE [Users!Next]_Users!vars
<1>1. ASSUME NEW t \in Tasks, CallerStep(t) \/ TaskStep(t) PROVE [Users!Next]_Users!vars
  BY <1>1, UsersCallers, UsersTasks
<1>2. ASSUME NEW r \in Runs, RunStep(r) PROVE [Users!Next]_Users!vars
  BY <1>2, UsersRuns
<1>3. CASE UNCHANGED vars
  BY <1>3, UsersStay DEF vars, taskVars, PoolPhase
<1> QED
  BY <1>1, <1>2, <1>3, UsersClose DEF Next

LEMMA ShapeNext == ASSUME ShapeInv, [Next]_vars PROVE ShapeInv'
<1>1. ASSUME NEW t \in Tasks, CallerStep(t) \/ TaskStep(t) PROVE ShapeInv'
  BY <1>1, ShapeCallers, ShapeTasks
<1>2. ASSUME NEW r \in Runs, RunStep(r) PROVE ShapeInv'
  BY <1>2, ShapeRuns
<1>3. CASE UNCHANGED vars
  BY <1>3, ShapeStays DEF vars, queueVars, askVars, taskVars
<1> QED
  BY <1>1, <1>2, <1>3, ShapeClose DEF Next

(* The scheduler uses the resource pool as one of the pool's own clients:  *)
(* every step of it is a step of ResourcePoolClients or leaves the pool    *)
(* alone, with tasks for callers.                                          *)
THEOREM SchedulerUsesPool == Spec => Users!Spec
BY ShapeInit, ShapeNext, UsersInit, UsersNext, PTL DEF Spec, Users!Spec

(* The slots of a resource class are its leases held and its grants in the *)
(* mail, with every path of runTask and Close in between, and no task      *)
(* waits for a class that has a free slot.                                 *)
THEOREM SchedulerLeaseExact == Spec => []LeaseExact
<1>1. Users!SlotsExact /\ Users!NoIdleSlot /\ ShapeInv => LeaseExact
  <2> SUFFICES ASSUME Users!SlotsExact, Users!NoIdleSlot, ShapeInv PROVE LeaseExact
    OBVIOUS
  <2>1. ASSUME NEW r \in Resources PROVE Leased(r) = Users!Owners(r)
    <3>1. Leased(r) \subseteq Users!Owners(r)
      BY DEF Leased, Users!Owners, Users!Owns, PoolPhase, ShapeInv, Shape
    <3>2. Users!Owners(r) \subseteq Leased(r)
      BY DEF Leased, Users!Owners, Users!Owns, PoolPhase, ShapeInv, Shape
    <3> QED
      BY <3>1, <3>2
  <2>2. ASSUME NEW r \in Resources PROVE inUse[r] = Cardinality(Leased(r))
    BY <2>1, UsersSets DEF Users!SlotsExact
  <2> QED
    BY <2>2 DEF LeaseExact, Users!SlotsExact, Users!NoIdleSlot
<1>2. Spec => []Users!SlotsExact /\ []Users!NoIdleSlot
  BY SchedulerUsesPool, UsersAssumption, Users!PoolSlotsExact, Users!PoolNoIdleSlot, PTL
<1>3. Spec => []ShapeInv
  BY ShapeInit, ShapeNext, PTL DEF Spec
<1> QED
  BY <1>1, <1>2, <1>3, PTL
-----------------------------------------------------------------------------
(* The sessions' counts.                                                   *)
SessionInv == sessions \in [Sessions -> Nat] /\ SessionExact

LEMMA InFlightFinite ==
  \A s : IsFiniteSet(InFlight(s)) /\ Cardinality(InFlight(s)) \in Nat
BY HoldersFinite, FS_Subset, FS_CardinalityType DEF InFlight

LEMMA SessionKept ==
  ASSUME SessionInv, UNCHANGED sessions, Holders("session")' = Holders("session")
  PROVE  SessionInv'
<1>1. \A s \in Sessions : InFlight(s)' = InFlight(s)
  BY DEF InFlight
<1> QED
  BY <1>1 DEF SessionInv, SessionExact

LEMMA SessionInit == Init => SessionInv
<1> SUFFICES ASSUME Init PROVE SessionInv
  OBVIOUS
<1>1. \A s \in Sessions : InFlight(s) = {}
  BY DEF Init, InFlight, Holders
<1>2. sessions = [s \in Sessions |-> 0]
  BY DEF Init, Q!QueueInit
<1>3. \A s \in Sessions : Cardinality(InFlight(s)) = 0
  BY <1>1, FS_EmptySet
<1>4. \A s \in Sessions : sessions[s] = Cardinality(InFlight(s)) /\ sessions[s] <= SessionCap
  BY <1>2, <1>3, SchedulerAssumption
<1> QED
  BY <1>2, <1>4 DEF SessionInv, SessionExact

(* A dispatched tool call is counted, below the ceiling.                   *)
LEMMA SessionDispatch ==
  ASSUME ShapeInv, SessionInv, NEW t \in Tasks, Dispatch(t)
  PROVE  SessionInv'
<1>1. /\ sessions \in [Sessions -> Nat] /\ SessionOf[t] \in Sessions /\ SessionCap \in Nat
      /\ Kind[t] = "tool" => sessions[SessionOf[t]] < SessionCap
      /\ sessions' = IF Kind[t] = "tool" THEN [sessions EXCEPT ![SessionOf[t]] = @ + 1]
                     ELSE sessions
  BY SchedulerAssumption
     DEF SessionInv, Dispatch, Q!Dequeue, Q!Dispatchable, Q!SessionHasCapacity, Q!Counted
<1>2. t \notin Holders("session")
  BY DEF ShapeInv, Shape, Dispatch, Q!Dequeue, Q!Dispatchable, Holders
<1>3. Holders("session")' = Holders("session") \cup {t}
  BY HoldersGrow DEF Dispatch
<1>4. ASSUME NEW s \in Sessions
      PROVE  sessions'[s] = Cardinality(InFlight(s)') /\ sessions'[s] <= SessionCap
  <2>1. sessions[s] = Cardinality(InFlight(s)) /\ sessions[s] <= SessionCap
    BY DEF SessionInv, SessionExact
  <2>2. CASE Kind[t] = "tool" /\ SessionOf[t] = s
    <3>1. InFlight(s)' = InFlight(s) \cup {t} /\ t \notin InFlight(s)
      BY <1>2, <1>3, <2>2 DEF InFlight
    <3>2. Cardinality(InFlight(s)') = Cardinality(InFlight(s)) + 1
      BY <3>1, InFlightFinite, FS_AddElement
    <3> QED
      BY <1>1, <2>1, <2>2, <3>2
  <2>3. CASE ~(Kind[t] = "tool" /\ SessionOf[t] = s)
    <3>1. InFlight(s)' = InFlight(s)
      BY <1>3, <2>3 DEF InFlight
    <3>2. sessions'[s] = sessions[s]
      BY <1>1, <2>3
    <3> QED
      BY <2>1, <3>1, <3>2
  <2> QED
    BY <2>2, <2>3
<1> QED
  BY <1>1, <1>4 DEF SessionInv, SessionExact

LEMMA SessionRelease ==
  ASSUME ShapeInv, SessionInv, NEW t \in Tasks, ReleaseSession(t)
  PROVE  SessionInv'
<1>1. /\ sessions \in [Sessions -> Nat] /\ SessionOf[t] \in Sessions
      /\ sessions' = IF Kind[t] = "tool" /\ sessions[SessionOf[t]] > 0
                     THEN [sessions EXCEPT ![SessionOf[t]] = @ - 1] ELSE sessions
  BY SchedulerAssumption DEF SessionInv, ReleaseSession, Q!Release, Q!Counted
<1>2. t \in Holders("session")
  BY DEF ReleaseSession, Unwind, Holders
<1>3. Holders("session")' = Holders("session") \ {t}
  BY HoldersShrink DEF ReleaseSession
<1>4. ASSUME NEW s \in Sessions
      PROVE  /\ sessions'[s] = Cardinality(InFlight(s)') /\ sessions'[s] <= SessionCap
             /\ sessions'[s] \in Nat
  <2>1. sessions[s] = Cardinality(InFlight(s)) /\ sessions[s] <= SessionCap
    BY DEF SessionInv, SessionExact
  <2>2. CASE Kind[t] = "tool" /\ SessionOf[t] = s
    <3>1. InFlight(s)' = InFlight(s) \ {t} /\ t \in InFlight(s)
      BY <1>2, <1>3, <2>2 DEF InFlight
    <3>2. Cardinality(InFlight(s)') = Cardinality(InFlight(s)) - 1
          /\ Cardinality(InFlight(s)') \in Nat
      BY <3>1, InFlightFinite, FS_RemoveElement, FS_CardinalityType
    <3>3. sessions[s] > 0 /\ sessions'[s] = sessions[s] - 1
      BY <1>1, <2>1, <2>2, <3>2
    <3> QED
      BY <1>1, <2>1, <3>2, <3>3, SchedulerAssumption
  <2>3. CASE ~(Kind[t] = "tool" /\ SessionOf[t] = s)
    <3>1. InFlight(s)' = InFlight(s)
      BY <1>3, <2>3 DEF InFlight
    <3>2. sessions'[s] = sessions[s]
      BY <1>1, <2>3
    <3> QED
      BY <1>1, <2>1, <3>1, <3>2
  <2> QED
    BY <2>2, <2>3
<1>5. sessions' \in [Sessions -> Nat]
  BY <1>1, <1>4
<1> QED
  BY <1>4, <1>5 DEF SessionInv, SessionExact

LEMMA SessionTasks ==
  ASSUME ShapeInv, SessionInv, NEW t \in Tasks, TaskStep(t)
  PROVE  SessionInv'
<1>1. CASE Dispatch(t) \/ ReleaseSession(t)
  BY <1>1, SessionDispatch, SessionRelease
<1>2. CASE ~Dispatch(t) /\ ~ReleaseSession(t)
  <2>1. UNCHANGED sessions
    BY <1>2 DEF TaskStep, Start, AcquireLease, LeaseArrives, EnterGate, Register,
       RunnerReturns, Finish, Unregister, LeaveGate, ReleaseLease, ReleaseReservation,
       Uncount, queueVars
  <2>2. \A x \in Tasks : "session" \in held'[x] <=> "session" \in held[x]
    BY <1>2 DEF ShapeInv, GateTypes, TaskStep, Start, AcquireLease, LeaseArrives, EnterGate,
       Register, RunnerReturns, Finish, Unregister, LeaveGate, ReleaseLease,
       ReleaseReservation, Uncount, Advance, EndWith, Unwind
  <2>3. Holders("session")' = Holders("session")
    BY <2>2 DEF Holders
  <2> QED
    BY <2>1, <2>3, SessionKept
<1> QED
  BY <1>1, <1>2

LEMMA SessionOthers ==
  ASSUME SessionInv,
         \/ \E t \in Tasks : CallerStep(t)
         \/ \E r \in Runs : RunStep(r)
         \/ CloseStep
         \/ UNCHANGED vars
  PROVE  SessionInv'
<1>1. UNCHANGED held
  BY DEF CallerStep, SubmitWait, Admit, Reserve, Enqueue, Count, Answered, GiveUp, Cancel,
     CancelSettle, RunStep, CancelRunMark, CancelRunDrop, CancelRunSettle,
     ClearRunCancellation, CloseStep, Close, ClosePool, CloseStop, CloseDrain, CloseSettle,
     Settling, CloseReturns, DispatcherExit, vars, taskVars
<1>2. UNCHANGED sessions
  BY DEF CallerStep, SubmitWait, Admit, Reserve, Enqueue, Count, Answered, GiveUp, Cancel,
     CancelSettle, RunStep, CancelRunMark, CancelRunDrop, CancelRunSettle,
     ClearRunCancellation, CloseStep, Close, ClosePool, CloseStop, CloseDrain, CloseSettle,
     Settling, CloseReturns, DispatcherExit, vars, queueVars, Q!Enqueue, Q!CancelTask,
     Q!CancelRun, Q!DrainAll
<1> QED
  BY <1>1, <1>2, SessionKept DEF Holders

(* A session's in-flight count is the number of its tool calls whose       *)
(* goroutine has not run the deferred release, never above its ceiling.    *)
THEOREM SchedulerSessionExact == Spec => []SessionExact
<1>1. ShapeInv /\ SessionInv /\ [Next]_vars => ShapeInv' /\ SessionInv'
  BY ShapeNext, SessionTasks, SessionOthers DEF Next
<1>2. SessionInv => SessionExact
  BY DEF SessionInv
<1> QED
  BY ShapeInit, SessionInit, <1>1, <1>2, PTL DEF Spec
-----------------------------------------------------------------------------
(* The reservations and the in-flight count.  An accepted task is pending  *)
(* while it is listed, and from its removal to the step that takes it out  *)
(* of the accounting; a task is removed once, by one remover.              *)
OnlyTools == \A t \in Tasks : Kind[t] = "tool"

CancelRow == [step : CancelSteps, victims : SUBSET Tasks, dropped : SUBSET Tasks]
CloseRow == [step : CloseSteps, victims : SUBSET Tasks, dropped : SUBSET Tasks]

Dropped(t) == stage[t] \in {"dropped", "cancelled"} /\ caller[t] # "settle"

DropInv ==
  /\ canceller \in [Runs -> CancelRow] /\ closer \in CloseRow
  /\ queued \subseteq Tasks /\ running \subseteq Tasks
  /\ \A r \in Runs : canceller[r].step # "settle" => canceller[r].dropped = {}
  /\ closer.step # "settle" => closer.dropped = {}
  /\ \A r \in Runs : \A t \in canceller[r].dropped :
       RunOf[t] = r /\ Dropped(t) /\ t \notin closer.dropped
  /\ \A t \in closer.dropped : Dropped(t)

Pending ==
  {t \in Tasks : \/ t \in queued \/ caller[t] = "settle"
                 \/ t \in canceller[RunOf[t]].dropped \cup closer.dropped}

Reserving == {t \in Tasks : caller[t] = "enqueue"}

DepthSet == Reserving \cup Pending \cup Holders("depth")
FlightSet == Pending \cup Holders("inflight")

DepthInv ==
  /\ depth \in [Kinds -> Nat]
  /\ depth["run"] = 0
  /\ depth["tool"] = Cardinality(DepthSet) /\ depth["tool"] <= MaxQueued["tool"]

FlightInv == inflight = Cardinality(FlightSet) - Cardinality(NotIn)

LEMMA DropInit == Init => DropInv
BY SchedulerAssumption
   DEF Init, DropInv, CancelRow, CloseRow, CancelSteps, CloseSteps, Q!QueueInit

(* A step that removes no task leaves the removed ones where they are.     *)
LEMMA DropKept ==
  ASSUME DropInv, UNCHANGED <<canceller, closer>>,
         queued' \subseteq Tasks, running' \subseteq Tasks,
         \A t \in Tasks : Dropped(t) => Dropped(t)'
  PROVE  DropInv'
BY DEF DropInv, CancelRow, CloseRow

LEMMA DropCallers ==
  ASSUME ShapeInv, DropInv, NEW t \in Tasks, CallerStep(t)
  PROVE  DropInv'
<1>1. UNCHANGED <<canceller, closer, running>>
  BY DEF CallerStep, SubmitWait, Admit, Reserve, Enqueue, Count, Answered, GiveUp, Cancel,
     CancelSettle, ctlVars, execVars
<1>2. queued' \subseteq Tasks /\ running' \subseteq Tasks
  BY <1>1 DEF DropInv, CallerStep, SubmitWait, Admit, Reserve, Enqueue, Count, Answered,
     GiveUp, Cancel, CancelSettle, queueVars, Q!Enqueue, Q!CancelTask, Q!Unlink
<1>3. ASSUME NEW x \in Tasks, Dropped(x) PROVE Dropped(x)'
  <2>1. stage[x] \in {"dropped", "cancelled"} /\ x \notin queued /\ caller[x] \notin {"settle", "enqueue"}
    BY <1>3 DEF Dropped, ShapeInv, Shape
  <2>2. stage'[x] = stage[x]
    BY <2>1 DEF ShapeInv, GateTypes, CallerStep, SubmitWait, Admit, Reserve, Enqueue, Count,
       Answered, GiveUp, Cancel, CancelSettle, taskVars, Q!CancelTask
  <2>3. caller'[x] # "settle"
    BY <2>1 DEF ShapeInv, GateTypes, CallerStep, SubmitWait, Admit, Reserve, Enqueue, Count,
       Answered, GiveUp, Cancel, CancelSettle, Q!CancelTask, Fail, Return, Proceed, CallerTo
  <2> QED
    BY <2>1, <2>2, <2>3 DEF Dropped
<1> QED
  BY <1>1, <1>2, <1>3, DropKept

LEMMA DropTasks ==
  ASSUME ShapeInv, DropInv, NEW t \in Tasks, TaskStep(t)
  PROVE  DropInv'
<1>1. UNCHANGED <<canceller, closer, caller>>
  BY DEF TaskStep, Dispatch, Start, AcquireLease, LeaseArrives, EnterGate, Register,
     RunnerReturns, Finish, Unregister, LeaveGate, ReleaseLease, ReleaseReservation,
     ReleaseSession, Uncount, askVars, ctlVars
<1>2. queued' \subseteq queued /\ running' \subseteq running \cup {t}
  BY DEF TaskStep, Dispatch, Start, AcquireLease, LeaseArrives, EnterGate, Register,
     RunnerReturns, Finish, Unregister, LeaveGate, ReleaseLease, ReleaseReservation,
     ReleaseSession, Uncount, queueVars, execVars, Q!Dequeue, Q!Unlink, Q!Release
<1>3. stage[t] \notin {"dropped", "cancelled"} /\ \A x \in Tasks \ {t} : stage'[x] = stage[x]
  BY DEF ShapeInv, GateTypes, Shape, TaskStep, Dispatch, Start, AcquireLease, LeaseArrives,
     EnterGate, Register, RunnerReturns, Finish, Unregister, LeaveGate, ReleaseLease,
     ReleaseReservation, ReleaseSession, Uncount, Advance, EndWith, Unwind, Q!Dequeue,
     Q!Dispatchable
<1> QED
  BY <1>1, <1>2, <1>3, DropKept DEF Dropped, DropInv

LEMMA DropRuns ==
  ASSUME ShapeInv, DropInv, NEW r \in Runs, RunStep(r)
  PROVE  DropInv'
<1>0. /\ canceller \in [Runs -> CancelRow] /\ canceller[r] \in CancelRow
      /\ UNCHANGED <<closer, running, caller>>
  BY DEF DropInv, RunStep, CancelRunMark, CancelRunDrop, CancelRunSettle,
     ClearRunCancellation, execVars, askVars
<1>1. CASE CancelRunMark(r)
  <2>1. canceller' = [canceller EXCEPT ![r] =
                        [canceller[r] EXCEPT !.step = "drop", !.victims = RunningOf(r)]]
    BY <1>1 DEF CancelRunMark
  <2>2. /\ canceller'[r].step = "drop" /\ canceller'[r] \in CancelRow
        /\ canceller'[r].dropped = canceller[r].dropped /\ canceller[r].dropped = {}
    <3>1. canceller'[r] = [canceller[r] EXCEPT !.step = "drop", !.victims = RunningOf(r)]
      BY <1>0, <2>1
    <3>2. RunningOf(r) \in SUBSET Tasks /\ canceller[r].dropped = {}
      BY <1>1 DEF DropInv, RunningOf, CancelRunMark
    <3> QED
      BY <1>0, <3>1, <3>2 DEF CancelRow, CancelSteps
  <2>3. \A x \in Runs \ {r} : canceller'[x] = canceller[x]
    BY <1>0, <2>1
  <2>4. UNCHANGED <<queued, stage>>
    BY <1>1 DEF CancelRunMark, queueVars, taskVars
  <2>5. canceller' \in [Runs -> CancelRow]
    BY <1>0, <2>1, <2>2
  <2> QED
    BY <1>0, <2>2, <2>3, <2>4, <2>5 DEF DropInv, Dropped
<1>2. CASE CancelRunDrop(r)
  <2>1. canceller' = [canceller EXCEPT ![r] =
                        [canceller[r] EXCEPT !.step = "settle", !.dropped = Q!QueuedOf(r)]]
    BY <1>2 DEF CancelRunDrop
  <2>2. /\ canceller'[r].step = "settle" /\ canceller'[r] \in CancelRow
        /\ canceller'[r].dropped = Q!QueuedOf(r)
    BY <1>0, <2>1 DEF DropInv, CancelRow, CancelSteps, Q!QueuedOf
  <2>3. \A x \in Runs \ {r} : canceller'[x] = canceller[x]
    BY <1>0, <2>1
  <2>4. /\ queued' \subseteq queued
        /\ \A x \in Tasks : stage'[x] = IF x \in Q!QueuedOf(r) THEN "cancelled" ELSE stage[x]
    BY <1>2 DEF CancelRunDrop, Q!CancelRun, Q!Unlink, DropAll
  <2>5. canceller' \in [Runs -> CancelRow]
    BY <1>0, <2>1, <2>2
  <2>6. \A x \in Tasks : Dropped(x) => Dropped(x)'
    BY <1>0, <2>4 DEF Dropped
  <2>7. \A x \in Q!QueuedOf(r) : RunOf[x] = r /\ Dropped(x)' /\ x \notin closer.dropped
    BY <1>0, <2>4 DEF Q!QueuedOf, DropInv, Dropped, ShapeInv, Shape
  <2> QED
    BY <1>0, <2>2, <2>3, <2>4, <2>5, <2>6, <2>7 DEF DropInv, CloseRow, CancelRow
<1>3. CASE CancelRunSettle(r)
  <2>1. canceller' = [canceller EXCEPT ![r] = NoCanceller] /\ UNCHANGED <<queued, stage>>
    BY <1>3 DEF CancelRunSettle, queueVars, taskVars
  <2>2. NoCanceller \in CancelRow /\ NoCanceller.dropped = {}
    BY DEF NoCanceller, CancelRow, CancelSteps
  <2>3. canceller' \in [Runs -> CancelRow] /\ canceller'[r].dropped = {}
        /\ \A x \in Runs \ {r} : canceller'[x] = canceller[x]
    BY <1>0, <2>1, <2>2
  <2> QED
    BY <1>0, <2>1, <2>3 DEF DropInv, Dropped
<1>4. CASE ClearRunCancellation(r)
  BY <1>0, <1>4, DropKept DEF ClearRunCancellation, DropInv, Dropped, queueVars, taskVars
<1> QED
  BY <1>1, <1>2, <1>3, <1>4 DEF RunStep

LEMMA DropClose ==
  ASSUME ShapeInv, DropInv, CloseStep
  PROVE  DropInv'
<1>0. /\ closer \in CloseRow /\ UNCHANGED <<canceller, running, caller>>
  BY DEF DropInv, CloseStep, Close, ClosePool, CloseStop, CloseDrain, CloseSettle, Settling,
     CloseReturns, DispatcherExit, execVars, askVars
<1>1. CASE CloseDrain
  <2>1. /\ closer' \in CloseRow /\ closer'.step = "settle" /\ closer'.dropped = queued
        /\ queued' = {}
    BY <1>0, <1>1 DEF CloseDrain, DropInv, CloseRow, CloseSteps, Q!DrainAll
  <2>2. \A x \in Tasks : stage'[x] = IF x \in queued THEN "dropped" ELSE stage[x]
    BY <1>1 DEF CloseDrain, DropAll
  <2>3. \A x \in Tasks : Dropped(x) => Dropped(x)' /\ x \notin queued
    BY <1>0, <2>2 DEF Dropped, ShapeInv, Shape
  <2>4. \A x \in queued : Dropped(x)'
    BY <1>0, <2>2 DEF Dropped, ShapeInv, Shape, DropInv
  <2> QED
    BY <1>0, <2>1, <2>3, <2>4 DEF DropInv, CancelRow
<1>2. CASE CloseSettle
  <2>1. closer' \in CloseRow /\ closer'.step = "wait" /\ closer'.dropped = {}
        /\ UNCHANGED <<queued, stage>>
    BY <1>0, <1>2 DEF CloseSettle, Settling, CloseRow, CloseSteps, queueVars, taskVars
  <2> QED
    BY <1>0, <2>1 DEF DropInv, Dropped, CancelRow
<1>3. CASE ~CloseDrain /\ ~CloseSettle
  <2>1. closer' \in CloseRow /\ closer'.dropped = closer.dropped
        /\ (closer' = closer \/ (closer.step # "settle" /\ closer'.step # "settle"))
    BY <1>0, <1>3 DEF CloseStep, Close, ClosePool, CloseStop, CloseReturns, DispatcherExit,
       CloserAt, CloseRow, CloseSteps, DropInv
  <2>2. UNCHANGED <<queued, stage>>
    BY <1>3 DEF CloseStep, Close, ClosePool, CloseStop, CloseReturns, DispatcherExit,
       queueVars, taskVars
  <2> QED
    BY <1>0, <2>1, <2>2 DEF DropInv, Dropped
<1> QED
  BY <1>1, <1>2, <1>3

LEMMA DropNext == ASSUME ShapeInv, DropInv, [Next]_vars PROVE DropInv'
<1>1. ASSUME NEW t \in Tasks, CallerStep(t) \/ TaskStep(t) PROVE DropInv'
  BY <1>1, DropCallers, DropTasks
<1>2. ASSUME NEW r \in Runs, RunStep(r) PROVE DropInv'
  BY <1>2, DropRuns
<1>3. CASE UNCHANGED vars
  BY <1>3, DropKept DEF vars, ctlVars, queueVars, execVars, askVars, taskVars, DropInv, Dropped
<1> QED
  BY <1>1, <1>2, <1>3, DropClose DEF Next
(* Where a pending task is: nowhere else in the accounting.                *)
LEMMA PendingPlace ==
  ASSUME ShapeInv, DropInv, NEW t \in Pending
  PROVE  /\ t \in Tasks /\ stage[t] \in {"queued", "dropped", "cancelled"} /\ held[t] = {}
         /\ caller[t] # "enqueue"
BY SchedulerAssumption DEF ShapeInv, Shape, DropInv, Dropped, Pending

LEMMA SetsFinite ==
  /\ IsFiniteSet(DepthSet) /\ Cardinality(DepthSet) \in Nat
  /\ IsFiniteSet(FlightSet) /\ Cardinality(FlightSet) \in Nat
  /\ IsFiniteSet(NotIn) /\ Cardinality(NotIn) \in Nat
<1>1. DepthSet \subseteq Tasks /\ FlightSet \subseteq Tasks /\ NotIn \subseteq Tasks
  BY DEF DepthSet, FlightSet, NotIn, Reserving, Pending, Holders
<1> QED
  BY <1>1, SchedulerAssumption, FS_Subset, FS_CardinalityType

LEMMA DepthKept ==
  ASSUME DepthInv, UNCHANGED depth, DepthSet' = DepthSet
  PROVE  DepthInv'
BY DEF DepthInv

LEMMA FlightKept ==
  ASSUME FlightInv, UNCHANGED inflight, FlightSet' = FlightSet, NotIn' = NotIn
  PROVE  FlightInv'
BY DEF FlightInv

(* The reservations of the tasks S are given back.                         *)
LEMMA DepthReturned ==
  ASSUME DepthInv, NEW S \in SUBSET DepthSet, DepthSet' = DepthSet \ S,
         ReleaseDepth("tool", Cardinality(S))
  PROVE  DepthInv'
<1> DEFINE n == Cardinality(S)
<1>1. /\ IsFiniteSet(S) /\ n \in Nat /\ n <= Cardinality(DepthSet)
      /\ Cardinality(DepthSet') = Cardinality(DepthSet) - n
  <2>1. IsFiniteSet(S) /\ n \in Nat /\ n <= Cardinality(DepthSet)
    BY SetsFinite, FS_Subset, FS_CardinalityType
  <2>2. Cardinality(DepthSet \ S) = Cardinality(DepthSet) - Cardinality(DepthSet \cap S)
    BY SetsFinite, FS_Difference
  <2>3. DepthSet \cap S = S
    OBVIOUS
  <2> QED
    BY <2>1, <2>2, <2>3
<1>2. depth["tool"] = Cardinality(DepthSet) /\ depth["tool"] <= MaxQueued["tool"]
      /\ MaxQueued["tool"] \in Nat
  BY SchedulerAssumption DEF DepthInv, Kinds
<1>3. depth' = [depth EXCEPT !["tool"] = IF depth["tool"] > n THEN depth["tool"] - n ELSE 0]
  BY DEF ReleaseDepth
<1>4. depth'["tool"] = IF depth["tool"] > n THEN depth["tool"] - n ELSE 0
  BY <1>3 DEF DepthInv, Kinds
<1>5. depth'["tool"] = depth["tool"] - n /\ depth'["tool"] \in Nat
  BY <1>1, <1>2, <1>4, SetsFinite
<1>6. depth'["run"] = 0 /\ depth' \in [Kinds -> Nat]
  BY <1>3, <1>5, <1>4 DEF DepthInv, Kinds
<1> QED
  BY <1>1, <1>2, <1>5, <1>6, SetsFinite DEF DepthInv

LEMMA FlightReturned ==
  ASSUME FlightInv, NEW S \in SUBSET FlightSet, FlightSet' = FlightSet \ S, NotIn' = NotIn,
         inflight' = inflight - Cardinality(S)
  PROVE  FlightInv'
<1>1. /\ IsFiniteSet(S) /\ Cardinality(S) \in Nat
      /\ Cardinality(FlightSet') = Cardinality(FlightSet) - Cardinality(S)
  <2>1. IsFiniteSet(S) /\ Cardinality(S) \in Nat
    BY SetsFinite, FS_Subset, FS_CardinalityType
  <2>2. Cardinality(FlightSet \ S) = Cardinality(FlightSet) - Cardinality(FlightSet \cap S)
    BY SetsFinite, FS_Difference
  <2>3. FlightSet \cap S = S
    OBVIOUS
  <2> QED
    BY <2>1, <2>2, <2>3
<1> QED
  BY <1>1, SetsFinite DEF FlightInv

(* Callers: a reservation is made, becomes the listed task's, or is given  *)
(* back; a task is counted after it is listed; a removed one is settled.   *)
LEMMA CountCallers ==
  ASSUME OnlyTools, ShapeInv, DropInv, DepthInv, FlightInv, NEW t \in Tasks, CallerStep(t)
  PROVE  DepthInv' /\ FlightInv'
<1> USE DEF ShapeInv, GateTypes
<1>0. /\ UNCHANGED <<held, canceller, closer>>
      /\ Holders("depth")' = Holders("depth") /\ Holders("inflight")' = Holders("inflight")
      /\ Kind[t] = "tool"
  BY DEF OnlyTools, Holders, CallerStep, SubmitWait, Admit, Reserve, Enqueue, Count, Answered,
     GiveUp, Cancel, CancelSettle, taskVars, ctlVars
<1>1. CASE SubmitWait(t) \/ Admit(t) \/ Answered(t) \/ GiveUp(t)
             \/ (Reserve(t) /\ UNCHANGED depth)
  <2>1. \E s \in {"admit", "returned", "reserve", "cancel"} : CallerTo(t, s)
    BY <1>1, <1>0 DEF SubmitWait, Admit, Answered, GiveUp, Reserve, Fail, Return, Proceed,
       Room, DepthInv, Kinds
  <2>2. UNCHANGED <<queued, depth, inflight>>
    BY <1>1 DEF SubmitWait, Admit, Answered, GiveUp, Reserve, queueVars, acctVars
  <2>3. caller[t] \notin {"settle", "enqueue", "count"}
    BY <1>1 DEF SubmitWait, Admit, Answered, GiveUp, Reserve
  <2>4. Pending' = Pending /\ Reserving' = Reserving /\ NotIn' = NotIn
    BY <1>0, <2>1, <2>2, <2>3 DEF CallerTo, Pending, Reserving, NotIn
  <2> QED
    BY <1>0, <2>2, <2>4, DepthKept, FlightKept DEF DepthSet, FlightSet
<1>2. CASE Reserve(t) /\ ~UNCHANGED depth
  <2>1. /\ caller[t] = "reserve" /\ CallerTo(t, "enqueue") /\ UNCHANGED <<queued, inflight>>
        /\ depth["tool"] < MaxQueued["tool"]
        /\ depth' = [depth EXCEPT !["tool"] = depth["tool"] + 1]
    BY <1>0, <1>2 DEF Reserve, Proceed, Room, queueVars
  <2>2. /\ Pending' = Pending /\ NotIn' = NotIn /\ Reserving' = Reserving \cup {t}
    BY <1>0, <2>1 DEF CallerTo, Pending, Reserving, NotIn
  <2>3. t \notin DepthSet
    BY <2>1, PendingPlace DEF Shape, DepthSet, Reserving, Holders
  <2>4. DepthSet' = DepthSet \cup {t}
    BY <1>0, <2>2 DEF DepthSet
  <2>5. Cardinality(DepthSet') = Cardinality(DepthSet) + 1
    BY <2>3, <2>4, SetsFinite, FS_AddElement
  <2>6. DepthInv'
    BY <2>1, <2>5, SetsFinite, SchedulerAssumption DEF DepthInv, Kinds
  <2> QED
    BY <1>0, <2>1, <2>2, <2>6, FlightKept DEF FlightSet
<1>3. CASE Enqueue(t) /\ CallerTo(t, "count")
  <2>1. /\ caller[t] = "enqueue" /\ queued' = queued \cup {t} /\ UNCHANGED <<depth, inflight>>
    BY <1>3 DEF Enqueue, Q!Enqueue, Fail, Return, CallerTo
  <2>2. /\ Pending' = Pending \cup {t} /\ NotIn' = NotIn \cup {t}
        /\ Reserving' = Reserving \ {t}
    BY <1>0, <1>3, <2>1 DEF CallerTo, Pending, Reserving, NotIn
  <2>3. t \in Reserving /\ t \notin NotIn /\ t \notin FlightSet
    BY <2>1, PendingPlace DEF Shape, FlightSet, Reserving, Holders, NotIn
  <2>4. DepthSet' = DepthSet /\ FlightSet' = FlightSet \cup {t}
    BY <1>0, <2>2, <2>3 DEF DepthSet, FlightSet
  <2>5. Cardinality(FlightSet') = Cardinality(FlightSet) + 1
        /\ Cardinality(NotIn') = Cardinality(NotIn) + 1
    BY <2>2, <2>3, <2>4, SetsFinite, FS_AddElement
  <2>6. FlightInv'
    BY <2>1, <2>5, SetsFinite DEF FlightInv
  <2> QED
    BY <2>1, <2>4, <2>6, DepthKept
<1>4. CASE Enqueue(t) /\ ~CallerTo(t, "count")
  <2>1. /\ caller[t] = "enqueue" /\ CallerTo(t, "returned") /\ UNCHANGED <<queued, inflight>>
        /\ ReleaseDepth("tool", 1)
    BY <1>0, <1>4 DEF Enqueue, Fail, Return, Proceed, queueVars
  <2>2. Pending' = Pending /\ NotIn' = NotIn /\ Reserving' = Reserving \ {t}
    BY <1>0, <2>1 DEF CallerTo, Pending, Reserving, NotIn
  <2>3. t \in Reserving /\ t \notin Pending /\ t \notin Holders("depth")
    BY <2>1, PendingPlace DEF Shape, Reserving, Holders
  <2>4. DepthSet' = DepthSet \ {t} /\ {t} \in SUBSET DepthSet /\ Cardinality({t}) = 1
    BY <1>0, <2>2, <2>3, FS_Singleton DEF DepthSet
  <2> QED
    BY <1>0, <2>1, <2>2, <2>4, DepthReturned, FlightKept DEF FlightSet
<1>5. CASE Count(t)
  <2>1. caller[t] = "count" /\ CallerTo(t, "wait") /\ UNCHANGED <<queued, depth>>
        /\ inflight' = inflight + 1
    BY <1>5 DEF Count, Proceed, queueVars
  <2>2. Pending' = Pending /\ NotIn' = NotIn \ {t} /\ Reserving' = Reserving /\ t \in NotIn
    BY <1>0, <2>1 DEF CallerTo, Pending, Reserving, NotIn
  <2>3. Cardinality(NotIn') = Cardinality(NotIn) - 1
    BY <2>2, SetsFinite, FS_RemoveElement
  <2>4. FlightSet' = FlightSet /\ DepthSet' = DepthSet
    BY <1>0, <2>2 DEF FlightSet, DepthSet
  <2> QED
    BY <2>1, <2>3, <2>4, SetsFinite, DepthKept DEF FlightInv
<1>6. CASE Cancel(t)
  <2>1. UNCHANGED <<depth, inflight>> /\ caller[t] = "cancel"
    BY <1>6 DEF Cancel, acctVars
  <2>2. CASE t \in queued
    <3>1. queued' = queued \ {t} /\ CallerTo(t, "settle")
      BY <1>6, <2>2 DEF Cancel, Q!CancelTask, Q!Unlink
    <3> QED
      BY <1>0, <2>1, <2>2, <3>1, DepthKept, FlightKept
         DEF CallerTo, Pending, Reserving, NotIn, DepthSet, FlightSet
  <2>3. CASE t \notin queued
    <3>1. UNCHANGED queued /\ CallerTo(t, "returned")
      BY <1>6, <2>3 DEF Cancel, Q!CancelTask, Return, queueVars
    <3> QED
      BY <1>0, <2>1, <3>1, DepthKept, FlightKept
         DEF CallerTo, Pending, Reserving, NotIn, DepthSet, FlightSet
  <2> QED
    BY <2>2, <2>3
<1>7. CASE CancelSettle(t)
  <2>1. /\ caller[t] = "settle" /\ CallerTo(t, "returned") /\ UNCHANGED queued
        /\ inflight' = inflight - 1 /\ ReleaseDepth("tool", 1)
    BY <1>7 DEF CancelSettle, Return, queueVars
  <2>2. t \notin queued /\ t \notin canceller[RunOf[t]].dropped \cup closer.dropped
    BY <2>1, SchedulerAssumption DEF Shape, DropInv, Dropped
  <2>3. /\ Pending' = Pending \ {t} /\ t \in Pending /\ NotIn' = NotIn
        /\ Reserving' = Reserving
    BY <1>0, <2>1, <2>2 DEF CallerTo, Pending, Reserving, NotIn
  <2>4. t \notin Reserving /\ t \notin Holders("depth") /\ t \notin Holders("inflight")
    BY <2>3, PendingPlace DEF Reserving, Holders
  <2>5. /\ DepthSet' = DepthSet \ {t} /\ {t} \in SUBSET DepthSet
        /\ FlightSet' = FlightSet \ {t} /\ {t} \in SUBSET FlightSet
    BY <1>0, <2>3, <2>4 DEF DepthSet, FlightSet
  <2>6. Cardinality({t}) = 1
    BY FS_Singleton
  <2> QED
    BY <2>1, <2>3, <2>5, <2>6, DepthReturned, FlightReturned
<1> QED
  BY <1>1, <1>2, <1>3, <1>4, <1>5, <1>6, <1>7 DEF CallerStep
(* Goroutines: the dispatch takes the account over, the releases end it.   *)
LEMMA CountTasks ==
  ASSUME OnlyTools, ShapeInv, DropInv, DepthInv, FlightInv, NEW t \in Tasks, TaskStep(t)
  PROVE  DepthInv' /\ FlightInv'
<1> USE DEF ShapeInv, GateTypes
<1>0. /\ UNCHANGED <<caller, canceller, closer>> /\ Kind[t] = "tool"
      /\ Reserving' = Reserving /\ NotIn' = NotIn
  BY DEF OnlyTools, Reserving, NotIn, TaskStep, Dispatch, Start, AcquireLease, LeaseArrives,
     EnterGate, Register, RunnerReturns, Finish, Unregister, LeaveGate, ReleaseLease,
     ReleaseReservation, ReleaseSession, Uncount, askVars, ctlVars
<1>1. CASE Dispatch(t)
  <2>1. /\ t \in queued /\ queued' = queued \ {t} /\ UNCHANGED <<depth, inflight>>
        /\ Advance(t, "start", {"inflight", "session", "depth"})
    BY <1>1 DEF Dispatch, Q!Dequeue, Q!Dispatchable, Q!Unlink, acctVars
  <2>2. stage[t] = "queued" /\ t \notin canceller[RunOf[t]].dropped \cup closer.dropped
        /\ caller[t] # "settle"
    BY <2>1, SchedulerAssumption DEF Shape, DropInv, Dropped
  <2>3. Pending' = Pending \ {t} /\ t \in Pending
    BY <1>0, <2>1, <2>2 DEF Pending
  <2>4. Holders("depth")' = Holders("depth") \cup {t}
        /\ Holders("inflight")' = Holders("inflight") \cup {t}
    BY <2>1, HoldersGrow
  <2> QED
    BY <1>0, <2>1, <2>3, <2>4, DepthKept, FlightKept DEF DepthSet, FlightSet
<1>2. CASE ~Dispatch(t)
  <2>1. UNCHANGED queued /\ Pending' = Pending
    BY <1>0, <1>2 DEF Pending, TaskStep, Start, AcquireLease, LeaseArrives, EnterGate,
       Register, RunnerReturns, Finish, Unregister, LeaveGate, ReleaseLease,
       ReleaseReservation, ReleaseSession, Uncount, queueVars, Q!Release
  <2>2. CASE ReleaseReservation(t)
    <3>1. /\ Unwind(t, "depth") /\ UNCHANGED inflight /\ ReleaseDepth("tool", 1)
          /\ t \in Holders("depth") /\ stage[t] = "unwind"
      BY <1>0, <2>2 DEF ReleaseReservation, Unwind, Holders
    <3>2. Holders("depth")' = Holders("depth") \ {t} /\ Holders("inflight")' = Holders("inflight")
      BY <3>1, HoldersShrink
    <3>3. t \notin Pending /\ t \notin Reserving
      BY <3>1, PendingPlace DEF Reserving, Shape
    <3>4. DepthSet' = DepthSet \ {t} /\ {t} \in SUBSET DepthSet
      BY <1>0, <2>1, <3>1, <3>2, <3>3 DEF DepthSet
    <3>5. Cardinality({t}) = 1
      BY FS_Singleton
    <3> QED
      BY <1>0, <2>1, <3>1, <3>2, <3>4, <3>5, DepthReturned, FlightKept DEF FlightSet
  <2>3. CASE Uncount(t)
    <3>1. /\ Unwind(t, "inflight") /\ UNCHANGED depth /\ inflight' = inflight - 1
          /\ t \in Holders("inflight") /\ stage[t] = "unwind"
      BY <2>3 DEF Uncount, Unwind, Holders
    <3>2. Holders("depth")' = Holders("depth") /\ Holders("inflight")' = Holders("inflight") \ {t}
      BY <3>1, HoldersShrink
    <3>3. t \notin Pending
      BY <3>1, PendingPlace
    <3>4. FlightSet' = FlightSet \ {t} /\ {t} \in SUBSET FlightSet
      BY <1>0, <2>1, <3>1, <3>2, <3>3 DEF FlightSet
    <3>5. Cardinality({t}) = 1
      BY FS_Singleton
    <3> QED
      BY <1>0, <2>1, <3>1, <3>2, <3>4, <3>5, FlightReturned, DepthKept DEF DepthSet
  <2>4. CASE ~ReleaseReservation(t) /\ ~Uncount(t)
    <3>1. UNCHANGED <<depth, inflight>>
      BY <1>2, <2>4 DEF TaskStep, Start, AcquireLease, LeaseArrives, EnterGate, Register,
         RunnerReturns, Finish, Unregister, LeaveGate, ReleaseLease, ReleaseSession, acctVars
    <3>2. \A x \in Tasks : \A h \in {"depth", "inflight"} : h \in held'[x] <=> h \in held[x]
      BY <1>2, <2>4 DEF TaskStep, Start, AcquireLease, LeaseArrives, EnterGate, Register,
         RunnerReturns, Finish, Unregister, LeaveGate, ReleaseLease, ReleaseSession, Advance,
         EndWith, Unwind
    <3>3. Holders("depth")' = Holders("depth") /\ Holders("inflight")' = Holders("inflight")
      BY <3>2 DEF Holders
    <3> QED
      BY <1>0, <2>1, <3>1, <3>3, DepthKept, FlightKept DEF DepthSet, FlightSet
  <2> QED
    BY <2>2, <2>3, <2>4
<1> QED
  BY <1>1, <1>2

(* What is neither removed nor settled stays in the accounting.            *)
LEMMA CountStays ==
  ASSUME DepthInv, FlightInv, UNCHANGED <<depth, inflight, caller, held>>, Pending' = Pending
  PROVE  DepthInv' /\ FlightInv'
BY DepthKept, FlightKept DEF DepthSet, FlightSet, Reserving, NotIn, Holders

(* The removed tasks S are settled at once, by CancelRun or by Close.      *)
LEMMA CountSettles ==
  ASSUME ShapeInv, DropInv, DepthInv, FlightInv, NEW S \in SUBSET Pending,
         Pending' = Pending \ S, UNCHANGED <<caller, held>>,
         ReleaseDepth("tool", Cardinality(S)), inflight' = inflight - Cardinality(S)
  PROVE  DepthInv' /\ FlightInv'
<1>1. \A t \in S : t \notin Reserving /\ t \notin Holders("depth") /\ t \notin Holders("inflight")
  BY PendingPlace DEF Reserving, Holders
<1>2. UNCHANGED <<Reserving, NotIn, Holders("depth"), Holders("inflight")>>
  BY DEF Reserving, NotIn, Holders
<1>3. DepthSet' = DepthSet \ S /\ S \in SUBSET DepthSet
  BY <1>1, <1>2 DEF DepthSet
<1>4. FlightSet' = FlightSet \ S /\ S \in SUBSET FlightSet
  BY <1>1, <1>2 DEF FlightSet
<1> QED
  BY <1>2, <1>3, <1>4, DepthReturned, FlightReturned

LEMMA CountRuns ==
  ASSUME ShapeInv, DropInv, DepthInv, FlightInv, NEW r \in Runs, RunStep(r)
  PROVE  DepthInv' /\ FlightInv'
<1>0. /\ canceller \in [Runs -> CancelRow] /\ canceller[r] \in CancelRow
      /\ UNCHANGED <<closer, caller, held>> /\ RunOf \in [Tasks -> Runs]
  BY SchedulerAssumption
     DEF DropInv, RunStep, CancelRunMark, CancelRunDrop, CancelRunSettle,
     ClearRunCancellation, askVars, taskVars
<1>1. CASE CancelRunMark(r) \/ ClearRunCancellation(r)
  <2>1. \A x \in Runs : canceller'[x].dropped = canceller[x].dropped
    BY <1>0, <1>1 DEF CancelRunMark, ClearRunCancellation, CancelRow
  <2>2. UNCHANGED <<queued, depth, inflight>>
    BY <1>1 DEF CancelRunMark, ClearRunCancellation, queueVars, acctVars
  <2>3. Pending' = Pending
    BY <1>0, <2>1, <2>2 DEF Pending
  <2> QED
    BY <1>0, <2>2, <2>3, CountStays
<1>2. CASE CancelRunDrop(r)
  <2>1. canceller'[r].dropped = Q!QueuedOf(r) /\ canceller[r].dropped = {}
        /\ \A x \in Runs \ {r} : canceller'[x] = canceller[x]
    BY <1>0, <1>2 DEF CancelRunDrop, CancelRow, DropInv
  <2>2. queued' = queued \ Q!QueuedOf(r) /\ UNCHANGED <<depth, inflight>>
    BY <1>2 DEF CancelRunDrop, Q!CancelRun, Q!Unlink, acctVars
  <2>3. Pending' = Pending
    BY <1>0, <2>1, <2>2 DEF Pending, Q!QueuedOf
  <2> QED
    BY <1>0, <2>2, <2>3, CountStays
<1>3. CASE CancelRunSettle(r)
  <2> DEFINE S == canceller[r].dropped
  <2>1. canceller'[r] = NoCanceller /\ \A x \in Runs \ {r} : canceller'[x] = canceller[x]
    BY <1>0, <1>3 DEF CancelRunSettle
  <2>2. canceller'[r].dropped = {}
    BY <2>1 DEF NoCanceller
  <2>3. /\ ReleaseDepth("tool", Cardinality(S)) /\ inflight' = inflight - Cardinality(S)
        /\ UNCHANGED queued
    BY <1>3 DEF CancelRunSettle, queueVars
  <2>4. \A t \in S : /\ t \in Tasks /\ RunOf[t] = r /\ t \notin queued /\ caller[t] # "settle"
                     /\ t \notin closer.dropped
    BY <1>0 DEF DropInv, Dropped, ShapeInv, Shape, CancelRow
  <2>5. S \in SUBSET Pending
    BY <2>4 DEF Pending
  <2>6. Pending' = Pending \ S
    BY <1>0, <2>1, <2>2, <2>3, <2>4 DEF Pending
  <2> QED
    BY <1>0, <2>3, <2>5, <2>6, CountSettles
<1> QED
  BY <1>1, <1>2, <1>3 DEF RunStep

LEMMA CountClose ==
  ASSUME OnlyTools, ShapeInv, DropInv, DepthInv, FlightInv, CloseStep
  PROVE  DepthInv' /\ FlightInv'
<1>0. closer \in CloseRow /\ UNCHANGED <<canceller, caller, held>> /\ RunOf \in [Tasks -> Runs]
  BY SchedulerAssumption
     DEF DropInv, CloseStep, Close, ClosePool, CloseStop, CloseDrain, CloseSettle, Settling,
     CloseReturns, DispatcherExit, askVars, taskVars
<1>1. CASE CloseDrain
  <2>1. closer'.dropped = queued /\ closer.dropped = {} /\ queued' = {}
        /\ UNCHANGED <<depth, inflight>>
    BY <1>0, <1>1 DEF CloseDrain, CloseRow, DropInv, Q!DrainAll, acctVars
  <2>2. Pending' = Pending
    BY <1>0, <2>1 DEF Pending
  <2> QED
    BY <1>0, <2>1, <2>2, CountStays
<1>2. CASE CloseSettle
  <2> DEFINE S == closer.dropped
  <2>1. closer'.dropped = {} /\ UNCHANGED queued /\ inflight' = inflight - Cardinality(S)
    BY <1>0, <1>2 DEF CloseSettle, Settling, DrainedCount, CloseRow, queueVars
  <2>2. \A t \in S : /\ t \in Tasks /\ t \notin queued /\ caller[t] # "settle"
                     /\ t \notin canceller[RunOf[t]].dropped
    BY <1>0 DEF DropInv, Dropped, ShapeInv, Shape, CloseRow
  <2>3. S \in SUBSET Pending
    BY <2>2 DEF Pending
  <2>4. Pending' = Pending \ S
    BY <1>0, <2>1, <2>2 DEF Pending
  <2>5. {t \in S : Kind[t] = "tool"} = S /\ {t \in S : Kind[t] = "run"} = {}
    BY <2>2 DEF OnlyTools
  <2>6. Cardinality({t \in S : Kind[t] = "run"}) = 0
    BY <2>5, FS_EmptySet
  <2>7. ReleaseDepth("tool", Cardinality(S))
    <3>1. depth' = [k \in Kinds |->
                      IF depth[k] > Cardinality({t \in S : Kind[t] = k})
                      THEN depth[k] - Cardinality({t \in S : Kind[t] = k}) ELSE 0]
      BY <1>2 DEF CloseSettle, DrainedDepth
    <3>2. depth'["tool"] = IF depth["tool"] > Cardinality(S)
                           THEN depth["tool"] - Cardinality(S) ELSE 0
      BY <2>5, <3>1 DEF Kinds
    <3>3. depth'["run"] = depth["run"]
      BY <2>6, <3>1 DEF Kinds, DepthInv
    <3> QED
      BY <3>1, <3>2, <3>3 DEF ReleaseDepth, Kinds, DepthInv
  <2> QED
    BY <1>0, <2>1, <2>3, <2>4, <2>7, CountSettles
<1>3. CASE ~CloseDrain /\ ~CloseSettle
  <2>1. closer'.dropped = closer.dropped
    BY <1>0, <1>3 DEF CloseStep, Close, ClosePool, CloseStop, CloseReturns, DispatcherExit,
       CloserAt, CloseRow
  <2>2. UNCHANGED <<queued, depth, inflight>>
    BY <1>3 DEF CloseStep, Close, ClosePool, CloseStop, CloseReturns, DispatcherExit,
       queueVars, acctVars
  <2>3. Pending' = Pending
    BY <1>0, <2>1, <2>2 DEF Pending
  <2> QED
    BY <1>0, <2>2, <2>3, CountStays
<1> QED
  BY <1>1, <1>2, <1>3

LEMMA CountInit == Init => DepthInv /\ FlightInv
<1> SUFFICES ASSUME Init PROVE DepthInv /\ FlightInv
  OBVIOUS
<1>1. depth = [k \in Kinds |-> 0] /\ inflight = 0
  BY DEF Init
<1>2. DepthSet = {} /\ FlightSet = {} /\ NotIn = {}
  BY SchedulerAssumption
     DEF Init, DepthSet, FlightSet, NotIn, Reserving, Pending, Holders, Q!QueueInit
<1>3. Cardinality(DepthSet) = 0 /\ Cardinality(FlightSet) = 0 /\ Cardinality(NotIn) = 0
  BY <1>2, FS_EmptySet
<1> QED
  BY <1>1, <1>3, SchedulerAssumption DEF DepthInv, FlightInv, Kinds

CountInv == ShapeInv /\ DropInv /\ DepthInv /\ FlightInv

LEMMA CountNext == ASSUME OnlyTools, CountInv, [Next]_vars PROVE CountInv'
<1> USE DEF CountInv
<1>1. ASSUME NEW t \in Tasks, CallerStep(t) \/ TaskStep(t) PROVE DepthInv' /\ FlightInv'
  BY <1>1, CountCallers, CountTasks
<1>2. ASSUME NEW r \in Runs, RunStep(r) PROVE DepthInv' /\ FlightInv'
  BY <1>2, CountRuns
<1>3. ASSUME UNCHANGED vars PROVE DepthInv' /\ FlightInv'
  BY <1>3, CountStays DEF vars, acctVars, askVars, taskVars, queueVars, ctlVars, Pending
<1>4. DepthInv' /\ FlightInv'
  BY <1>1, <1>2, <1>3, CountClose DEF Next
<1>5. ShapeInv' /\ DropInv'
  BY ShapeNext, DropNext
<1> QED
  BY <1>4, <1>5

(* The queue depths and the in-flight counter are conserved: a task enters *)
(* each once and leaves it once, on whichever of the six ways out, and a   *)
(* depth never passes its cap.  Every task is a tool call, as in the       *)
(* program: CancelRun gives reservations back as tool calls.               *)
THEOREM SchedulerAccountsExact == OnlyTools => (Spec => [](DepthExact /\ InflightExact))
<1> SUFFICES ASSUME OnlyTools PROVE Spec => [](DepthExact /\ InflightExact)
  OBVIOUS
<1>1. ASSUME CountInv PROVE DepthExact /\ InflightExact
  <2>1. Reserved("tool") = DepthSet /\ Reserved("run") = {}
    BY DEF OnlyTools, Reserved, DepthSet, Reserving, Pending, Holders
  <2>2. Cardinality(Reserved("run")) = 0
    BY <2>1, FS_EmptySet
  <2>3. NotOut = FlightSet
    BY DEF NotOut, FlightSet, Pending, Holders
  <2> QED
    BY <1>1, <2>1, <2>2, <2>3, SchedulerAssumption
       DEF CountInv, DepthInv, FlightInv, DepthExact, InflightExact, Kinds
<1>2. Init => CountInv
  BY ShapeInit, DropInit, CountInit DEF CountInv
<1>3. CountInv /\ [Next]_vars => CountInv'
  BY CountNext
<1> QED
  BY <1>1, <1>2, <1>3, PTL DEF Spec

(* The queue depths, the session counts, the gate and the resource slots   *)
(* are each the number of tasks that owe one, within their ceilings, and   *)
(* the in-flight counter is balanced, with Submit, Cancel, CancelRun and   *)
(* Close at any moment.                                                    *)
THEOREM SchedulerCountersExact == OnlyTools => (Spec => []CountersExact)
<1>1. DepthExact /\ InflightExact /\ SessionExact /\ GateExact /\ LeaseExact => CountersExact
  BY DEF CountersExact
<1> QED
  BY <1>1, SchedulerAccountsExact, SchedulerSessionExact, SchedulerGateExact,
     SchedulerLeaseExact, PTL
-----------------------------------------------------------------------------
(* The answers.  A success is only ever in the channel, or returned, of a  *)
(* task that is over with that outcome; a caller that has to wait is in    *)
(* the waits map until its task answers it, or until Close does; only      *)
(* CancelRun removes its task without a word.                              *)
Told(t) ==
  /\ reply[t] = "ok" \/ result[t] = "ok" => outcome[t] = "ok" /\ stage[t] \in {"unwind", "gone"}
  /\ stage[t] = "finish" => outcome[t] # "none"
  /\ caller[t] \in {"admit", "reserve", "enqueue"} => t \in waits
  /\ caller[t] \in {"count", "wait"} =>
       \/ reply[t] # "none"
       \/ /\ t \in waits
          /\ t \in queued \/ stage[t] \in Working \/ t \in closer.dropped
       \/ stage[t] = "cancelled"

AnswerTypes ==
  /\ reply \in [Tasks -> Outcomes] /\ result \in [Tasks -> Outcomes]
  /\ outcome \in [Tasks -> Outcomes]

AnswerInv == AnswerTypes /\ \A t \in Tasks : Told(t)

LEMMA AnswerInit == Init => AnswerInv
BY DEF Init, AnswerInv, AnswerTypes, Told, Outcomes

LEMMA AnswerStays ==
  ASSUME AnswerInv, UNCHANGED <<reply, result, outcome, caller, waits, stage, queued>>,
         closer'.dropped = closer.dropped
  PROVE  AnswerInv'
BY DEF AnswerInv, AnswerTypes, Told

LEMMA AnswerOne ==
  ASSUME AnswerInv, NEW t \in Tasks, AnswerTypes', Told(t)',
         \A x \in Tasks \ {t} : /\ reply'[x] = reply[x] /\ result'[x] = result[x]
                                /\ outcome'[x] = outcome[x] /\ caller'[x] = caller[x]
                                /\ stage'[x] = stage[x] /\ (x \in waits => x \in waits')
                                /\ (x \in queued => x \in queued'),
         UNCHANGED closer
  PROVE  AnswerInv'
BY DEF AnswerInv, Told

LEMMA AnswerCallers ==
  ASSUME ShapeInv, AnswerInv, NEW t \in Tasks, CallerStep(t)
  PROVE  AnswerInv'
<1> USE DEF ShapeInv, GateTypes, AnswerInv, AnswerTypes, Outcomes
<1>0. UNCHANGED closer
  BY DEF CallerStep, SubmitWait, Admit, Reserve, Enqueue, Count, Answered, GiveUp, Cancel,
     CancelSettle, ctlVars
<1>1. CASE SubmitWait(t) \/ Admit(t) \/ Reserve(t)
  <2>1. stage[t] = "none" /\ UNCHANGED <<stage, reply, outcome, queued>>
    BY <1>1 DEF Shape, SubmitWait, Admit, Reserve, taskVars, queueVars
  <2>2. \/ /\ \E r \in {"closed", "refused"} : result' = [result EXCEPT ![t] = r]
           /\ waits' = waits \ {t} /\ CallerTo(t, "returned")
        \/ /\ UNCHANGED result /\ waits' = waits \cup {t}
           /\ \E s \in {"admit", "reserve", "enqueue"} : CallerTo(t, s)
    BY <1>1 DEF SubmitWait, Admit, Reserve, Fail, Return, Proceed, Told
  <2>3. AnswerTypes' /\ Told(t)'
    BY <1>0, <2>1, <2>2 DEF Told, CallerTo
  <2> QED
    BY <1>0, <2>1, <2>2, <2>3, AnswerOne DEF CallerTo
<1>2. CASE Enqueue(t)
  <2>1. stage[t] = "none" /\ t \in waits /\ UNCHANGED <<reply, outcome>>
    BY <1>2 DEF Shape, Enqueue, Told
  <2>2. \/ /\ stage' = [stage EXCEPT ![t] = "queued"] /\ CallerTo(t, "count")
           /\ UNCHANGED <<result, waits>> /\ queued' = queued \cup {t}
        \/ /\ UNCHANGED <<stage, queued>> /\ CallerTo(t, "returned") /\ waits' = waits \ {t}
           /\ result' = [result EXCEPT ![t] = "refused"]
    BY <1>2 DEF Enqueue, Fail, Return, Proceed, queueVars, Q!Enqueue
  <2>3. AnswerTypes' /\ Told(t)'
    BY <1>0, <2>1, <2>2 DEF Told, CallerTo
  <2> QED
    BY <1>0, <2>1, <2>2, <2>3, AnswerOne DEF CallerTo
<1>3. CASE Count(t) \/ Answered(t) \/ GiveUp(t)
  <2>1. UNCHANGED <<stage, reply, outcome, waits, queued>> /\ caller[t] \in {"count", "wait"}
    BY <1>3 DEF Count, Answered, GiveUp, Return, Proceed, taskVars, queueVars
  <2>2. \/ CallerTo(t, "wait") /\ UNCHANGED result
        \/ CallerTo(t, "returned") /\ result' = [result EXCEPT ![t] = reply[t]]
        \/ CallerTo(t, "cancel") /\ UNCHANGED result
    BY <1>3 DEF Count, Answered, GiveUp, Return, Proceed
  <2>3. AnswerTypes' /\ Told(t)'
    BY <1>0, <2>1, <2>2 DEF Told, CallerTo
  <2> QED
    BY <1>0, <2>1, <2>2, <2>3, AnswerOne DEF CallerTo
<1>4. CASE Cancel(t)
  <2>1. UNCHANGED <<reply, outcome, waits>> /\ queued \ {t} \subseteq queued'
    BY <1>4 DEF Cancel, Q!CancelTask, Q!Unlink, queueVars
  <2>2. \/ /\ stage[t] = "queued" /\ stage' = [stage EXCEPT ![t] = "dropped"]
           /\ CallerTo(t, "settle") /\ UNCHANGED result
        \/ /\ UNCHANGED stage /\ CallerTo(t, "returned")
           /\ result' = [result EXCEPT ![t] = "expired"]
    BY <1>4 DEF Cancel, Return, Q!CancelTask, Shape
  <2>3. AnswerTypes' /\ Told(t)'
    BY <1>0, <2>1, <2>2 DEF Told, CallerTo
  <2> QED
    BY <1>0, <2>1, <2>2, <2>3, AnswerOne DEF CallerTo
<1>5. CASE CancelSettle(t)
  <2>1. /\ UNCHANGED <<stage, outcome, queued>> /\ CallerTo(t, "returned")
        /\ result' = [result EXCEPT ![t] = "expired"]
        /\ waits' = waits \ {t}
        /\ reply' = [x \in Tasks |-> IF x \in {t} \cap waits THEN "cancelled" ELSE reply[x]]
    BY <1>5 DEF CancelSettle, Return, Answer, Same, taskVars, queueVars
  <2>2. AnswerTypes' /\ Told(t)'
    BY <1>0, <2>1 DEF Told, CallerTo
  <2> QED
    BY <1>0, <2>1, <2>2, AnswerOne DEF CallerTo
<1> QED
  BY <1>1, <1>2, <1>3, <1>4, <1>5 DEF CallerStep

LEMMA AnswerTasks ==
  ASSUME ShapeInv, AnswerInv, NEW t \in Tasks, TaskStep(t)
  PROVE  AnswerInv'
<1> USE DEF ShapeInv, GateTypes, AnswerInv, AnswerTypes, Outcomes, Working
<1>0. UNCHANGED closer /\ queued \ {t} \subseteq queued'
  BY DEF TaskStep, Dispatch, Start, AcquireLease, LeaseArrives, EnterGate, Register,
     RunnerReturns, Finish, Unregister, LeaveGate, ReleaseLease, ReleaseReservation,
     ReleaseSession, Uncount, queueVars, ctlVars, Q!Dequeue, Q!Unlink, Q!Release
<1>1. CASE Finish(t)
  <2>1. /\ stage[t] = "finish" /\ stage' = [stage EXCEPT ![t] = "unwind"]
        /\ UNCHANGED <<outcome, caller, result>>
        /\ waits' = waits \ {t}
        /\ reply' = [x \in Tasks |-> IF x \in {t} \cap waits THEN outcome[x] ELSE reply[x]]
    BY <1>1 DEF Finish, Advance, Answer
  <2>2. AnswerTypes' /\ Told(t)'
    BY <1>0, <2>1 DEF Told, Shape
  <2> QED
    BY <1>0, <2>1, <2>2, AnswerOne
<1>2. CASE /\ \E o \in Outcomes \ {"none"} : EndWith(t, o) /\ UNCHANGED askVars
           /\ stage[t] \notin {"none", "dropped", "cancelled", "unwind", "gone"}
  <2>1. PICK o \in Outcomes \ {"none"} :
          /\ stage' = [stage EXCEPT ![t] = "finish"] /\ outcome' = [outcome EXCEPT ![t] = o]
          /\ UNCHANGED <<caller, result, reply, waits>>
          /\ stage[t] \notin {"none", "dropped", "cancelled", "unwind", "gone"}
    BY <1>2 DEF EndWith, askVars
  <2>2. AnswerTypes' /\ Told(t)'
    BY <1>0, <2>1 DEF Told, Shape
  <2> QED
    BY <1>0, <2>1, <2>2, AnswerOne
<1>3. CASE /\ UNCHANGED <<askVars, outcome>>
           /\ \/ UNCHANGED <<stage, queued>>
              \/ stage[t] = "unwind" /\ stage' = [stage EXCEPT ![t] = "gone"]
              \/ /\ stage[t] \notin {"none", "dropped", "cancelled", "finish", "unwind", "gone"}
                 /\ \E s \in {"start", "acquire", "blocked", "gate", "register", "running"} :
                      stage' = [stage EXCEPT ![t] = s]
  <2>1. AnswerTypes' /\ Told(t)'
    BY <1>0, <1>3 DEF Told, askVars, Shape
  <2> QED
    BY <1>0, <1>3, <2>1, AnswerOne DEF askVars
<1>4. CASE Dispatch(t)
  BY <1>3, <1>4 DEF Dispatch, Advance, Q!Dequeue, Q!Dispatchable, Shape
<1>5. CASE Start(t) \/ AcquireLease(t) \/ LeaseArrives(t) \/ EnterGate(t) \/ Register(t)
             \/ RunnerReturns(t)
  BY <1>2, <1>3, <1>5
     DEF Start, AcquireLease, LeaseArrives, EnterGate, Register, RunnerReturns, Advance
<1>6. CASE Unregister(t) \/ LeaveGate(t) \/ ReleaseLease(t) \/ ReleaseReservation(t)
             \/ ReleaseSession(t) \/ Uncount(t)
  BY <1>3, <1>6 DEF Unregister, LeaveGate, ReleaseLease, ReleaseReservation, ReleaseSession,
     Uncount, Unwind, queueVars, Q!Release
<1> QED
  BY <1>1, <1>4, <1>5, <1>6 DEF TaskStep

LEMMA AnswerRuns ==
  ASSUME ShapeInv, DropInv, AnswerInv, NEW r \in Runs, RunStep(r)
  PROVE  AnswerInv'
<1>1. CASE CancelRunDrop(r)
  <2> DEFINE S == Q!QueuedOf(r)
  <2>1. /\ UNCHANGED <<reply, result, outcome, caller, waits, closer>> /\ queued' = queued \ S
        /\ \A t \in Tasks : stage'[t] = IF t \in S THEN "cancelled" ELSE stage[t]
    BY <1>1 DEF CancelRunDrop, askVars, DropAll, Q!CancelRun, Q!Unlink
  <2>2. \A t \in S : stage[t] = "queued"
    BY DEF ShapeInv, Shape, DropInv, Q!QueuedOf
  <2> HIDE DEF S
  <2>3. ASSUME NEW t \in Tasks PROVE Told(t)'
    BY <2>1, <2>2 DEF AnswerInv, Told
  <2> QED
    BY <2>1, <2>3 DEF AnswerInv, AnswerTypes
<1>2. CASE ~CancelRunDrop(r)
  BY <1>2, AnswerStays DEF RunStep, CancelRunMark, CancelRunSettle, ClearRunCancellation,
     askVars, taskVars, queueVars
<1> QED
  BY <1>1, <1>2

(* Close drains the queue, and tells whoever waits for a task it drained.  *)
LEMMA AnswerClose ==
  ASSUME ShapeInv, DropInv, AnswerInv, CloseStep
  PROVE  AnswerInv'
<1>0. closer \in CloseRow
  BY DEF DropInv
<1>1. CASE CloseDrain
  <2>1. /\ UNCHANGED <<reply, result, outcome, caller, waits>>
        /\ closer.dropped = {} /\ closer'.dropped = queued
        /\ \A t \in Tasks : stage'[t] = IF t \in queued THEN "dropped" ELSE stage[t]
    BY <1>0, <1>1 DEF CloseDrain, askVars, DropAll, DropInv, CloseRow
  <2>2. \A t \in queued : stage[t] = "queued"
    BY DEF ShapeInv, Shape, DropInv
  <2>3. ASSUME NEW t \in Tasks PROVE Told(t)'
    BY <2>1, <2>2 DEF AnswerInv, Told
  <2> QED
    BY <2>1, <2>3 DEF AnswerInv, AnswerTypes
<1>2. CASE CloseSettle
  <2>1. /\ UNCHANGED <<caller, result, outcome, stage, queued>>
        /\ waits' = waits \ closer.dropped
        /\ reply' = [t \in Tasks |-> IF t \in closer.dropped \cap waits THEN "closed"
                                     ELSE reply[t]]
    BY <1>2 DEF CloseSettle, Settling, Answer, Same, taskVars, queueVars
  <2>2. \A t \in closer.dropped : stage[t] \in {"dropped", "cancelled"} /\ t \notin queued
    BY DEF DropInv, Dropped, ShapeInv, Shape
  <2>3. AnswerTypes'
    BY <2>1 DEF AnswerInv, AnswerTypes, Outcomes
  <2>4. ASSUME NEW t \in Tasks PROVE Told(t)'
    BY <2>1, <2>2 DEF AnswerInv, Told, ShapeInv, Shape, Working
  <2> QED
    BY <2>3, <2>4 DEF AnswerInv
<1>3. CASE ~CloseDrain /\ ~CloseSettle
  <2>1. closer'.dropped = closer.dropped
    BY <1>0, <1>3 DEF CloseStep, Close, ClosePool, CloseStop, CloseReturns, DispatcherExit,
       CloserAt, CloseRow
  <2> QED
    BY <1>3, <2>1, AnswerStays DEF CloseStep, Close, ClosePool, CloseStop, CloseReturns,
       DispatcherExit, askVars, taskVars, queueVars
<1> QED
  BY <1>1, <1>2, <1>3

LEMMA AnswerNext == ASSUME ShapeInv, DropInv, AnswerInv, [Next]_vars PROVE AnswerInv'
<1>1. ASSUME NEW t \in Tasks, CallerStep(t) \/ TaskStep(t) PROVE AnswerInv'
  BY <1>1, AnswerCallers, AnswerTasks
<1>2. ASSUME NEW r \in Runs, RunStep(r) PROVE AnswerInv'
  BY <1>2, AnswerRuns
<1>3. CASE UNCHANGED vars
  BY <1>3, AnswerStays DEF vars, askVars, taskVars, queueVars, ctlVars
<1> QED
  BY <1>1, <1>2, <1>3, AnswerClose DEF Next

LEMMA AnswersKept == Spec => []AnswerInv
<1>1. Init => ShapeInv /\ DropInv /\ AnswerInv
  BY ShapeInit, DropInit, AnswerInit
<1>2. ShapeInv /\ DropInv /\ AnswerInv /\ [Next]_vars => ShapeInv' /\ DropInv' /\ AnswerInv'
  BY ShapeNext, DropNext, AnswerNext
<1> QED
  BY <1>1, <1>2, PTL DEF Spec

(* SubmitWait answers success only for a task whose runner returned        *)
(* success, whatever removes, refuses or closes beside it.                 *)
THEOREM SchedulerSuccessIsReal == Spec => []SuccessIsReal
<1>1. AnswerInv => SuccessIsReal
  BY DEF AnswerInv, Told, SuccessIsReal
<1> QED
  BY <1>1, AnswersKept, PTL

(* A caller of SubmitWait that waits has its answer in its channel or a    *)
(* registered waiter whose task is queued, at work, or drained and about   *)
(* to be answered by Close, whatever removes, refuses or closes beside it; *)
(* excepted are tasks that CancelRun dropped and those that came into the  *)
(* queue after all of Close.                                               *)
THEOREM SchedulerWaiterIsServed == Spec => []WaiterIsServed
<1>1. AnswerInv => WaiterIsServed
  BY DEF AnswerInv, Told, WaiterIsServed
<1> QED
  BY <1>1, AnswersKept, PTL
=============================================================================
