--------------------------- MODULE FairQueueProofs ---------------------------
(***************************************************************************)
(* Proofs about the fair queue and its clients, for every number of tasks, *)
(* classes and sessions and every cost and weight.                         *)
(*                                                                         *)
(* The argument.  Neither counter is tied to what it counts by the code    *)
(* alone: a task's phase must agree with the lists (PhaseExact), or a task *)
(* could be listed and in flight at once.  The bound on the delay is kept  *)
(* because the class served has the least virtual time of the ready ones.  *)
(***************************************************************************)
EXTENDS FairQueueClients, FiniteSetTheorems, TLAPS

PhaseExact == \A t \in Tasks : t \in queued <=> phase[t] = "queued"

FairQueueInv ==
  /\ TypeOK
  /\ PhaseExact
  /\ SessionExact
  /\ TotalExact
  /\ BoundedDelay

(* What a task adds to its class's virtual time is a natural number.       *)
LEMMA IncrementNat == \A t \in Tasks : Increment(t) \in Nat
<1> SUFFICES ASSUME NEW t \in Tasks
             PROVE  Increment(t) \in Nat
  OBVIOUS
<1> DEFINE w == Weight[ClassOf[t]]
<1> DEFINE x == Cost[t] * Scale
<1>1. ClassOf[t] \in Classes /\ Cost[t] \in Nat /\ Scale \in Nat
  BY FairQueueAssumption
<1>2. w \in Nat \ {0}
  BY <1>1, FairQueueAssumption
<1>3. x \in Nat
  BY <1>1
<1> HIDE DEF w, x
<1>4. x \div w \in Nat
  BY <1>2, <1>3
<1> QED
  BY <1>4 DEF Increment, w, x

(* The listed tasks and those in flight are finitely many.                 *)
LEMMA Finite ==
  ASSUME TypeOK
  PROVE  /\ IsFiniteSet(queued) /\ Cardinality(queued) \in Nat
         /\ \A s \in Sessions : IsFiniteSet(InFlight(s)) /\ Cardinality(InFlight(s)) \in Nat
<1>1. queued \in SUBSET Tasks /\ \A s \in Sessions : InFlight(s) \in SUBSET Tasks
  BY DEF TypeOK, QueueTypeOK, InFlight
<1>2. IsFiniteSet(Tasks)
  BY FairQueueAssumption
<1> QED
  BY <1>1, <1>2, FS_Subset, FS_CardinalityType

(* Taking listed tasks out of the lists keeps the depth exact.             *)
LEMMA UnlinkKeepsTotal ==
  ASSUME FairQueueInv, NEW S \in SUBSET queued, Unlink(S)
  PROVE  /\ queued' \in SUBSET Tasks /\ ahead' \in [Tasks -> SUBSET Tasks] /\ total' \in Int
         /\ TotalExact'
<1>1. IsFiniteSet(queued) /\ Cardinality(queued) \in Nat /\ queued \in SUBSET Tasks
      /\ ahead \in [Tasks -> SUBSET Tasks]
  BY Finite DEF FairQueueInv, TypeOK, QueueTypeOK
<1>2. IsFiniteSet(S) /\ Cardinality(S) \in Nat
  BY <1>1, FS_Subset, FS_CardinalityType
<1>3. S = queued \cap S
  OBVIOUS
<1>4. Cardinality(queued \ S) = Cardinality(queued) - Cardinality(S)
  BY <1>1, <1>3, FS_Difference
<1>5. total = Cardinality(queued) /\ total <= TotalCap
  BY DEF FairQueueInv, TotalExact
<1>6. queued' = queued \ S /\ total' = total - Cardinality(S)
  BY DEF Unlink
<1>7. total' = Cardinality(queued') /\ total' <= TotalCap
  BY <1>1, <1>2, <1>4, <1>5, <1>6, FairQueueAssumption
<1>8. ahead' \in [Tasks -> SUBSET Tasks]
  BY <1>1 DEF Unlink
<1> QED
  BY <1>1, <1>2, <1>5, <1>6, <1>7, <1>8 DEF TotalExact

(* Where no slot of a session is taken or given back, its count stays      *)
(* exact.                                                                  *)
LEMMA SessionsKept ==
  ASSUME FairQueueInv, UNCHANGED sessions,
         \A t \in Tasks : phase'[t] = "dispatched" <=> phase[t] = "dispatched"
  PROVE  SessionExact'
<1>1. \A s \in Sessions : InFlight(s)' = InFlight(s)
  BY DEF InFlight
<1> QED
  BY <1>1 DEF FairQueueInv, SessionExact

(* Whom the classes were overtaken by is what it was, or what was served.  *)
LEMMA Observed ==
  ASSUME FairQueueInv, NEW served \in SUBSET Classes, Observe(served), queued' \in SUBSET Tasks
  PROVE  /\ overtook' \in [Classes -> SUBSET Classes]
         /\ \A d \in Ready' : /\ d \in Classes
                              /\ \A c \in overtook'[d] : /\ d \in Ready /\ d \notin served
                                                         /\ c \in overtook[d] \cup served
<1>1. overtook' \in [Classes -> SUBSET Classes]
  BY DEF Observe, FairQueueInv, TypeOK
<1>2. ASSUME NEW d \in Ready'
      PROVE  d \in Classes
  <2>1. PICK t \in Dispatchable' : d = ClassOf[t]
    BY DEF Ready
  <2>2. t \in Tasks
    BY <2>1 DEF Dispatchable
  <2> QED
    BY <2>1, <2>2, FairQueueAssumption
<1>3. ASSUME NEW d \in Ready', NEW c \in overtook'[d]
      PROVE  d \in Ready /\ d \notin served /\ c \in overtook[d] \cup served
  <2>1. overtook'[d] = IF d \in (Ready \cap Ready') \ served
                       THEN overtook[d] \cup served ELSE {}
    BY <1>2 DEF Observe
  <2> QED
    BY <1>3, <2>1
<1> QED
  BY <1>1, <1>2, <1>3

(* Where no class is served, the bound on the delay stays.                 *)
LEMMA DelayKept ==
  ASSUME FairQueueInv, UNCHANGED vtime, Observe({}), queued' \in SUBSET Tasks
  PROVE  /\ overtook' \in [Classes -> SUBSET Classes]
         /\ BoundedDelay'
<1>1. /\ overtook' \in [Classes -> SUBSET Classes]
      /\ \A d \in Ready' : \A c \in overtook'[d] : d \in Ready /\ c \in overtook[d]
  BY Observed
<1>2. ASSUME NEW d \in Ready', NEW c \in overtook'[d]
      PROVE  \E t \in Tasks : ClassOf[t] = c /\ vtime'[c] <= vtime'[d] + Increment(t)
  BY <1>1 DEF FairQueueInv, BoundedDelay
<1> QED
  BY <1>1, <1>2 DEF BoundedDelay

(* The class served has the least virtual time of the ready classes, so it *)
(* is ahead of none of them by more than the task it was served.           *)
LEMMA DelayBounded ==
  ASSUME FairQueueInv, NEW t \in Tasks, Dequeue(t), Observe({ClassOf[t]}),
         queued' \in SUBSET Tasks
  PROVE  /\ overtook' \in [Classes -> SUBSET Classes]
         /\ BoundedDelay'
<1> DEFINE k == ClassOf[t]
<1>1. k \in Classes /\ Increment(t) \in Nat /\ vtime \in [Classes -> Nat]
  BY IncrementNat, FairQueueAssumption DEF FairQueueInv, TypeOK, QueueTypeOK
<1>2. /\ overtook' \in [Classes -> SUBSET Classes]
      /\ \A d \in Ready' : /\ d \in Classes
                           /\ \A c \in overtook'[d] : /\ d \in Ready /\ d # k
                                                      /\ c \in overtook[d] \cup {k}
  BY <1>1, Observed
<1>3. /\ vtime'[k] = vtime[k] + Increment(t)
      /\ \A d \in Classes \ {k} : vtime'[d] = vtime[d]
  BY <1>1 DEF Dequeue
<1>4. ASSUME NEW d \in Ready', NEW c \in overtook'[d]
      PROVE  \E u \in Tasks : ClassOf[u] = c /\ vtime'[c] <= vtime'[d] + Increment(u)
  <2>1. d \in Classes /\ d \in Ready /\ d # k /\ c \in overtook[d] \cup {k}
    BY <1>2, <1>4
  <2>2. vtime'[d] = vtime[d] /\ vtime[d] \in Nat
    BY <1>1, <1>3, <2>1
  <2>3. CASE c = k
    <3>1. Precedes(k, d)
      BY <2>1 DEF Dequeue
    <3>2. vtime[k] <= vtime[d] /\ vtime[k] \in Nat
      BY <1>1, <2>1, <2>2, <3>1 DEF Precedes
    <3>3. vtime'[c] <= vtime'[d] + Increment(t)
      BY <1>1, <1>3, <2>2, <2>3, <3>2
    <3> QED
      BY <2>3, <3>3
  <2>4. CASE c # k
    <3>1. c \in overtook[d]
      BY <2>1, <2>4
    <3>2. c \in Classes
      BY <2>1, <3>1 DEF FairQueueInv, TypeOK
    <3>3. PICK u \in Tasks : ClassOf[u] = c /\ vtime[c] <= vtime[d] + Increment(u)
      BY <2>1, <3>1 DEF FairQueueInv, BoundedDelay
    <3>4. vtime'[c] = vtime[c]
      BY <1>3, <2>4, <3>2
    <3> QED
      BY <2>2, <3>3, <3>4
  <2> QED
    BY <2>3, <2>4
<1> QED
  BY <1>2, <1>4 DEF BoundedDelay

-----------------------------------------------------------------------------
LEMMA FairQueueInit == Init => FairQueueInv
<1> SUFFICES ASSUME Init
             PROVE  FairQueueInv
  OBVIOUS
<1> USE DEF Init, QueueInit
<1>1. TypeOK
  BY DEF TypeOK, QueueTypeOK
<1>2. PhaseExact
  BY DEF PhaseExact
<1>3. SessionExact
  <2>1. \A s \in Sessions : InFlight(s) = {}
    BY DEF InFlight
  <2>2. \A s \in Sessions : Cardinality(InFlight(s)) = 0
    BY <2>1, FS_EmptySet
  <2>3. SessionCap \in Nat /\ \A s \in Sessions : sessions[s] = 0
    BY FairQueueAssumption
  <2> QED
    BY <2>2, <2>3 DEF SessionExact
<1>4. TotalExact
  BY FS_EmptySet, FairQueueAssumption DEF TotalExact
<1>5. BoundedDelay
  BY DEF BoundedDelay, Ready, Dispatchable
<1> QED
  BY <1>1, <1>2, <1>3, <1>4, <1>5 DEF FairQueueInv

(* A task is offered: it joins the lists.                                  *)
LEMMA OfferKeeps ==
  ASSUME FairQueueInv, NEW t \in Tasks, Offer(t)
  PROVE  FairQueueInv'
<1> USE DEF Offer, Enqueue, Become
<1>1. /\ queued \in SUBSET Tasks /\ ahead \in [Tasks -> SUBSET Tasks] /\ total \in Int
      /\ vtime \in [Classes -> Nat] /\ sessions \in [Sessions -> Nat]
      /\ phase \in [Tasks -> {"out", "queued", "dispatched"}]
  BY DEF FairQueueInv, TypeOK, QueueTypeOK
<1>2. List(ClassOf[t]) \in SUBSET Tasks
  BY <1>1 DEF List
<1>3. queued' \in SUBSET Tasks /\ ahead' \in [Tasks -> SUBSET Tasks]
  BY <1>1, <1>2
<1>4. phase' = [u \in Tasks |-> IF u \in {t} THEN "queued" ELSE phase[u]] /\ phase[t] = "out"
  OBVIOUS
<1>5. phase' \in [Tasks -> {"out", "queued", "dispatched"}]
  BY <1>1, <1>4
<1>6. t \notin queued
  BY <1>4 DEF FairQueueInv, PhaseExact
<1>7. PhaseExact'
  BY <1>4 DEF FairQueueInv, PhaseExact
<1>8. SessionExact'
  BY <1>4, SessionsKept
<1>9. TotalExact' /\ total' \in Int
  <2>1. IsFiniteSet(queued) /\ Cardinality(queued) \in Nat /\ total = Cardinality(queued)
    BY Finite DEF FairQueueInv, TotalExact
  <2>2. Cardinality(queued') = Cardinality(queued) + 1
    BY <1>6, <2>1, FS_AddElement
  <2>3. ~(total >= TotalCap)
    BY DEF QueueFull
  <2> QED
    BY <2>1, <2>2, <2>3, FairQueueAssumption DEF TotalExact
<1>10. overtook' \in [Classes -> SUBSET Classes] /\ BoundedDelay'
  BY <1>3, DelayKept
<1> QED
  BY <1>1, <1>3, <1>5, <1>7, <1>8, <1>9, <1>10 DEF FairQueueInv, TypeOK, QueueTypeOK

(* Listed tasks leave the lists, without being served.                     *)
LEMMA RemovalKeeps ==
  ASSUME FairQueueInv, NEW S \in SUBSET queued,
         queued' = queued \ S, ahead' \in [Tasks -> SUBSET Tasks], total' \in Int, TotalExact',
         UNCHANGED <<vtime, sessions>>, Become(S, "out"), Observe({})
  PROVE  FairQueueInv'
<1>1. /\ queued \in SUBSET Tasks
      /\ vtime \in [Classes -> Nat] /\ sessions \in [Sessions -> Nat]
      /\ phase \in [Tasks -> {"out", "queued", "dispatched"}]
  BY DEF FairQueueInv, TypeOK, QueueTypeOK
<1>2. queued' \in SUBSET Tasks
  BY <1>1
<1>3. phase' = [u \in Tasks |-> IF u \in S THEN "out" ELSE phase[u]]
  BY DEF Become
<1>4. phase' \in [Tasks -> {"out", "queued", "dispatched"}]
  BY <1>1, <1>3
<1>5. \A u \in S : phase[u] = "queued"
  BY <1>1 DEF FairQueueInv, PhaseExact
<1>6. PhaseExact'
  BY <1>3 DEF FairQueueInv, PhaseExact
<1>7. SessionExact'
  BY <1>3, <1>5, SessionsKept
<1>8. overtook' \in [Classes -> SUBSET Classes] /\ BoundedDelay'
  BY <1>2, DelayKept
<1> QED
  BY <1>1, <1>2, <1>4, <1>6, <1>7, <1>8 DEF FairQueueInv, TypeOK, QueueTypeOK

(* The slot that a session's count gains or loses is the task's own.       *)
LEMMA InFlightMoves ==
  ASSUME TypeOK, NEW t \in Tasks, NEW p \in {"out", "dispatched"}, Become({t}, p)
  PROVE  \A s \in Sessions :
           InFlight(s)' = IF p = "dispatched" /\ Counted(t) /\ SessionOf[t] = s
                          THEN InFlight(s) \cup {t} ELSE InFlight(s) \ {t}
BY DEF TypeOK, InFlight, Become, Counted

(* The queue serves a task of the class that lies furthest behind.         *)
LEMMA DispatchKeeps ==
  ASSUME FairQueueInv, NEW t \in Tasks, Dispatch(t)
  PROVE  FairQueueInv'
<1>1. /\ queued \in SUBSET Tasks /\ vtime \in [Classes -> Nat]
      /\ sessions \in [Sessions -> Nat]
      /\ phase \in [Tasks -> {"out", "queued", "dispatched"}]
  BY DEF FairQueueInv, TypeOK, QueueTypeOK
<1>2. t \in queued /\ phase[t] = "queued" /\ SessionHasCapacity(t) /\ Unlink({t})
  BY DEF Dispatch, Dequeue, Dispatchable, FairQueueInv, PhaseExact
<1>3. queued' \in SUBSET Tasks /\ ahead' \in [Tasks -> SUBSET Tasks] /\ total' \in Int
      /\ TotalExact'
  BY <1>2, UnlinkKeepsTotal
<1>4. phase' = [u \in Tasks |-> IF u \in {t} THEN "dispatched" ELSE phase[u]]
  BY DEF Dispatch, Become
<1>5. phase' \in [Tasks -> {"out", "queued", "dispatched"}]
  BY <1>1, <1>4
<1>6. PhaseExact'
  BY <1>2, <1>4 DEF FairQueueInv, PhaseExact, Unlink
<1>7. vtime' \in [Classes -> Nat]
  <2>1. vtime[ClassOf[t]] + Increment(t) \in Nat
    BY <1>1, IncrementNat, FairQueueAssumption
  <2> QED
    BY <1>1, <2>1 DEF Dispatch, Dequeue
<1>8. sessions' = IF Counted(t) THEN [sessions EXCEPT ![SessionOf[t]] = @ + 1] ELSE sessions
  BY DEF Dispatch, Dequeue
<1>9. sessions' \in [Sessions -> Nat]
  BY <1>1, <1>8, FairQueueAssumption
<1>10. SessionExact'
  <2> SUFFICES ASSUME NEW s \in Sessions
               PROVE  sessions'[s] = Cardinality(InFlight(s)') /\ sessions'[s] <= SessionCap
    BY DEF SessionExact
  <2>1. sessions[s] = Cardinality(InFlight(s)) /\ sessions[s] <= SessionCap
        /\ IsFiniteSet(InFlight(s)) /\ sessions[s] \in Nat
    BY <1>1, Finite DEF FairQueueInv, SessionExact
  <2>2. t \notin InFlight(s)
    BY <1>2 DEF InFlight
  <2>3. InFlight(s)' = IF Counted(t) /\ SessionOf[t] = s
                       THEN InFlight(s) \cup {t} ELSE InFlight(s) \ {t}
    BY InFlightMoves DEF Dispatch, FairQueueInv
  <2>4. CASE Counted(t) /\ SessionOf[t] = s
    <3>1. Cardinality(InFlight(s)') = Cardinality(InFlight(s)) + 1
      <4>1. InFlight(s)' = InFlight(s) \cup {t}
        BY <2>3, <2>4
      <4>2. Cardinality(InFlight(s) \cup {t}) = Cardinality(InFlight(s)) + 1
        BY <2>1, <2>2, FS_AddElement
      <4> QED
        BY <4>1, <4>2
    <3>2. sessions'[s] = sessions[s] + 1
      BY <1>1, <1>8, <2>4
    <3>3. sessions[s] < SessionCap
      BY <1>2, <2>4 DEF SessionHasCapacity
    <3> QED
      BY <2>1, <3>1, <3>2, <3>3, FairQueueAssumption
  <2>5. CASE ~(Counted(t) /\ SessionOf[t] = s)
    <3>1. InFlight(s)' = InFlight(s)
      BY <2>2, <2>3, <2>5
    <3>2. sessions'[s] = sessions[s]
      BY <1>1, <1>8, <2>5
    <3> QED
      BY <2>1, <3>1, <3>2
  <2> QED
    BY <2>4, <2>5
<1>11. overtook' \in [Classes -> SUBSET Classes] /\ BoundedDelay'
  BY <1>3, DelayBounded DEF Dispatch
<1> QED
  BY <1>3, <1>5, <1>6, <1>7, <1>9, <1>10, <1>11 DEF FairQueueInv, TypeOK, QueueTypeOK

(* A dispatched task ends and gives its session's slot back.               *)
LEMMA FinishKeeps ==
  ASSUME FairQueueInv, NEW t \in Tasks, Finish(t)
  PROVE  FairQueueInv'
<1>1. /\ queued \in SUBSET Tasks /\ ahead \in [Tasks -> SUBSET Tasks] /\ total \in Int
      /\ vtime \in [Classes -> Nat] /\ sessions \in [Sessions -> Nat]
      /\ phase \in [Tasks -> {"out", "queued", "dispatched"}]
  BY DEF FairQueueInv, TypeOK, QueueTypeOK
<1>2. phase[t] = "dispatched" /\ UNCHANGED <<queued, ahead, total, vtime>>
  BY DEF Finish, Release
<1>3. phase' = [u \in Tasks |-> IF u \in {t} THEN "out" ELSE phase[u]]
  BY DEF Finish, Become
<1>4. phase' \in [Tasks -> {"out", "queued", "dispatched"}]
  BY <1>1, <1>3
<1>5. PhaseExact'
  BY <1>2, <1>3 DEF FairQueueInv, PhaseExact
<1>6. sessions' = IF Counted(t) /\ sessions[SessionOf[t]] > 0
                  THEN [sessions EXCEPT ![SessionOf[t]] = @ - 1] ELSE sessions
  BY DEF Finish, Release
<1>7. SessionOf[t] \in Sessions
  BY FairQueueAssumption
<1>8. sessions' \in [Sessions -> Nat]
  BY <1>1, <1>6, <1>7
<1>9. SessionExact'
  <2> SUFFICES ASSUME NEW s \in Sessions
               PROVE  sessions'[s] = Cardinality(InFlight(s)') /\ sessions'[s] <= SessionCap
    BY DEF SessionExact
  <2>1. sessions[s] = Cardinality(InFlight(s)) /\ sessions[s] <= SessionCap
        /\ IsFiniteSet(InFlight(s)) /\ sessions[s] \in Nat
    BY <1>1, Finite DEF FairQueueInv, SessionExact
  <2>2. InFlight(s)' = InFlight(s) \ {t}
    BY InFlightMoves DEF Finish, FairQueueInv
  <2>3. CASE Counted(t) /\ SessionOf[t] = s
    <3>1. t \in InFlight(s)
      BY <1>2, <2>3 DEF InFlight
    <3>2. Cardinality(InFlight(s)') = Cardinality(InFlight(s)) - 1
      BY <2>1, <2>2, <3>1, FS_RemoveElement
    <3>3. sessions[s] > 0
      BY <2>1, <3>1, FS_EmptySet
    <3>4. sessions'[s] = sessions[s] - 1
      BY <1>1, <1>6, <2>3, <3>3
    <3> QED
      BY <2>1, <3>2, <3>4, FairQueueAssumption
  <2>4. CASE ~(Counted(t) /\ SessionOf[t] = s)
    <3>1. t \notin InFlight(s)
      BY <2>4 DEF InFlight
    <3>2. InFlight(s)' = InFlight(s)
      BY <2>2, <3>1
    <3>3. sessions'[s] = sessions[s]
      BY <1>1, <1>6, <2>4
    <3> QED
      BY <2>1, <3>2, <3>3
  <2> QED
    BY <2>3, <2>4
<1>10. TotalExact'
  BY <1>2 DEF FairQueueInv, TotalExact
<1>11. overtook' \in [Classes -> SUBSET Classes] /\ BoundedDelay'
  BY <1>1, <1>2, DelayKept DEF Finish
<1> QED
  BY <1>1, <1>2, <1>4, <1>5, <1>8, <1>9, <1>10, <1>11 DEF FairQueueInv, TypeOK, QueueTypeOK

(* One task, the tasks of a run, or all of them are taken out.             *)
LEMMA WithdrawKeeps ==
  ASSUME FairQueueInv, NEW S \in SUBSET queued,
         Unlink(S), UNCHANGED <<vtime, sessions>>, Become(S, "out"), Observe({})
  PROVE  FairQueueInv'
<1>1. ahead' \in [Tasks -> SUBSET Tasks] /\ total' \in Int /\ TotalExact'
  BY UnlinkKeepsTotal
<1> QED
  BY <1>1, RemovalKeeps DEF Unlink

LEMMA DrainKeeps ==
  ASSUME FairQueueInv, Drain
  PROVE  FairQueueInv'
<1>1. queued' = queued \ queued /\ ahead' \in [Tasks -> SUBSET Tasks] /\ total' \in Int
  BY DEF Drain, DrainAll
<1>2. TotalExact'
  BY FS_EmptySet, FairQueueAssumption DEF Drain, DrainAll, TotalExact
<1> QED
  BY <1>1, <1>2, RemovalKeeps DEF Drain, DrainAll

LEMMA FairQueueStep == FairQueueInv /\ [Next]_vars => FairQueueInv'
<1> SUFFICES ASSUME FairQueueInv, [Next]_vars
             PROVE  FairQueueInv'
  OBVIOUS
<1>1. CASE UNCHANGED vars
  <2>1. \A s \in Sessions : InFlight(s)' = InFlight(s)
    BY <1>1 DEF vars, InFlight
  <2>2. Ready' = Ready
    BY <1>1 DEF vars, Ready, Dispatchable, SessionHasCapacity
  <2>3. TypeOK' /\ PhaseExact' /\ TotalExact'
    BY <1>1 DEF vars, FairQueueInv, TypeOK, QueueTypeOK, PhaseExact, TotalExact
  <2>4. SessionExact'
    BY <1>1, <2>1 DEF vars, FairQueueInv, SessionExact
  <2>5. BoundedDelay'
    BY <1>1, <2>2 DEF vars, FairQueueInv, BoundedDelay
  <2> QED
    BY <2>3, <2>4, <2>5 DEF FairQueueInv
<1>2. ASSUME NEW t \in Tasks, Offer(t)
      PROVE  FairQueueInv'
  BY <1>2, OfferKeeps
<1>3. ASSUME NEW t \in Tasks, Refused(t)
      PROVE  FairQueueInv'
  BY <1>1, <1>3 DEF Refused
<1>4. ASSUME NEW t \in Tasks, Dispatch(t)
      PROVE  FairQueueInv'
  BY <1>4, DispatchKeeps
<1>5. ASSUME NEW t \in Tasks, Finish(t)
      PROVE  FairQueueInv'
  BY <1>5, FinishKeeps
<1>6. ASSUME NEW t \in Tasks, Withdraw(t)
      PROVE  FairQueueInv'
  BY <1>6, WithdrawKeeps DEF Withdraw, CancelTask
<1>7. ASSUME NEW r \in Runs, WithdrawRun(r)
      PROVE  FairQueueInv'
  <2>1. QueuedOf(r) \in SUBSET queued
    BY DEF QueuedOf
  <2> QED
    BY <1>7, <2>1, WithdrawKeeps DEF WithdrawRun, CancelRun
<1>8. CASE Drain
  BY <1>8, DrainKeeps
<1> QED
  BY <1>1, <1>2, <1>3, <1>4, <1>5, <1>6, <1>7, <1>8 DEF Next

(* The inductive invariant, for any tasks, classes and sessions.           *)
THEOREM FairQueueInvariant == Spec => []FairQueueInv
<1> QED
  BY FairQueueInit, FairQueueStep, PTL DEF Spec

(* No count of fair_queue.go ever leaves the naturals, and a list holds    *)
(* tasks only.                                                             *)
THEOREM QueueTypeCorrect == Spec => []TypeOK
<1>1. FairQueueInv => TypeOK
  BY DEF FairQueueInv
<1> QED
  BY <1>1, FairQueueInvariant, PTL

(* A session's count (sessionRunning) is the number of its tool calls in   *)
(* flight, and stays within MaxConcurrentToolsPerSession.                  *)
THEOREM QueueSessionExact == Spec => []SessionExact
<1>1. FairQueueInv => SessionExact
  BY DEF FairQueueInv
<1> QED
  BY <1>1, FairQueueInvariant, PTL

(* The depth counter (q.total) is the number of listed tasks, and stays    *)
(* within the cap.                                                         *)
THEOREM QueueTotalExact == Spec => []TotalExact
<1>1. FairQueueInv => TotalExact
  BY DEF FairQueueInv
<1> QED
  BY <1>1, FairQueueInvariant, PTL

(* Both counters the caps are checked against are exact, whichever way a   *)
(* task leaves the queue.                                                  *)
THEOREM QueueCountsExact == Spec => []CountsExact
<1>1. FairQueueInv => CountsExact
  BY DEF FairQueueInv, CountsExact
<1> QED
  BY <1>1, FairQueueInvariant, PTL

(* Whatever the weights and costs, a ready class is passed by another only *)
(* until that class's virtual time has caught up, plus one task.           *)
THEOREM QueueDelayBounded == Spec => []BoundedDelay
<1>1. FairQueueInv => BoundedDelay
  BY DEF FairQueueInv
<1> QED
  BY <1>1, FairQueueInvariant, PTL
=============================================================================
