----------------------------- MODULE WorkerLocks -----------------------------
(* The two locks of a worker lease (internal/worker): l.mu of the lease and *)
(* s.mu of its slot, and the three goroutines that take them in turn: the   *)
(* automatic heartbeat, one sweep of the maintenance loop, and the caller   *)
(* that releases the lease. WorkerManager takes every section under a lock  *)
(* for one step; here a step is one acquisition, so that the order in which *)
(* the sections nest can be seen.                                           *)
EXTENDS Naturals

CONSTANTS Heartbeat, Sweep, Releaser,  \* the goroutines
          Nobody,
          MaxTicks      \* bound: ticks of the heartbeat and of the sweep

VARIABLES
    pc,         \* of each goroutine
    leaseMu,    \* holder of l.mu
    slotMu,     \* holder of s.mu
    released,   \* l.released
    held,       \* s.lease still is this lease
    stopHB,     \* the channel stopHB is closed
    ticks       \* ticks used by the heartbeat and by the sweep
vars == <<pc, leaseMu, slotMu, released, held, stopHB, ticks>>

LocksInit ==
    /\ pc = [g \in {Heartbeat, Sweep, Releaser} |-> "idle"]
    /\ leaseMu = Nobody /\ slotMu = Nobody
    /\ released = FALSE /\ held = TRUE /\ stopHB = FALSE
    /\ ticks = [g \in {Heartbeat, Sweep} |-> 0]

Goto(g, from, to) == pc[g] = from /\ pc' = [pc EXCEPT ![g] = to]
TakeLease(g) == leaseMu = Nobody /\ leaseMu' = g
TakeSlot(g) == slotMu = Nobody /\ slotMu' = g
Tick(g) == ticks[g] < MaxTicks /\ ticks' = [ticks EXCEPT ![g] = @ + 1]

-----------------------------------------------------------------------------
(* heartbeatLease: s.mu is taken while l.mu is held. *)

HeartbeatTick == /\ Tick(Heartbeat) /\ Goto(Heartbeat, "idle", "lease")
                 /\ UNCHANGED <<leaseMu, slotMu, released, held, stopHB>>
HeartbeatLease ==
    /\ Goto(Heartbeat, "lease", IF released THEN "fail" ELSE "slot")
    /\ TakeLease(Heartbeat)
    /\ UNCHANGED <<slotMu, released, held, stopHB, ticks>>
HeartbeatSlot ==
    /\ Goto(Heartbeat, "slot", "look")
    /\ TakeSlot(Heartbeat)
    /\ UNCHANGED <<leaseMu, released, held, stopHB, ticks>>
HeartbeatLook ==
    /\ Goto(Heartbeat, "look", IF held THEN "renew" ELSE "fail")
    /\ slotMu' = Nobody
    /\ UNCHANGED <<leaseMu, released, held, stopHB, ticks>>
\* The deferred unlock; a heartbeat that failed ends the goroutine.
HeartbeatEnd ==
    /\ \/ Goto(Heartbeat, "renew", "idle")
       \/ Goto(Heartbeat, "fail", "exited")
    /\ leaseMu' = Nobody
    /\ UNCHANGED <<slotMu, released, held, stopHB, ticks>>
HeartbeatStops ==
    /\ stopHB /\ Goto(Heartbeat, "idle", "exited")
    /\ UNCHANGED <<leaseMu, slotMu, released, held, stopHB, ticks>>

-----------------------------------------------------------------------------
(* sweepSlot and SlotInfos: l.mu is taken while s.mu is held. *)

SweepTick == /\ Tick(Sweep) /\ Goto(Sweep, "idle", "slot")
             /\ UNCHANGED <<leaseMu, slotMu, released, held, stopHB>>
SweepSlot ==
    /\ Goto(Sweep, "slot", IF held THEN "lease" ELSE "unlock")
    /\ TakeSlot(Sweep)
    /\ UNCHANGED <<leaseMu, released, held, stopHB, ticks>>
SweepLease ==
    /\ Goto(Sweep, "lease", "seen")
    /\ TakeLease(Sweep)
    /\ UNCHANGED <<slotMu, released, held, stopHB, ticks>>
SweepSeen ==
    /\ Goto(Sweep, "seen", "unlock")
    /\ leaseMu' = Nobody
    /\ UNCHANGED <<slotMu, released, held, stopHB, ticks>>
SweepUnlock ==
    /\ Goto(Sweep, "unlock", "idle")
    /\ slotMu' = Nobody
    /\ UNCHANGED <<leaseMu, released, held, stopHB, ticks>>

-----------------------------------------------------------------------------
(* Release: mark, stop the heartbeat and wait for it, free the slot. *)

ReleaseCalled ==
    /\ Goto(Releaser, "idle", "mark")
    /\ UNCHANGED <<leaseMu, slotMu, released, held, stopHB, ticks>>
ReleaseMark ==
    /\ Goto(Releaser, "mark", "marked")
    /\ leaseMu = Nobody
    /\ released' = TRUE /\ stopHB' = TRUE
    /\ UNCHANGED <<leaseMu, slotMu, held, ticks>>
ReleaseFree ==
    /\ Goto(Releaser, "marked", "returned")
    /\ pc[Heartbeat] = "exited" /\ slotMu = Nobody
    /\ held' = FALSE
    /\ UNCHANGED <<leaseMu, slotMu, released, stopHB, ticks>>

-----------------------------------------------------------------------------
HeartbeatStep == HeartbeatTick \/ HeartbeatLease \/ HeartbeatSlot
                 \/ HeartbeatLook \/ HeartbeatEnd \/ HeartbeatStops
SweepStep == SweepTick \/ SweepSlot \/ SweepLease \/ SweepSeen \/ SweepUnlock
ReleaseStep == ReleaseCalled \/ ReleaseMark \/ ReleaseFree
Next == HeartbeatStep \/ SweepStep \/ ReleaseStep

\* A mutex that is free often enough is had (Go's mutexes do not starve).
FairSpec == /\ LocksInit /\ [][Next]_vars
            /\ SF_vars(HeartbeatStep) /\ SF_vars(SweepStep)
            /\ SF_vars(ReleaseStep)

\* "hbWG makes sure that the heartbeat goroutine has ended when Release
\* returns; every goroutine has a way out" (lease.go): once Release is
\* called the heartbeat ends.
HeartbeatEnds == pc[Releaser] = "mark" ~> pc[Heartbeat] = "exited"
=============================================================================
