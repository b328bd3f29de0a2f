-------------------------- MODULE WorkerProperties --------------------------
(* What the worker manager promises its callers. *)
EXTENDS WorkerManager, FiniteSets

States == {"cold", "starting", "ready", "restarting", "draining",
           "circuit_open", "stopped"}

\* Types of the manager's state.
TypeOK ==
    /\ \A s \in Slots :
        /\ slot[s].state \in States /\ slot[s].lease \in Callers \cup {None}
        /\ slot[s].worker \in 0..starts[s] /\ slot[s].inflight \in Nat
        /\ slot[s].pending \in Seq(Callers)
        /\ circuit[s].state \in {"closed", "open", "half"}
        /\ circuit[s].probes \in 0..MaxProbes
    /\ up \subseteq Slots \X Starts
    /\ \A c \in Callers : lease[c].slot \in Slots \cup {None}

\* A lease that is neither expired nor released is the slot's own, so two
\* callers never hold one worker: a slot is reserved before it is leased and
\* a lease is ended before the slot is freed.
Holding(c) == /\ act[c].pc \in {"allow", "dispatch", "queued", "run", "exit",
                                "release"}
              /\ ~lease[c].expired /\ ~lease[c].released
LeaseExclusive == \A c \in Callers :
    Holding(c) => slot[lease[c].slot].lease = c

\* One worker serves one call at a time (dispatch), also while the call of an
\* evicted caller is still running.
OneCallPerWorker == \A a, b \in Actors :
    act[a].pc = "run" /\ act[b].pc = "run" /\ SlotOf(a) = SlotOf(b) => a = b

\* A call is handed to a worker at most once: only calls that never ran go
\* back into the queue after a crash (retryableCall, invariant I5).
RunsOnce == \A c \in Callers : runs[c] <= 1

\* A caller that waits in Acquire gets a slot or is refused, without giving
\* up: no broadcast goes past a waiter between its scan and its wait, and
\* every way a slot becomes free or ready again is announced. Whoever holds a
\* slot gives it back, if need be because the deadline of its call has come;
\* that Release itself returns is WorkerLocks' subject.
WaitersServed == \A c \in Callers :
    act[c].pc = "scan" ~> act[c].pc \in {"attach", "done"}

\* A queued call leaves the queue without its own deadline: it waits until the
\* worker is free (dispatch). But only a start runs resumeQueued.
QueuedIsResumed == \A c \in Callers :
    act[c].pc = "queued" ~> act[c].pc # "queued"

\* A reservation belongs to an Acquire under way.
ReservationHeld == \A s \in Slots : slot[s].reserved =>
    \E c \in Callers : act[c].pc = "attach" /\ lease[c].slot = s

\* After Stop no worker lives (TestManagerStopIsClean; "no orphan processes").
StopLeavesNone == stop.pc = "returned" => up = {}

\* A live worker is the slot's, or somebody is about to stop it.
NoOrphan == \A p \in up :
    \/ slot[p[1]].worker = p[2]
    \/ \E o \in Owners : exit[o].pc \in {"kill", "cleanup", "revoke", "evict"}
                         /\ exit[o].slot = p[1] /\ exit[o].old = p[2]

\* The probes of a half-open breaker are calls in flight.
ProbesInFlight == \A s \in Slots : circuit[s].state = "half" =>
    circuit[s].probes <= Cardinality({a \in Actors :
        act[a].pc \in {"dispatch", "queued", "run"} /\ act[a].call # None
        /\ SlotOf(a) = s})

\* A call that its caller has cancelled is not brought back by a restart.
NotRevived == \A c \in Callers, s \in Slots :
    c \in Range(slot[s].pending) => act[c].pc = "queued" \/
       \E r \in Resumers : act[r].call = c /\ act[r].pc = "queued"
=============================================================================
