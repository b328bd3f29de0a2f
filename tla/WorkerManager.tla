---------------------------- MODULE WorkerManager ----------------------------
(* The worker manager (internal/worker): pools of external workers, leased *)
(* to one caller at a time, watched by one maintenance loop, restarted     *)
(* after a crash behind a circuit breaker, and stopped with the program.   *)
(*                                                                         *)
(* Every caller makes one Manager.Execute: Acquire, a call under the       *)
(* lease, Release. One step is one section under a lock; a broadcast that  *)
(* follows a section on the same path is part of it. Time is free: a lease *)
(* may be found expired at any sweep (heartbeats only postpone it), a      *)
(* cool-down may end at any step, and a sweep that finds a back-off still  *)
(* running is no step.                                                     *)
EXTENDS Integers, Sequences, SequencesExt

CONSTANTS
    Callers,            \* calls of Manager.Execute, one each
    Retryable,          \* those whose action is in idempotentActions
    Slots,              \* the slots of one pool
    Sweeper,            \* the maintenance loop
    None,
    QueueSize, MaxAttempts, FailuresToCircuit,           \* ManagerConfig
    FailureThreshold, SuccessThreshold, MaxProbes,       \* CircuitConfig
    MaxFaults,          \* bound: crashes, failed starts and recycles
    MaxStarts           \* bound: successful starts of a slot

ASSUME WorkerAssumption ==
    /\ Retryable \subseteq Callers
    /\ None \notin Callers \cup Slots
    /\ Callers \cap (Slots \X Nat) = {}
    /\ Sweeper \notin Callers \cup (Slots \X Nat)
    /\ MaxFaults \in Nat /\ MaxStarts \in Nat
    /\ {QueueSize, MaxAttempts, FailuresToCircuit, FailureThreshold,
        SuccessThreshold, MaxProbes} \subseteq Nat \ {0}

Starts == 1..MaxStarts
Resumers == Slots \X Starts       \* the goroutine that a start spawns
Actors == Callers \cup Resumers   \* whoever may dispatch a call
Owners == Actors \cup {Sweeper}   \* whoever may handle a worker's exit

VARIABLES
    slot,       \* slot: worker (its start, 0 for nil), state, lease, ...
    circuit,    \* the breaker of each slot
    lease,      \* the lease of each caller, and the slot it names
    call,       \* the pendingCall of each caller: context, done, attempt
    act,        \* actor: program counter, the call it dispatches, the worker
    woken,      \* caller: the channel it waits on has been closed
    exit,       \* owner: its progress through recycleSlot, handleWorkerExit
    sweep,      \* the maintenance loop
    stop,       \* Manager.Stop
    up,         \* worker processes that live, as <<slot, start>>
    starts,     \* number of successful starts of each slot
    faults,
    runs        \* history: how often a worker was handed the call
vars == <<slot, circuit, lease, call, act, woken, exit, sweep, stop, up,
          starts, faults, runs>>

NoExit == [pc |-> "none", slot |-> None, old |-> 0, lease |-> None,
           pending |-> <<>>, open |-> FALSE]

WorkerInit ==
    /\ slot = [s \in Slots |->
                 [worker |-> 0, state |-> "cold", lease |-> None,
                  reserved |-> FALSE, retired |-> FALSE, inflight |-> 0,
                  pending |-> <<>>, failures |-> 0]]
    /\ circuit = [s \in Slots |-> [state |-> "closed", failures |-> 0,
                                   success |-> 0, probes |-> 0]]
    /\ lease = [c \in Callers |-> [slot |-> None, expired |-> FALSE,
                                   released |-> FALSE]]
    /\ call = [c \in Callers |-> [live |-> TRUE, done |-> FALSE, attempt |-> 1]]
    /\ act = [a \in Actors |-> [pc |-> IF a \in Callers THEN "idle" ELSE "off",
                                call |-> IF a \in Callers THEN a ELSE None,
                                on |-> 0, left |-> {}, serving |-> FALSE]]
    /\ woken = [c \in Callers |-> FALSE]
    /\ exit = [o \in Owners |-> NoExit]
    /\ sweep = [pc |-> "idle", slot |-> None]
    /\ stop = [pc |-> "none", left |-> {}]
    /\ up = {}
    /\ starts = [s \in Slots |-> 0]
    /\ faults = 0
    /\ runs = [c \in Callers |-> 0]

-----------------------------------------------------------------------------
Ready(s) == slot[s].state = "ready" /\ slot[s].worker # 0
Closed == stop.pc # "none"
SlotOf(a) == lease[act[a].call].slot
Fault == faults < MaxFaults /\ faults' = faults + 1

\* broadcastSlotFreed closes the channel every waiter has registered for.
Broadcast ==
    woken' = [c \in Callers |-> act[c].pc \in {"scan", "wait"} \/ woken[c]]
Goto(a, pc) == act' = [act EXCEPT ![a] =
    [@ EXCEPT !.pc = pc, !.on = 0, !.left = {}, !.serving = FALSE]]

\* A call under the lease can be cancelled from Execute's second check on.
Executing(c) == act[c].pc \in {"dispatch", "queued", "run", "exit"}
\* lease.expired and cancelExec, taken under the lease's lock.
Expire(c) == /\ lease' = [lease EXCEPT ![c].expired = TRUE]
             /\ call' = IF Executing(c) THEN [call EXCEPT ![c].live = FALSE]
                        ELSE call

-----------------------------------------------------------------------------
(* Acquire: a slot is reserved under its lock, the lease attached later. *)

\* The wait signal is taken before the slots are scanned; a waiter that is
\* woken starts over.
Acquire(c) ==
    /\ \/ act[c].pc = "idle"
       \/ act[c].pc = "wait" /\ woken[c]
    /\ woken' = [woken EXCEPT ![c] = FALSE]
    /\ act' = IF act[c].pc = "idle" /\ Closed
              THEN [act EXCEPT ![c].pc = "done"]
              ELSE [act EXCEPT ![c].pc = "scan", ![c].left = Slots]
    /\ UNCHANGED <<slot, circuit, lease, call, exit, sweep, stop, up, starts,
                   faults, runs>>

Usable(s) == /\ ~slot[s].retired /\ ~slot[s].reserved
             /\ Ready(s) /\ slot[s].lease = None

\* An usable slot is reserved.
TakeSlot(c, s) ==
    /\ act[c].pc = "scan" /\ s \in act[c].left /\ Usable(s)
    /\ slot' = [slot EXCEPT ![s].reserved = TRUE]
    /\ lease' = [lease EXCEPT ![c].slot = s]
    /\ woken' = [woken EXCEPT ![c] = FALSE]
    /\ Goto(c, "attach")
    /\ UNCHANGED <<circuit, call, exit, sweep, stop, up, starts,
                   faults, runs>>

\* Past the last one the caller waits, or fails if all are retired.
PassSlot(c, s) ==
    /\ act[c].pc = "scan" /\ s \in act[c].left /\ ~Usable(s)
    /\ LET serving == act[c].serving \/ ~slot[s].retired
       IN act' = [act EXCEPT
            ![c].left = @ \ {s}, ![c].serving = serving,
            ![c].pc = IF act[c].left # {s} THEN "scan"
                      ELSE IF serving THEN "wait" ELSE "done"]
    /\ UNCHANGED <<slot, circuit, lease, call, woken, exit, sweep, stop, up,
                   starts, faults, runs>>

\* The caller's context, the 30 s of pickSlot, or stopCh.
GiveUp(c) ==
    /\ act[c].pc = "wait"
    /\ Goto(c, "done")
    /\ woken' = [woken EXCEPT ![c] = FALSE]
    /\ UNCHANGED <<slot, circuit, lease, call, exit, sweep, stop, up,
                   starts, faults, runs>>

Attach(c) ==
    LET s == lease[c].slot IN
    /\ act[c].pc = "attach"
    /\ \/ /\ Ready(s)
          /\ slot' = [slot EXCEPT ![s].reserved = FALSE, ![s].lease = c]
          /\ Goto(c, "allow")
          /\ UNCHANGED woken
       \/ /\ ~Ready(s)
          /\ slot' = [slot EXCEPT ![s].reserved = FALSE]
          /\ Broadcast
          /\ Goto(c, "done")
    /\ UNCHANGED <<circuit, lease, call, exit, sweep, stop, up, starts,
                   faults, runs>>

-----------------------------------------------------------------------------
(* Execute under the lease. *)

\* Heartbeat, the second check that installs cancelExec, and the breaker.
Allow(c) ==
    LET s == lease[c].slot
        lost == lease[c].expired \/ slot[s].lease # c
        probe == circuit[s].state = "half" /\ circuit[s].probes < MaxProbes
    IN
    /\ act[c].pc = "allow"
    /\ \/ /\ ~lost /\ circuit[s].state = "closed"
          /\ Goto(c, "dispatch")
          /\ UNCHANGED circuit
       \/ /\ ~lost /\ probe
          /\ circuit' = [circuit EXCEPT ![s].probes = @ + 1]
          /\ Goto(c, "dispatch")
       \/ /\ lost \/ (circuit[s].state # "closed" /\ ~probe)
          /\ Goto(c, "release")
          /\ UNCHANGED circuit
    /\ UNCHANGED <<slot, lease, call, woken, exit, sweep, stop, up, starts,
                   faults, runs>>

\* dispatch is over for the actor: a caller gives its lease back, a resumer
\* hands the answer to the caller that waits in the queue.
Over(a) ==
    IF a \in Callers THEN Goto(a, "release") /\ UNCHANGED call
    ELSE Goto(a, "next") /\ call' = [call EXCEPT ![act[a].call].done = TRUE]

Refuse(a) ==
    LET s == SlotOf(a) IN
    /\ act[a].pc = "dispatch"
    /\ \/ ~Ready(s)
       \/ slot[s].inflight > 0 /\ Len(slot[s].pending) >= QueueSize
    /\ Over(a)
    /\ UNCHANGED <<slot, circuit, lease, woken, exit, sweep, stop, up, starts,
                   faults, runs>>

JoinQueue(a) ==
    LET s == SlotOf(a) IN
    /\ act[a].pc = "dispatch" /\ Ready(s) /\ slot[s].inflight > 0
    /\ Len(slot[s].pending) < QueueSize
    /\ slot' = [slot EXCEPT ![s].pending = Append(@, act[a].call)]
    /\ Goto(a, "queued")
    /\ UNCHANGED <<circuit, lease, call, woken, exit, sweep, stop, up, starts,
                   faults, runs>>

\* Mutant: a worker that is busy is given another call.
Run_Busy(a) ==
    LET s == SlotOf(a) IN
    /\ act[a].pc = "dispatch" /\ Ready(s)
    /\ slot' = [slot EXCEPT ![s].inflight = @ + 1]
    /\ act' = [act EXCEPT ![a].pc = "run", ![a].on = slot[s].worker]
    /\ runs' = [runs EXCEPT ![act[a].call] = @ + 1]
    /\ UNCHANGED <<circuit, lease, call, woken, exit, sweep, stop, up, starts,
                   faults>>

Run(a) ==
    LET s == SlotOf(a) IN
    /\ act[a].pc = "dispatch" /\ Ready(s) /\ slot[s].inflight = 0
    /\ slot' = [slot EXCEPT ![s].inflight = @ + 1]
    /\ act' = [act EXCEPT ![a].pc = "run", ![a].on = slot[s].worker]
    /\ runs' = [runs EXCEPT ![act[a].call] = @ + 1]
    /\ UNCHANGED <<circuit, lease, call, woken, exit, sweep, stop, up, starts,
                   faults>>

Answered(a) ==
    /\ act[a].pc = "queued" /\ call[act[a].call].done
    /\ Over(a)
    /\ UNCHANGED <<slot, circuit, lease, woken, exit, sweep, stop, up, starts,
                   faults, runs>>

LeaveQueue(a) ==
    LET s == SlotOf(a) IN
    /\ act[a].pc = "queued" /\ ~call[act[a].call].live
    /\ slot' = [slot EXCEPT ![s].pending = RemoveFirst(@, act[a].call)]
    /\ Over(a)
    /\ UNCHANGED <<circuit, lease, woken, exit, sweep, stop, up, starts,
                   faults, runs>>

\* The context of a call ends: every tool call has a deadline.
Deadline(c) ==
    /\ act[c].pc \in {"queued", "run"} /\ call[c].live
    /\ call' = [call EXCEPT ![c].live = FALSE]
    /\ UNCHANGED <<slot, circuit, lease, act, woken, exit, sweep, stop, up,
                   starts, faults, runs>>

-----------------------------------------------------------------------------
(* The answer of a worker, and what the breaker makes of it. *)

OpenCircuit(s) == circuit' = [circuit EXCEPT
    ![s].state = "open", ![s].success = 0, ![s].probes = 0]
CloseCircuit(s) == circuit' = [circuit EXCEPT
    ![s] = [state |-> "closed", failures |-> 0, success |-> 0, probes |-> 0]]
GiveBack(n) == IF n = 0 THEN 0 ELSE n - 1

RecordSuccess(s) ==
    \/ circuit[s].state = "open" /\ UNCHANGED circuit
    \/ circuit[s].state = "closed" /\ CloseCircuit(s)
    \/ /\ circuit[s].state = "half"
       /\ IF circuit[s].success + 1 >= SuccessThreshold THEN CloseCircuit(s)
          ELSE circuit' = [circuit EXCEPT ![s].success = @ + 1,
                                          ![s].probes = GiveBack(@)]

RecordFailure(s) ==
    \/ circuit[s].state = "open" /\ UNCHANGED circuit
    \/ circuit[s].state = "half" /\ OpenCircuit(s)
    \/ /\ circuit[s].state = "closed"
       /\ IF circuit[s].failures + 1 >= FailureThreshold
          THEN circuit' = [circuit EXCEPT ![s].failures = @ + 1,
                                          ![s].state = "open"]
          ELSE circuit' = [circuit EXCEPT ![s].failures = @ + 1]

\* An answer that is neither a success, a time-out nor a crash (a failed or a
\* cancelled call) is not recorded.
Answer(a, result) ==
    LET s == SlotOf(a) IN
    /\ act[a].pc = "run"
    /\ \/ result = "ok" /\ <<s, act[a].on>> \in up /\ RecordSuccess(s)
       \/ result = "timeout" /\ RecordFailure(s)
       \/ result = "error" /\ UNCHANGED circuit
    /\ slot' = [slot EXCEPT ![s].inflight = GiveBack(@)]
    /\ Over(a)
    /\ UNCHANGED <<lease, woken, exit, sweep, stop, up, starts, faults, runs>>

\* The caller of a worker that crashed handles its exit before it goes on.
Crashed(a) ==
    LET s == SlotOf(a) IN
    /\ act[a].pc = "run" /\ Fault
    /\ RecordFailure(s)
    /\ exit' = [exit EXCEPT ![a].pc = "take", ![a].slot = s]
    /\ Goto(a, "exit")
    /\ UNCHANGED <<slot, lease, call, woken, sweep, stop, up, starts, runs>>

Leave(a) ==
    /\ act[a].pc = "exit" /\ exit[a].pc = "none"
    /\ slot' = [slot EXCEPT ![SlotOf(a)].inflight = GiveBack(@)]
    /\ Over(a)
    /\ UNCHANGED <<circuit, lease, woken, exit, sweep, stop, up, starts,
                   faults, runs>>

\* Mutant: whoever holds it by now.
FreeSlot_Any(c) == slot' = [slot EXCEPT ![lease[c].slot].lease = None]

\* Release, then releaseLease: only the holder frees the slot.
FreeSlot(c) ==
    LET s == lease[c].slot IN
    slot' = IF slot[s].lease = c THEN [slot EXCEPT ![s].lease = None] ELSE slot

Release(c) ==
    /\ act[c].pc = "release"
    /\ lease' = [lease EXCEPT ![c].released = TRUE]
    /\ FreeSlot(c)
    /\ Broadcast
    /\ Goto(c, "done")
    /\ UNCHANGED <<circuit, call, exit, sweep, stop, up, starts, faults, runs>>

-----------------------------------------------------------------------------
(* resumeQueued: spawned by a start, until the queue is empty. *)

\* Mutant: the call stays in the queue.
ResumeNext_Keeps(r) ==
    LET s == r[1] IN
    /\ act[r].pc = "next" /\ Ready(s) /\ slot[s].pending # <<>>
    /\ act' = [act EXCEPT ![r].pc = "dispatch",
                          ![r].call = Head(slot[s].pending)]
    /\ UNCHANGED <<slot, circuit, lease, call, woken, exit, sweep, stop, up,
                   starts, faults, runs>>

ResumeNext(r) ==
    LET s == r[1] IN
    /\ act[r].pc = "next"
    /\ \/ /\ Ready(s) /\ slot[s].pending # <<>>
          /\ slot' = [slot EXCEPT ![s].pending = Tail(@)]
          /\ act' = [act EXCEPT ![r].pc = "dispatch",
                                ![r].call = Head(slot[s].pending)]
       \/ /\ ~Ready(s) \/ slot[s].pending = <<>>
          /\ act' = [act EXCEPT ![r].pc = "off", ![r].call = None]
          /\ UNCHANGED slot
    /\ UNCHANGED <<circuit, lease, call, woken, exit, sweep, stop, up, starts,
                   faults, runs>>

-----------------------------------------------------------------------------
(* handleWorkerExit, run by whoever saw the crash; recycleSlot before it. *)

\* recycleSlot looks at the slot again: the lease it takes need not be the
\* one that had expired.
RecycleTake ==
    LET s == sweep.slot IN
    /\ sweep.pc = "recycle"
    /\ sweep' = [sweep EXCEPT !.pc = "idle"]
    /\ exit' = IF slot[s].state = "stopped" THEN exit
               ELSE [exit EXCEPT ![Sweeper] =
                   [@ EXCEPT !.pc = "evict", !.slot = s, !.old = slot[s].worker,
                             !.lease = slot[s].lease]]
    /\ UNCHANGED <<slot, circuit, lease, call, act, woken, stop, up, starts,
                   faults, runs>>

\* The exit is taken up unless the slot is stopped or retired already.
ExitTake(o) ==
    LET s == exit[o].slot
        failures == slot[s].failures + 1
    IN
    /\ exit[o].pc = "take"
    /\ IF slot[s].state = "stopped" \/ slot[s].retired
       THEN /\ exit' = [exit EXCEPT ![o] = NoExit]
            /\ UNCHANGED slot
       ELSE /\ slot' = [slot EXCEPT ![s].worker = 0, ![s].state = "restarting",
                                    ![s].failures = failures,
                                    ![s].pending = <<>>]
            /\ exit' = [exit EXCEPT ![o] =
                   [pc |-> "revoke", slot |-> s, old |-> slot[s].worker,
                    lease |-> slot[s].lease, pending |-> slot[s].pending,
                    open |-> failures >= FailuresToCircuit]]
    /\ UNCHANGED <<circuit, lease, call, act, woken, sweep, stop, up, starts,
                   faults, runs>>

\* The lease it saw is expired and freed, the call under it cancelled.
Revoke(o) ==
    /\ exit[o].pc \in {"evict", "revoke"}
    /\ IF exit[o].lease = None THEN UNCHANGED <<lease, call, slot, woken>>
       ELSE Expire(exit[o].lease) /\ FreeSlot(exit[o].lease) /\ Broadcast
    /\ exit' = [exit EXCEPT ![o].pc =
                  IF @ = "evict" THEN "kill" ELSE "cleanup"]
    /\ UNCHANGED <<circuit, act, sweep, stop, up, starts, faults, runs>>

\* cleanupProcessTree and stopWorkerQuietly on the worker it saw.
Cleanup(o) ==
    /\ exit[o].pc \in {"kill", "cleanup"}
    /\ up' = up \ {<<exit[o].slot, exit[o].old>>}
    /\ exit' = [exit EXCEPT ![o].pc = IF @ = "kill" THEN "take" ELSE "requeue"]
    /\ UNCHANGED <<slot, circuit, lease, call, act, woken, sweep, stop, starts,
                   faults, runs>>

\* The calls that waited, one by one: back into the queue, or failed.
Requeue(o) ==
    LET s == exit[o].slot
        c == Head(exit[o].pending)
        again == c \in Retryable /\ call[c].attempt + 1 < MaxAttempts
    IN
    /\ exit[o].pc = "requeue" /\ exit[o].pending # <<>>
    /\ exit' = [exit EXCEPT ![o].pending = Tail(@)]
    /\ IF again /\ Len(slot[s].pending) < QueueSize
       THEN /\ slot' = [slot EXCEPT ![s].pending = Append(@, c)]
            /\ call' = [call EXCEPT ![c].attempt = @ + 1]
       ELSE /\ call' = [call EXCEPT ![c].done = TRUE]
            /\ UNCHANGED slot
    /\ UNCHANGED <<circuit, lease, act, woken, sweep, stop, up, starts, faults,
                   runs>>

ForceOpen(s) == circuit' = [circuit EXCEPT
    ![s] = [state |-> "open", failures |-> FailureThreshold, success |-> 0,
            probes |-> 0]]
Retire(s) == slot' = [slot EXCEPT ![s].retired = TRUE,
                                  ![s].state = "circuit_open"]
\* Too many failures in the window: the slot is retired, then the breaker
\* opened; otherwise the sweep restarts it.
ExitEnd(o) ==
    LET s == exit[o].slot IN
    /\ \/ /\ exit[o].pc = "requeue" /\ exit[o].pending = <<>>
          /\ IF exit[o].open
             THEN Retire(s) /\ exit' = [exit EXCEPT ![o].pc = "force"]
             ELSE exit' = [exit EXCEPT ![o] = NoExit] /\ UNCHANGED slot
          /\ UNCHANGED circuit
       \/ /\ exit[o].pc = "force"
          /\ exit' = [exit EXCEPT ![o] = NoExit]
          /\ ForceOpen(s)
          /\ UNCHANGED slot
    /\ UNCHANGED <<lease, call, act, woken, sweep, stop, up, starts, faults,
                   runs>>

-----------------------------------------------------------------------------
(* The maintenance loop: sweepSlot in three sections, startSlot inside. *)

\* The exit of a worker that the loop itself found dead holds it up. A round
\* may begin after stopCh was closed: select takes whichever is ready.
SweepIdle == sweep.pc = "idle" /\ exit[Sweeper].pc = "none"

LoopEnds ==
    /\ SweepIdle /\ Closed
    /\ sweep' = [sweep EXCEPT !.pc = "ended"]
    /\ UNCHANGED <<slot, circuit, lease, call, act, woken, exit, stop, up,
                   starts, faults, runs>>

\* The lease has expired, or the worker asks to be recycled.
SweepExpired(s) ==
    /\ SweepIdle
    /\ \/ slot[s].lease # None /\ ~lease[slot[s].lease].released
       \/ Ready(s)
    /\ Fault
    /\ sweep' = [pc |-> "recycle", slot |-> s]
    /\ UNCHANGED <<slot, circuit, lease, call, act, woken, exit, stop, up,
                   starts, runs>>

\* A retired slot is given another chance once its breaker has cooled down.
SweepLook(s) ==
    LET cooled == slot[s].state = "circuit_open" /\ circuit[s].state # "open"
        start == IF slot[s].state = "circuit_open" THEN cooled
                 ELSE \/ slot[s].worker = 0
                      \/ slot[s].state \in {"cold", "restarting"}
    IN
    /\ SweepIdle /\ (start \/ Ready(s))
    /\ sweep' = [pc |-> IF start THEN "start" ELSE "health", slot |-> s]
    /\ slot' = IF cooled
               THEN [slot EXCEPT ![s].state = "restarting",
                                 ![s].retired = FALSE, ![s].failures = 0]
               ELSE slot
    /\ UNCHANGED <<circuit, lease, call, act, woken, exit, stop, up, starts,
                   faults, runs>>

StartSlot ==
    /\ sweep.pc = "start"
    /\ slot' = [slot EXCEPT ![sweep.slot].state = "starting"]
    /\ sweep' = [sweep EXCEPT !.pc = "boot"]
    /\ UNCHANGED <<circuit, lease, call, act, woken, exit, stop, up, starts,
                   faults, runs>>

\* The worker is up and healthy.
Started ==
    LET s == sweep.slot
        n == starts[s] + 1
    IN
    /\ sweep.pc = "boot" /\ n \in Starts
    /\ starts' = [starts EXCEPT ![s] = n]
    /\ up' = up \cup {<<s, n>>}
    /\ slot' = [slot EXCEPT ![s].worker = n, ![s].state = "ready",
                            ![s].retired = FALSE, ![s].failures = 0]
    /\ sweep' = [sweep EXCEPT !.pc = "reset"]
    /\ UNCHANGED <<circuit, lease, call, act, woken, exit, stop, faults, runs>>

\* Mutant: nobody is told of the new worker.
Announce_Silent ==
    LET s == sweep.slot IN
    /\ sweep.pc = "reset"
    /\ IF circuit[s].state = "closed" THEN UNCHANGED circuit
       ELSE CloseCircuit(s)
    /\ act' = [act EXCEPT ![<<s, starts[s]>>].pc = "next"]
    /\ sweep' = [sweep EXCEPT !.pc = "idle"]
    /\ UNCHANGED <<slot, lease, call, woken, exit, stop, up, starts, faults,
                   runs>>

\* The breaker is reset, the queue resumed, the waiting callers woken.
Announce ==
    LET s == sweep.slot IN
    /\ sweep.pc = "reset"
    /\ IF circuit[s].state = "closed" THEN UNCHANGED circuit
       ELSE CloseCircuit(s)
    /\ act' = [act EXCEPT ![<<s, starts[s]>>].pc = "next"]
    /\ Broadcast
    /\ sweep' = [sweep EXCEPT !.pc = "idle"]
    /\ UNCHANGED <<slot, lease, call, exit, stop, up, starts, faults, runs>>

\* handleStartFailure.
StartFails ==
    LET s == sweep.slot
        failures == slot[s].failures + 1
    IN
    /\ sweep.pc = "boot" /\ Fault
    /\ IF failures >= FailuresToCircuit
       THEN /\ ForceOpen(s)
            /\ slot' = [slot EXCEPT ![s].failures = failures,
                                    ![s].retired = TRUE,
                                    ![s].state = "circuit_open"]
       ELSE /\ slot' = [slot EXCEPT ![s].failures = failures,
                                    ![s].state = "restarting"]
            /\ UNCHANGED circuit
    /\ sweep' = [sweep EXCEPT !.pc = "idle"]
    /\ UNCHANGED <<lease, call, act, woken, exit, stop, up, starts, runs>>

\* A health check fails when the process is gone; what it saw is not
\* compared with the slot when the exit is handled.
SweepHealth ==
    LET s == sweep.slot IN
    /\ sweep.pc = "health"
    /\ sweep' = [sweep EXCEPT !.pc = "idle"]
    /\ exit' = IF Ready(s) /\ <<s, slot[s].worker>> \notin up
               THEN [exit EXCEPT ![Sweeper].pc = "take", ![Sweeper].slot = s]
               ELSE exit
    /\ UNCHANGED <<slot, circuit, lease, call, act, woken, stop, up, starts,
                   faults, runs>>

-----------------------------------------------------------------------------
(* The world: a worker's process dies, a cool-down ends. *)

ProcessDies(p) ==
    /\ p \in up /\ Fault
    /\ up' = up \ {p}
    /\ UNCHANGED <<slot, circuit, lease, call, act, woken, exit, sweep, stop,
                   starts, runs>>

CoolDown(s) ==
    /\ circuit[s].state = "open"
    /\ circuit' = [circuit EXCEPT ![s].state = "half", ![s].success = 0,
                                  ![s].probes = 0]
    /\ UNCHANGED <<slot, lease, call, act, woken, exit, sweep, stop, up,
                   starts, faults, runs>>

-----------------------------------------------------------------------------
(* Stop: drain, then stop every worker; it returns when the loop has ended. *)

StopBegin ==
    /\ stop.pc = "none"
    /\ stop' = [pc |-> "draining", left |-> Slots]
    /\ UNCHANGED <<slot, circuit, lease, call, act, woken, exit, sweep, up,
                   starts, faults, runs>>

StopDrain(s) ==
    /\ stop.pc = "draining" /\ s \in stop.left
    /\ slot' = [slot EXCEPT ![s].state = "draining"]
    /\ IF slot[s].lease = None THEN UNCHANGED <<lease, call>>
       ELSE Expire(slot[s].lease)
    /\ stop' = IF stop.left = {s} THEN [pc |-> "stopping", left |-> Slots]
               ELSE [stop EXCEPT !.left = @ \ {s}]
    /\ UNCHANGED <<circuit, act, woken, exit, sweep, up, starts, faults, runs>>

\* The calls in flight have ended, or the drain time has.
StopSlot(s) ==
    /\ stop.pc = "stopping" /\ s \in stop.left
    /\ slot' = [slot EXCEPT ![s].worker = 0, ![s].state = "stopped",
                            ![s].pending = <<>>]
    /\ call' = [c \in Callers |-> IF c \in Range(slot[s].pending)
                   THEN [call[c] EXCEPT !.done = TRUE] ELSE call[c]]
    /\ up' = up \ {<<s, slot[s].worker>>}
    /\ stop' = IF stop.left = {s} THEN [pc |-> "waiting", left |-> {}]
               ELSE [stop EXCEPT !.left = @ \ {s}]
    /\ UNCHANGED <<circuit, lease, act, woken, exit, sweep, starts, faults,
                   runs>>

StopReturns ==
    /\ stop.pc = "waiting" /\ sweep.pc = "ended"
    /\ stop' = [stop EXCEPT !.pc = "returned"]
    /\ UNCHANGED <<slot, circuit, lease, call, act, woken, exit, sweep, up,
                   starts, faults, runs>>

-----------------------------------------------------------------------------
CallerStep(c) ==
    \/ Acquire(c) \/ Attach(c) \/ Allow(c) \/ Release(c)
    \/ \E s \in Slots : TakeSlot(c, s) \/ PassSlot(c, s)
DispatchStep(a) ==
    \/ Refuse(a) \/ JoinQueue(a) \/ Run(a) \/ Answered(a) \/ LeaveQueue(a)
    \/ Leave(a)
AnswerStep(a) ==
    \/ \E result \in {"ok", "error", "timeout"} : Answer(a, result)
    \/ Crashed(a)
ExitStep(o) == ExitTake(o) \/ Revoke(o) \/ Cleanup(o) \/ Requeue(o)
               \/ ExitEnd(o)
SweepStep ==
    \/ \E s \in Slots : SweepLook(s)
    \/ RecycleTake \/ StartSlot \/ Started \/ Announce
    \/ SweepHealth
StopStep == \/ \E s \in Slots : StopDrain(s) \/ StopSlot(s)
            \/ StopReturns

\* While nobody stops the program, and all of it.
RunningNext ==
    \/ \E c \in Callers : CallerStep(c) \/ GiveUp(c) \/ Deadline(c)
    \/ \E a \in Actors : DispatchStep(a) \/ AnswerStep(a)
    \/ \E r \in Resumers : ResumeNext(r)
    \/ \E o \in Owners : ExitStep(o)
    \/ SweepStep \/ StartFails
    \/ \E s \in Slots : SweepExpired(s) \/ CoolDown(s)
    \/ \E p \in up : ProcessDies(p)
Next == RunningNext \/ StopBegin \/ StopStep \/ LoopEnds

Spec == WorkerInit /\ [][Next]_vars
RunningSpec == WorkerInit /\ [][RunningNext]_vars

ActorStep(a) ==
    \/ a \in Callers /\ CallerStep(a)
    \/ a \in Resumers /\ ResumeNext(a)
    \/ DispatchStep(a) \/ AnswerStep(a) \/ ExitStep(a)

\* Goroutines go on, a worker answers or its call times out, the maintenance
\* loop ticks and a cool-down ends; nobody has to give up waiting, to fail or
\* to stop, nor to reach the deadline of its call. One condition for all the goroutines that resume queued calls is
\* weaker than one for each, and enough.
Fairness ==
    /\ \A c \in Callers : WF_vars(ActorStep(c))
    /\ WF_vars(\E r \in Resumers : ActorStep(r))
    /\ WF_vars(\E s \in Slots : CoolDown(s))
    /\ WF_vars(SweepStep \/ ExitStep(Sweeper))
UntimedSpec == RunningSpec /\ Fairness
\* The deadline of a call ends its wait in a queue, too.
FairSpec == UntimedSpec /\ \A c \in Callers : WF_vars(Deadline(c))
=============================================================================
