------------------------------ MODULE Supervisor ------------------------------
(* The supervisor process (internal/supervisor, runSupervisor): it starts the *)
(* engine as a child, watches it with a ticker, restarts it after a back-off  *)
(* when it died or does not beat, tells the new one to recover its runs, and  *)
(* kills it when the program is stopped.                                      *)
(*                                                                            *)
(* One entity, as runSupervisor registers. A step is a section under the      *)
(* supervisor's lock, or one under the process's; the goroutine a tick spawns *)
(* is a handler. Durations are free: a beat may be found old at any tick, a   *)
(* back-off may end at any moment, and the stable window may pass whenever no *)
(* start is more recent.                                                      *)
EXTENDS Naturals, FiniteSets

CONSTANTS
    Handlers,           \* goroutines of handleProcessExit, handleEntityUnhealthy
    MaxFails,           \* SupervisorConfig.MaxRestartRetries
    PromptWait,         \* assumption: no start falls between a kill and the
                        \* return of cmd.Wait of the process it killed
    MaxStarts,          \* bound: processes started
    MaxFaults           \* bound: deaths of a process, and starts that fail

ASSUME SupervisorAssumption ==
    /\ PromptWait \in BOOLEAN
    /\ MaxFails \in Nat \ {0} /\ MaxStarts \in Nat /\ MaxFaults \in Nat

Starts == 1..MaxStarts

VARIABLES
    state,      \* ManagedEntity.State
    overdue,    \* LastHeartbeat is older than HeartbeatTimeout
    failures,   \* RestartTracker.consecutiveFailures
    success,    \* age of its lastSuccessTime: never, recent, stable
    child,      \* processes by start: none, runs, ended (dead, cmd.Wait still
                \* under way), reaped
    current,    \* ManagedProcess.cmd, 0 before the first
    alive,      \* ManagedProcess.alive
    watch,      \* watchdogLoop: off, on, ended
    handler,    \* handler: where it is
    shutdown,   \* no, asked (the context is cancelled), killed, gone
    faults,
    late        \* history: processes started after the shutdown's kill
vars == <<state, overdue, failures, success, child, current, alive, watch,
          handler, shutdown, faults, late>>

entityVars == <<state, overdue>>
trackerVars == <<failures, success>>
processVars == <<child, current, alive>>

Init ==
    /\ state = "initializing" /\ overdue = FALSE
    /\ failures = 0 /\ success = "never"
    /\ child = [n \in Starts |-> "none"] /\ current = 0 /\ alive = FALSE
    /\ watch = "off"
    /\ handler = [h \in Handlers |-> "none"]
    /\ shutdown = "no" /\ faults = 0 /\ late = {}

-----------------------------------------------------------------------------
(* ManagedProcess, each operation under its own lock. *)

Running == {n \in Starts : child[n] = "runs"}
Waited == {n \in Starts : child[n] = "ended"}

\* Mutant: a process that lives does not keep another from being started.
Startable_Always == current < MaxStarts /\ (PromptWait => Waited = {})
\* Start does nothing for a process that is taken to be alive. PromptWait is not
\* in the code: the handler that killed is kept from starting early by its own
\* back-off of a second or more, another one whose back-off ends just then is not.
Startable == ~alive /\ current < MaxStarts /\ (PromptWait => Waited = {})

StartProcess ==
    /\ Startable
    /\ child' = [child EXCEPT ![current + 1] = "runs"]
    /\ current' = current + 1 /\ alive' = TRUE
    /\ late' = IF shutdown = "killed" THEN late \cup {current + 1} ELSE late
    /\ UNCHANGED faults

\* Start returns an error: the process is there already, or exec fails.
StartRefused ==
    /\ \/ alive /\ UNCHANGED faults
       \/ ~alive /\ faults < MaxFaults /\ faults' = faults + 1
    /\ UNCHANGED <<processVars, late>>

\* Kill: what is taken to be alive gets its SIGKILL and counts as dead at once.
Kill ==
    /\ child' = IF alive /\ child[current] = "runs"
                THEN [child EXCEPT ![current] = "ended"] ELSE child
    /\ alive' = FALSE
    /\ UNCHANGED current

\* The process dies by itself; nobody is told before cmd.Wait returns.
Dies(n) ==
    /\ child[n] = "runs" /\ faults < MaxFaults
    /\ child' = [child EXCEPT ![n] = "ended"] /\ faults' = faults + 1
    /\ UNCHANGED <<entityVars, trackerVars, current, alive, watch, handler,
                   shutdown, late>>

\* waitLoop: the flag is reset whichever process it was that ended.
WaitReturns(n) ==
    /\ child[n] = "ended" /\ shutdown # "gone"
    /\ child' = [child EXCEPT ![n] = "reaped"] /\ alive' = FALSE
    /\ UNCHANGED <<entityVars, trackerVars, current, watch, handler, shutdown,
                   faults, late>>

-----------------------------------------------------------------------------
(* Start and the watchdog. *)

Launch ==
    /\ watch = "off" /\ shutdown = "no" /\ watch' = "on"
    /\ \/ /\ StartProcess
          /\ state' = "running" /\ overdue' = FALSE
          /\ failures' = 0 /\ success' = "recent"
       \/ /\ StartRefused /\ state' = "degraded"
          /\ UNCHANGED <<overdue, trackerVars>>
    /\ UNCHANGED <<handler, shutdown>>

Idle == {h \in Handlers : handler[h] = "none"}
Spawn(kind) == \E h \in Idle : handler' = [handler EXCEPT ![h] = kind]

\* Mutant: only an entity that ran is looked at again.
Missed_OnlyRunning == ~alive /\ overdue /\ state = "running"
\* No beat for too long, whatever state the entity is in.
Missed == ~alive /\ overdue

\* checkHealth, with the goroutine it starts. A back-off under way does not
\* keep it from finding the entity unhealthy again. It asks twice whether the
\* process lives: one that dies in between is unhealthy in any state.
Tick ==
    /\ watch = "on"
    /\ \/ /\ ~alive /\ state = "running"
          /\ state' = "unavailable" /\ Spawn("exited")
          /\ UNCHANGED overdue
       \/ /\ Missed
          /\ state' = "unavailable" /\ Spawn("unhealthy")
          /\ UNCHANGED overdue
       \/ /\ alive /\ overdue
          /\ overdue' = FALSE /\ UNCHANGED <<state, handler>>
    /\ UNCHANGED <<trackerVars, processVars, watch, shutdown, faults, late>>

\* HeartbeatTimeout, and the stable window, go by.
BeatGetsOld ==
    /\ ~overdue /\ overdue' = TRUE
    /\ UNCHANGED <<state, trackerVars, processVars, watch, handler, shutdown,
                   faults, late>>
WindowPasses ==
    /\ success = "recent" /\ success' = "stable"
    /\ UNCHANGED <<entityVars, failures, processVars, watch, handler, shutdown,
                   faults, late>>

WatchEnds ==
    /\ watch = "on" /\ shutdown # "no" /\ watch' = "ended"
    /\ UNCHANGED <<entityVars, trackerVars, processVars, handler, shutdown,
                   faults, late>>

-----------------------------------------------------------------------------
(* A handler: the crash dump, and recoverEntity. *)

Move(h, from, to) ==
    handler[h] = from /\ handler' = [handler EXCEPT ![h] = to]
Up == shutdown # "gone"

\* handleEntityUnhealthy kills first, whatever has happened since the tick.
KillUnhealthy(h) ==
    /\ Up /\ Move(h, "unhealthy", "recover") /\ Kill
    /\ UNCHANGED <<entityVars, trackerVars, watch, shutdown, faults, late>>

CollectCrash(h) ==
    /\ Up /\ Move(h, "exited", "recover")
    /\ UNCHANGED <<entityVars, trackerVars, processVars, watch, shutdown,
                   faults, late>>

\* One recovery at a time, unless a tick has overwritten the state.
Recover(h) ==
    /\ Up
    /\ IF state \in {"recovering", "stopped"}
       THEN Move(h, "recover", "none") /\ UNCHANGED state
       ELSE Move(h, "recover", "count") /\ state' = "recovering"
    /\ UNCHANGED <<overdue, trackerVars, processVars, watch, shutdown, faults,
                   late>>

\* RecordFailure. The last success is the one of Start: a restart is none.
Counted == IF success = "stable" THEN 1
           ELSE IF failures < MaxFails THEN failures + 1 ELSE failures

RecordFailure(h) ==
    /\ Up /\ failures' = Counted
    /\ Move(h, "count", IF Counted >= MaxFails THEN "degrade" ELSE "sleep")
    /\ UNCHANGED <<entityVars, success, processVars, watch, shutdown, faults,
                   late>>

Degrade(h) ==
    /\ Up /\ Move(h, "degrade", "none") /\ state' = "degraded"
    /\ UNCHANGED <<overdue, trackerVars, processVars, watch, shutdown, faults,
                   late>>

\* The back-off ends, or the shutdown ends it; with both, select picks either.
BackedOff(h) ==
    /\ Up
    /\ \/ Move(h, "sleep", "start")
       \/ shutdown # "no" /\ Move(h, "sleep", "none")
    /\ UNCHANGED <<entityVars, trackerVars, processVars, watch, shutdown,
                   faults, late>>

Restart(h) ==
    /\ Up
    /\ \/ StartProcess /\ Move(h, "start", "started")
       \/ StartRefused /\ Move(h, "start", "failed")
    /\ UNCHANGED <<entityVars, trackerVars, watch, shutdown>>

RestartFailed(h) ==
    /\ Up /\ Move(h, "failed", "none") /\ state' = "unavailable"
    /\ UNCHANGED <<overdue, trackerVars, processVars, watch, shutdown, faults,
                   late>>

\* With the frame that asks the engine to recover, of which nothing is kept.
Restarted(h) ==
    /\ Up /\ Move(h, "started", "none")
    /\ state' = "running" /\ overdue' = FALSE
    /\ UNCHANGED <<trackerVars, processVars, watch, shutdown, faults, late>>

-----------------------------------------------------------------------------
(* GracefulShutdown: the context, then the kill (of the last steps, or after *)
(* their time is up), then runSupervisor returns and everything ends but the *)
(* children.                                                                 *)

AskShutdown ==
    /\ watch # "off" /\ shutdown = "no" /\ shutdown' = "asked"
    /\ UNCHANGED <<entityVars, trackerVars, processVars, watch, handler, faults,
                   late>>

\* Mutant: the entity is marked, its process left alone.
ShutdownKill_MarkOnly ==
    /\ shutdown = "asked" /\ shutdown' = "killed"
    /\ state' = "stopped"
    /\ UNCHANGED <<overdue, trackerVars, processVars, watch, handler, faults, late>>
ShutdownKill ==
    /\ shutdown = "asked" /\ shutdown' = "killed"
    /\ Kill /\ state' = "stopped"
    /\ UNCHANGED <<overdue, trackerVars, watch, handler, faults, late>>

Exit ==
    /\ shutdown = "killed" /\ shutdown' = "gone"
    /\ watch' = "ended"
    /\ UNCHANGED <<entityVars, trackerVars, processVars, handler, faults, late>>

-----------------------------------------------------------------------------
HandlerStep(h) ==
    \/ KillUnhealthy(h) \/ CollectCrash(h) \/ Recover(h) \/ RecordFailure(h)
    \/ Degrade(h) \/ BackedOff(h) \/ Restart(h) \/ RestartFailed(h)
    \/ Restarted(h)
Next ==
    \/ Launch \/ Tick \/ BeatGetsOld \/ WindowPasses \/ WatchEnds
    \/ \E n \in Starts : Dies(n) \/ WaitReturns(n)
    \/ \E h \in Handlers : HandlerStep(h)
    \/ AskShutdown \/ ShutdownKill \/ Exit
Spec == Init /\ [][Next]_vars

\* The ticker and the clock go on, goroutines run, a dead process is waited
\* for. A restart is tried, and what keeps it from succeeding is bounded.
FairSpec ==
    /\ Spec
    /\ WF_vars(Launch) /\ WF_vars(Tick)
    /\ WF_vars(BeatGetsOld) /\ WF_vars(WindowPasses)
    /\ \A n \in Starts : WF_vars(WaitReturns(n))
    /\ \A h \in Handlers : WF_vars(HandlerStep(h))
=============================================================================
