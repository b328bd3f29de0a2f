------------------------- MODULE SupervisorProperties -------------------------
(* What the supervisor promises of the engine's process.                      *)
EXTENDS Supervisor

TypeOK ==
    /\ state \in {"initializing", "running", "unavailable", "recovering",
                  "degraded", "stopped"}
    /\ overdue \in BOOLEAN
    /\ failures \in 0..MaxFails /\ success \in {"never", "recent", "stable"}
    /\ child \in [Starts -> {"none", "runs", "ended", "reaped"}]
    /\ current \in 0..MaxStarts /\ alive \in BOOLEAN
    /\ watch \in {"off", "on", "ended"}
    /\ handler \in [Handlers ->
         {"none", "exited", "unhealthy", "recover", "count", "degrade", "sleep",
          "start", "started", "failed"}]
    /\ shutdown \in {"no", "asked", "killed", "gone"}
    /\ late \subseteq Starts

\* However many handlers recover the entity at once, two engines never run on
\* one database: a process is started only when the last one is dead, as long
\* as a killed process is waited for before its restart (ManagedProcess).
OneEngine == Cardinality(Running) <= 1

\* When the supervisor is gone no engine outlives it but one that a handler,
\* past its back-off, started after the kill (GracefulShutdown).
ShutdownKillsAll == shutdown = "gone" => Running \subseteq late

\* An engine that is dead is started again, whichever handlers fail, overlap or
\* give up: the breaker shuts for good only if no start was ever a success.
DeadIsRestarted ==
    watch = "on" /\ ~alive ~>
        \/ alive \/ shutdown # "no" \/ current = MaxStarts
        \/ success = "never" /\ failures >= MaxFails

-----------------------------------------------------------------------------
(* What the code's comments, or its names, say and its interleavings break. *)

\* One handler recovers the entity at a time (the test on recovering).
OneRecovery == Cardinality({h \in Handlers :
    handler[h] \in {"count", "degrade", "sleep", "start", "started"}}) <= 1

\* Nothing is started once the shutdown has killed everything.
NoLateStart == late = {}

\* An open breaker forbids restarts (CircuitOpen).
OpenForbids == [][failures >= MaxFails => current' = current]_vars

\* A process that lives on is known to run, unless the shutdown begins.
AliveIsRunning ==
    [](alive /\ state = "unavailable" => <>(~alive \/ state # "unavailable" \/ shutdown # "no"))

\* Only a process that was found dead is killed by its handler.
KillsOnlyDead == [][\A h \in Handlers :
    handler[h] = "unhealthy" /\ handler'[h] = "recover" => Running \subseteq Running']_vars
=============================================================================
