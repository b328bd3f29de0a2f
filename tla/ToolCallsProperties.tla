------------------------- MODULE ToolCallsProperties -------------------------
(* What the ledger, the started marker and the recovery promise together     *)
(* about the side effects of a run's calls.                                  *)
EXTENDS ToolCalls

TypeOK ==
    /\ ledger \in [Calls -> {"none", "inflight", "done", "failed",
                             "needs_confirmation"}]
    /\ aged \in [Calls -> BOOLEAN]
    /\ state \in {"busy", "waiting", "done", "failed"}
    /\ seen \in [Calls -> SUBSET {"requested", "started", "result"}]
    /\ run \in [state : {"none", "busy", "waiting", "done", "failed"}, loop : BOOLEAN,
                uncertain : SUBSET Calls, attempts : Nat]
    /\ exec \in [Executions ->
         [pc : {"none", "mark", "get", "recover", "claim", "reserve", "run",
                "commit", "cleanup", "outcome", "over"},
          call : Calls \cup {None}, waited : BOOLEAN, live : BOOLEAN]]
    /\ pass \in [pc : {"none", "inspect", "fail", "rehydrate", "park", "list"},
                 decision : {"none", "fail", "confirm", "auto"},
                 uncertain : SUBSET Calls, replayable : SUBSET Calls]
    /\ effects \in [Calls -> Nat]
    /\ approved \subseteq Calls /\ met \in BOOLEAN

\* A call of class C has its side effect at most once: over crashes, restarts,
\* recovery passes, approvals, and a caller that dispatches the call again once
\* its last execution is over (ToolRuntime.Execute). Nothing of the kind holds
\* of class B, whose check can overlook an effect (DetectableOnce, below).
UnsafeOnce == \A c \in Unsafe : effects[c] <= 1

\* Once a result is committed under its key it stays, and the call, of whatever
\* class, does not run again: a repeat is served from the ledger.
CommittedOnce ==
    [][\A c \in Calls : ledger[c] = "done" =>
         ledger'[c] = "done" /\ effects'[c] = effects[c]]_vars

\* When a recovery pass calls a call of class C replayable, the call has had no
\* effect yet (Recovery.Inspect: without a started event it never ran).
ReplayIsHarmless ==
    [][pass.pc = "inspect" =>
         \A c \in pass'.replayable \cap Unsafe : effects[c] = 0]_vars

\* When a recovered run waits for its user, every call of class C that may
\* have had its effect and has no result is in the list he is asked about, or
\* he has resumed the run with it in the list already; unless a pass has met a
\* loop that was running, or that he started before the pass was over.
UncertainAsked ==
    run.state = "waiting" /\ ~run.loop /\ pass.pc = "none" /\ ~met =>
        \A c \in Unsafe : effects[c] > 0 /\ "result" \notin seen[c] =>
            c \in run.uncertain \cup approved

-----------------------------------------------------------------------------
(* What the code's comments say and its interleavings break. *)

\* A call of class B has its side effect at most once: the state check
\* "avoids writing again after a crash" (domains/file/file.go:472). Without an
\* expected hash, or after a partial write, the check lets the tool run again.
DetectableOnce == \A c \in Detectable : effects[c] <= 1

\* A loop that runs is not parked behind its back ("the in-memory record
\* wins", engine.rehydrateRun).
LiveRunKept == run.loop => run.state # "waiting"

\* A run that recovery fails for good is not resumed.
FailedIsFinal == state = "failed" => ~run.loop /\ run.state # "waiting"

\* A loop starts again only once every class C call of unknown outcome has
\* been in the list that the user saw.
ResumedIsAsked ==
    [][~run.loop /\ run'.loop =>
         \A c \in Unsafe : effects[c] > 0 /\ "result" \notin seen[c] =>
             c \in approved']_vars
=============================================================================
