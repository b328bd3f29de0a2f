------------------------------ MODULE ToolCalls ------------------------------
(* What becomes of the side effects of a run's tool calls when the process   *)
(* dies: the engine that records a call as started before it runs            *)
(* (markToolStarted), the tool runtime that claims its key in the            *)
(* idempotency ledger (tool.ToolRuntime.Execute), and the recovery that      *)
(* sorts the incomplete calls of the log after a restart (engine.Recovery)   *)
(* and parks the run for its user.                                           *)
(*                                                                           *)
(* One run; how it moves between its busy states is RunLife's subject. Every *)
(* statement on the ledger is a step of its own. The log only grows, so that *)
(* what recovery reads of it is the run's last state and, for each call,     *)
(* which kinds of event it has.                                              *)
EXTENDS Naturals, FiniteSets

CONSTANTS
    Calls,              \* tool calls of the run (their ids)
    Executions,         \* runs of ToolRuntime.Execute
    None,               \* no call
    Repeatable,         \* calls of class A, or of class B without StateChecker
    Detectable,         \* class B calls whose tool is a StateChecker: a repeat
                        \* may be skipped, and may run
    Overlap,            \* whether a call may be dispatched again while an
                        \* execution of it goes on that its caller has left
    MaxAttempts,        \* EngineConfig.MaxRecoveryAttempts, 0 for no limit
    MaxCrashes, MaxPasses                                           \* bounds

ASSUME CallsAssumption ==
    /\ Repeatable \subseteq Calls /\ Detectable \subseteq Calls \ Repeatable
    /\ Overlap \in BOOLEAN
    /\ {MaxAttempts, MaxCrashes, MaxPasses} \subseteq Nat

Unsafe == Calls \ (Repeatable \cup Detectable)

VARIABLES
    ledger,     \* durable: status of each call's key
    aged,       \* durable: its claim is older than ClaimTTL
    state,      \* durable: the run's last state in the event log
    seen,       \* durable: which events each call has in the log
    run,        \* memory: the record of the run, and whether its loop runs
    exec,       \* memory: the executions
    pass,       \* memory: a recovery pass
    effects,    \* history: side effects of each call
    approved,   \* history: uncertain calls the user has resumed with since
                \* the process started
    met,        \* history: since then a recovery pass and a running loop
                \* have met
    crashes, passes
vars == <<ledger, aged, state, seen, run, exec, pass, effects, approved,
          met, crashes, passes>>

NoRun == [state |-> "none", loop |-> FALSE, uncertain |-> {}, attempts |-> 0]
NoExec == [pc |-> "none", call |-> None, waited |-> FALSE,
           live |-> TRUE]
NoPass == [pc |-> "none", decision |-> "none", uncertain |-> {},
           replayable |-> {}]

Init ==
    /\ ledger = [c \in Calls |-> "none"]
    /\ aged = [c \in Calls |-> FALSE]
    /\ state = "busy"
    /\ seen = [c \in Calls |-> {}]
    /\ run = [NoRun EXCEPT !.state = "busy", !.loop = TRUE]
    /\ exec = [e \in Executions |-> NoExec]
    /\ pass = NoPass
    /\ effects = [c \in Calls |-> 0]
    /\ approved = {} /\ met = FALSE
    /\ crashes = 0 /\ passes = 0

Terminal == state \in {"done", "failed"}
Goto(e, pc) == exec' = [exec EXCEPT ![e].pc = pc]
\* Execute is over; its caller still waits for it, or has left.
Over(e) == exec' = [exec EXCEPT ![e] =
    IF exec[e].waited THEN [NoExec EXCEPT !.pc = "outcome", !.call = exec[e].call,
                                          !.waited = TRUE]
    ELSE [NoExec EXCEPT !.pc = "over"]]
Under(e) == exec[e].pc \notin {"none", "outcome", "over"}
Log(c, kind) == seen' = [seen EXCEPT ![c] = @ \cup {kind}]

-----------------------------------------------------------------------------
(* The engine: a call is requested, dispatched, and its outcome observed. *)

Request(c) ==
    /\ run.loop /\ seen[c] = {}
    /\ Log(c, "requested")
    /\ UNCHANGED <<ledger, aged, state, run, exec, pass, effects, approved,
                   met, crashes, passes>>

\* toolExecs refuses a call that somebody waits for; one that its caller has
\* left may be dispatched again under the same id.
Dispatch(e, c) ==
    /\ run.loop /\ "requested" \in seen[c] /\ exec[e].pc = "none"
    /\ \A x \in Executions : exec[x].call = c =>
          ~exec[x].waited /\ (Overlap \/ ~Under(x))
    /\ exec' = [exec EXCEPT ![e] = [NoExec EXCEPT
                  !.pc = "mark", !.call = c, !.waited = TRUE]]
    /\ UNCHANGED <<ledger, aged, state, seen, run, pass, effects, approved,
                   met, crashes, passes>>

\* Mutant: the tool runs although its start could not be logged.
Unmarked_Run(e) == Goto(e, "get")
\* What follows when the started event cannot be appended.
Unmarked(e) == Over(e)

\* The started event is durable before the tool runs, or the tool does not; it
\* carries the state executing. An append that fails may have committed.
MarkStarted(e) ==
    /\ exec[e].pc = "mark"
    /\ \/ /\ exec[e].live
          /\ Log(exec[e].call, "started") /\ state' = "busy"
          /\ Goto(e, "get")
       \/ /\ Unmarked(e)
          /\ \/ UNCHANGED <<seen, state>>
             \/ Log(exec[e].call, "started") /\ state' = "busy"
    /\ UNCHANGED <<ledger, aged, run, pass, effects, approved, met, crashes,
                   passes>>

\* The outcome enters the log, unless the append fails, which nobody notices.
Observe(e) ==
    /\ exec[e].pc = "outcome" /\ run.loop
    /\ \/ Log(exec[e].call, "result")
       \/ UNCHANGED seen
    /\ exec' = [exec EXCEPT ![e] = [NoExec EXCEPT !.pc = "over"]]
    /\ UNCHANGED <<ledger, aged, state, run, pass, effects, approved, met, crashes,
                   passes>>

\* SubmitWait is abandoned: a failure is observed while the execution goes on,
\* and enters the log unless the append fails.
Abandon(e) ==
    /\ Under(e) /\ exec[e].waited /\ run.loop
    /\ Log(exec[e].call, "result") \/ UNCHANGED seen
    /\ exec' = [exec EXCEPT ![e].waited = FALSE]
    /\ UNCHANGED <<ledger, aged, state, run, pass, effects, approved, met, crashes,
                   passes>>

Finish ==
    /\ run.loop /\ \A e \in Executions : ~exec[e].waited
    /\ state' = "done"
    /\ run' = [run EXCEPT !.state = "done", !.loop = FALSE]
    /\ UNCHANGED <<ledger, aged, seen, exec, pass, effects, approved, met, crashes,
                   passes>>

-----------------------------------------------------------------------------
(* ToolRuntime.Execute, from the idempotency check on. *)

Leave(e) == Over(e) /\ UNCHANGED <<ledger, aged>>

\* Every statement on the ledger fails once the call's context has ended.
ContextEnds(e) ==
    /\ Under(e) /\ exec[e].live
    /\ exec' = [exec EXCEPT ![e].live = FALSE]
    /\ UNCHANGED <<ledger, aged, state, seen, run, pass, effects, approved,
                   met, crashes, passes>>

\* Mutant: a result in the ledger is not served again.
Settled_Open == {"needs_confirmation"}
Settled == {"done", "needs_confirmation"}

\* Get: the result of a finished call is served again, an unsettled one refused.
GetRecord(e) ==
    LET c == exec[e].call IN
    /\ exec[e].pc = "get"
    /\ \/ /\ ~exec[e].live \/ ledger[c] \in Settled
          /\ Leave(e)
       \/ /\ exec[e].live /\ ledger[c] \notin Settled \cup {"inflight"}
          /\ Goto(e, "claim") /\ UNCHANGED <<ledger, aged>>
       \/ /\ exec[e].live /\ ledger[c] = "inflight"
          /\ Goto(e, "recover") /\ UNCHANGED <<ledger, aged>>
    /\ UNCHANGED <<state, seen, run, pass, effects, approved, met, crashes, passes>>

\* RecoverInflight: a second look. A record that is done by then lets the
\* execution go on, without a claim of its own.
RecoverInflight(e) ==
    LET c == exec[e].call IN
    /\ exec[e].pc = "recover"
    /\ \/ /\ exec[e].live /\ ledger[c] = "done"
          /\ Goto(e, "reserve")
          /\ UNCHANGED <<ledger, aged>>
       \/ /\ \/ ~exec[e].live
             \/ ledger[c] \in {"none", "failed", "needs_confirmation"}
             \/ ledger[c] = "inflight" /\ ~aged[c]
          /\ Leave(e)
       \/ /\ exec[e].live /\ ledger[c] = "inflight" /\ aged[c]
          /\ IF c \in Unsafe
             THEN /\ ledger' = [ledger EXCEPT ![c] = "needs_confirmation"]
                  /\ Over(e)
             ELSE Goto(e, "claim") /\ UNCHANGED ledger
          /\ UNCHANGED aged
    /\ UNCHANGED <<state, seen, run, pass, effects, approved, met, crashes, passes>>

Claimable(c) == ledger[c] # "inflight" \/ aged[c]

\* One upsert: it takes whatever is not inflight, or has been for too long.
Claim(e) ==
    LET c == exec[e].call IN
    /\ exec[e].pc = "claim"
    /\ IF exec[e].live /\ Claimable(c)
       THEN /\ ledger' = [ledger EXCEPT ![c] = "inflight"]
            /\ aged' = [aged EXCEPT ![c] = FALSE]
            /\ Goto(e, "reserve")
       ELSE Leave(e)
    /\ UNCHANGED <<state, seen, run, pass, effects, approved, met, crashes, passes>>

\* No slot is left, or the state cannot be checked; or the tool runs. A
\* StateChecker that finds the goal reached commits instead. It compares the
\* content with what the call may say of it (file_write: expectedHash), so it
\* can overlook the call's own effect and can take another's for it.
Reserve(e) ==
    /\ exec[e].pc = "reserve"
    /\ \/ Goto(e, "cleanup")
       \/ Goto(e, "run")
       \/ exec[e].call \in Detectable /\ Goto(e, "commit")
    /\ UNCHANGED <<ledger, aged, state, seen, run, pass, effects, approved,
                   met, crashes, passes>>

\* The tool succeeds; or fails, is cut off or panics, with its effect or
\* without.
RunTool(e) ==
    LET c == exec[e].call IN
    /\ exec[e].pc = "run"
    /\ effects' = [effects EXCEPT ![c] = @ + 1] \/ UNCHANGED effects
    /\ Goto(e, "commit") \/ Goto(e, "cleanup")
    /\ UNCHANGED <<ledger, aged, state, seen, run, pass, approved, met, crashes,
                   passes>>

\* Complete touches an inflight record only; when it fails the claim stays.
Commit(e) ==
    LET c == exec[e].call IN
    /\ exec[e].pc = "commit"
    /\ \/ /\ exec[e].live /\ ledger[c] = "inflight"
          /\ ledger' = [ledger EXCEPT ![c] = "done"]
       \/ UNCHANGED ledger
    /\ Over(e)
    /\ UNCHANGED <<aged, state, seen, run, pass, effects, approved, met, crashes,
                   passes>>

\* Mutant: a class C call that failed may be tried again.
AfterFailure_Retry(c) == IF ledger[c] = "inflight" THEN "failed" ELSE ledger[c]

\* What cleanup leaves of a claim that was not completed.
AfterFailure(c) == IF c \in Unsafe THEN "needs_confirmation"
                   ELSE IF ledger[c] = "inflight" THEN "failed" ELSE ledger[c]

Cleanup(e) ==
    LET c == exec[e].call IN
    /\ exec[e].pc = "cleanup"
    /\ ledger' = IF exec[e].live
                 THEN [ledger EXCEPT ![c] = AfterFailure(c)] ELSE ledger
    /\ Over(e)
    /\ UNCHANGED <<aged, state, seen, run, pass, effects, approved, met, crashes,
                   passes>>

\* ClaimTTL goes by.
Age(c) ==
    /\ ledger[c] = "inflight" /\ ~aged[c]
    /\ aged' = [aged EXCEPT ![c] = TRUE]
    /\ UNCHANGED <<ledger, state, seen, run, exec, pass, effects, approved,
                   met, crashes, passes>>

-----------------------------------------------------------------------------
(* The process dies; its log and its ledger stay. *)

Crash ==
    /\ crashes < MaxCrashes /\ crashes' = crashes + 1
    /\ run' = NoRun
    /\ pass' = [NoPass EXCEPT !.pc = "inspect"]
    /\ exec' = [e \in Executions |-> IF exec[e].pc = "none" THEN NoExec
                                     ELSE [NoExec EXCEPT !.pc = "over"]]
    /\ approved' = {} /\ met' = FALSE
    /\ UNCHANGED <<ledger, aged, state, seen, effects, passes>>

-----------------------------------------------------------------------------
(* Recover: Inspect reads the log, applyRecoveryPlan acts on its plan. *)

\* The supervisor asks for another pass.
PassAgain ==
    /\ pass.pc = "none"
    /\ passes < MaxPasses /\ passes' = passes + 1
    /\ met' = (met \/ run.loop)
    /\ pass' = [NoPass EXCEPT !.pc = "inspect"]
    /\ UNCHANGED <<ledger, aged, state, seen, run, exec, effects, approved,
                   crashes>>

Incomplete == {c \in Calls : seen[c] # {} /\ "result" \notin seen[c]}
\* Mutant: a call of class C without a result is replayed like the others.
Replayable_All(c) == TRUE
Replayable(c) == "started" \notin seen[c] \/ c \notin Unsafe

\* A run whose log cannot be read, or that has used up its budget, is failed.
Inspect ==
    LET uncertain == {c \in Incomplete : ~Replayable(c)}
        replayable == {c \in Incomplete : Replayable(c)}
        broke == MaxAttempts > 0 /\ run.attempts >= MaxAttempts
        decision == IF broke THEN "fail"
                    ELSE IF uncertain # {} THEN "confirm" ELSE "auto"
    IN
    /\ pass.pc = "inspect"
    /\ pass' = IF Terminal THEN NoPass
               ELSE [pc |-> IF decision = "fail" THEN "fail" ELSE "rehydrate",
                     decision |-> decision, uncertain |-> uncertain,
                     replayable |-> replayable]
    /\ UNCHANGED <<ledger, aged, state, seen, run, exec, effects, approved,
                   met, crashes, passes>>

InspectFails ==
    /\ pass.pc = "inspect"
    /\ pass' = [NoPass EXCEPT !.pc = "fail", !.decision = "fail"]
    /\ UNCHANGED <<ledger, aged, state, seen, run, exec, effects, approved,
                   met, crashes, passes>>

\* MarkFailed appends to the log and leaves a record in memory as it is.
MarkFailed ==
    /\ pass.pc = "fail"
    /\ pass' = NoPass
    /\ state' = "failed"
    /\ UNCHANGED <<ledger, aged, seen, run, exec, effects, approved, met, crashes,
                   passes>>

\* A record that is there already wins.
Rehydrate ==
    /\ pass.pc = "rehydrate"
    /\ pass' = [pass EXCEPT !.pc = "park"]
    /\ run' = [run EXCEPT
         !.state = IF @ = "none" THEN state ELSE @,
         !.attempts = IF pass.decision = "auto" THEN @ + 1 ELSE @]
    /\ UNCHANGED <<ledger, aged, state, seen, exec, effects, approved, met, crashes,
                   passes>>

\* A park without uncertain calls leaves an earlier list alone.
Listed == IF pass.uncertain = {} THEN run.uncertain ELSE pass.uncertain

\* The transition to waiting_user, unless the run is there; one that cannot be
\* appended ends the pass.
Park ==
    /\ pass.pc = "park"
    /\ \/ /\ run.state \notin {"waiting", "done"}
          /\ state' = "waiting"
          /\ run' = [run EXCEPT !.state = "waiting", !.uncertain = Listed]
          /\ pass' = [pass EXCEPT !.pc = "list"]
       \/ /\ run.state = "waiting"
          /\ pass' = [pass EXCEPT !.pc = "list"]
          /\ UNCHANGED <<state, run>>
       \/ /\ run.state # "waiting"
          /\ pass' = NoPass
          /\ UNCHANGED <<state, run>>
    /\ UNCHANGED <<ledger, aged, seen, exec, effects, approved, met, crashes, passes>>

\* ParkRun lists the uncertain calls; a run that has left waiting_user since,
\* even for a terminal state, is put back there.
ParkRun ==
    /\ pass.pc = "list"
    /\ pass' = NoPass
    /\ \/ run' = [run EXCEPT !.state = "waiting", !.uncertain = Listed]
          /\ state' = "waiting"
       \/ run.state # "waiting" /\ UNCHANGED <<state, run>>
    /\ UNCHANGED <<ledger, aged, seen, exec, effects, approved, met, crashes, passes>>

\* Engine.Resume: the uncertain calls are taken as approved, then the loop
\* starts, if no other one runs and the transition can be appended.
Resume ==
    /\ run.state = "waiting"
    /\ approved' = approved \cup run.uncertain
    /\ \/ /\ ~run.loop
          /\ state' = "busy"
          /\ run' = [run EXCEPT !.state = "busy", !.loop = TRUE,
                                !.uncertain = {}]
          /\ met' = (met \/ pass.pc # "none")
       \/ run' = [run EXCEPT !.uncertain = {}] /\ UNCHANGED <<state, met>>
    /\ UNCHANGED <<ledger, aged, seen, exec, pass, effects, crashes, passes>>

-----------------------------------------------------------------------------
Execute(e) == GetRecord(e) \/ RecoverInflight(e) \/ Claim(e) \/ Reserve(e)
              \/ RunTool(e) \/ Commit(e) \/ Cleanup(e)
Recover == Inspect \/ InspectFails \/ MarkFailed \/ Rehydrate \/ Park \/ ParkRun
Next ==
    \/ \E c \in Calls : Request(c) \/ Age(c)
    \/ \E e \in Executions, c \in Calls : Dispatch(e, c)
    \/ \E e \in Executions : MarkStarted(e) \/ Observe(e) \/ Abandon(e)
                             \/ ContextEnds(e) \/ Execute(e)
    \/ Finish \/ Crash \/ PassAgain \/ Recover \/ Resume
Spec == Init /\ [][Next]_vars
=============================================================================
