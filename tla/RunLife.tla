------------------------------- MODULE RunLife -------------------------------
(***************************************************************************)
(* The life of one run (internal/engine/engine.go, actor.go, decide.go and *)
(* the parts of internal/agent/loop.go and plan_mode.go that move it).     *)
(* The run's own goroutine, one per execution, drives the agent loop; RPC  *)
(* goroutines call Cancel, Resume, ConfirmPlan and Decide at any moment.   *)
(*                                                                         *)
(* A run's state is kept four times: in the agent's machine, in the        *)
(* session actor, in the engine's record and in the durable event log.     *)
(* The actor is one goroutine with a FIFO mailbox and the machine holds    *)
(* its lock over the call, so a move of the machine and what the actor     *)
(* makes of it are one step.  When the context of a write is already       *)
(* cancelled the caller may see an error whatever became of the write, see *)
(* Outcomes.                                                               *)
(*                                                                         *)
(* The provider, the tools and the planner are external: a round ends in   *)
(* any way they allow.  No planner is installed (bootstrap leaves it nil), *)
(* and a decision is remembered for the run whatever "remember" says       *)
(* (decide.go names that limitation), so "remember" is left out.           *)
(***************************************************************************)
EXTENDS RunStates, Naturals, FiniteSets

CONSTANTS
    Callers,       \* RPC goroutines
    Requests,      \* what they ask for, among "cancel", "resume", "confirm", "decide"
    Calls,         \* tool call IDs that need the user's permission, of one tool
    PlanMode,      \* the request asks for a plan to be confirmed first
    Deadlines,     \* the executions whose wall-clock budget may run out
    MaxExecs,      \* bound: executions of the run, the first included
    MaxRounds      \* MaxToolRounds, the rounds of one execution before it wraps up

ASSUME RunLifeAssumption ==
    /\ Requests \subseteq {"cancel", "resume", "confirm", "decide"}
    /\ PlanMode \in BOOLEAN /\ Deadlines \subseteq Nat
    /\ MaxExecs \in Nat \ {0}
    /\ MaxRounds \in Nat \ {0}

Execs == 1 .. MaxExecs
AnyCall == "any_call"            \* the tool-name key of a decision
Keys == Calls \cup {AnyCall}

VARIABLES
    machine,       \* Machine.state; the machine is closed in a final state
    actor,         \* the actor's Run.State
    logged,        \* the state the durable log folds to
    inMap,         \* runs[runID] is there
    held,          \* rec.machine is not nil
    recorded,      \* rec.run.State
    executing,     \* rec.executing, the ownership claim
    marked,        \* the scheduler's cancelledRuns has the run
    late,          \* a tool task that nobody waits for has yet to log its start
    current,       \* the execution whose context rec.cancel cancels
    dead,          \* executions whose context is cancelled
    planPending, planDecision,
    planOpen,      \* the newest plan event of the log is a proposal
    waiting,       \* rec.pendingToolCalls
    answers,       \* keys of rec.toolDecisions
    asked,         \* calls the log shows as waiting for permission
    folded,        \* keys the conversation has an answer for
    issued,        \* call IDs the model has used
    pc,            \* where each execution is
    round,         \* rounds of each execution
    result,        \* how each execution's loop ended
    hand,          \* the plan decision each execution took
    asks,          \* the calls each execution is about to park on
    cause,         \* what started each execution
    rpc,           \* where each caller is
    cancelReturned, \* a Cancel has returned without error
    disturbed      \* a Cancel has begun, or a deadline has passed

states == <<machine, actor, logged>>
record == <<inMap, held, recorded>>
sched == <<marked, late>>
ctx == <<current, dead, disturbed>>
plan == <<planPending, planDecision, planOpen>>
prompts == <<waiting, answers, asked>>
convo == <<folded, issued>>
exec == <<pc, round, result, hand, asks, cause>>
vars == <<states, record, executing, sched, ctx, plan, prompts, convo, exec,
          rpc, cancelReturned>>

Idle == [at |-> "idle"]

Init ==
    /\ machine = "created" /\ actor = "created" /\ logged = "created"
    /\ inMap = FALSE /\ held = TRUE /\ recorded = "created"
    /\ executing = FALSE /\ marked = FALSE /\ late = FALSE /\ current = 1 /\ dead = {}
    /\ planPending = FALSE /\ planDecision = "none" /\ planOpen = FALSE
    /\ waiting = {} /\ answers = {} /\ asked = {} /\ folded = {} /\ issued = {}
    /\ pc = [e \in Execs |-> "none"]
    /\ round = [e \in Execs |-> 0]
    /\ result = [e \in Execs |-> "none"]
    /\ hand = [e \in Execs |-> "none"]
    /\ asks = [e \in Execs |-> {}]
    /\ cause = [e \in Execs |-> "none"]
    /\ rpc = [c \in Callers |-> Idle]
    /\ cancelReturned = FALSE /\ disturbed = FALSE

-----------------------------------------------------------------------------
(* The machine, the actor and the log.                                     *)

At(c, at) == rpc[c].at = at
To(c, at) == rpc' = [rpc EXCEPT ![c].at = at]

(* What can come of a write.  It is lost when its context is cancelled     *)
(* before the writer takes it.  When the context is cancelled after the    *)
(* commit, somebody stops waiting and reports an error: the caller of the  *)
(* actor (unheard), or the actor itself, which then does not follow (torn).*)
(* The cancellation is part of such a step: nothing in between can be told *)
(* from its happening before or after.                                     *)
Write(e, how) ==
    \/ /\ how = IF e \in dead THEN "lost" ELSE "done"
       /\ UNCHANGED <<dead, disturbed, rpc>>
    \/ /\ how \in {"unheard", "torn"} /\ e \notin dead
       /\ dead' = dead \cup {e} /\ disturbed' = TRUE
       /\ \/ e \in Deadlines /\ UNCHANGED rpc
          \/ \E c \in Callers : At(c, "stop") /\ current = e /\ To(c, "move")

Outcomes == {"done", "lost", "unheard", "torn"}
Detached == "done"               \* context.WithoutCancel

(* SessionActor.applyTransition *)
Apply(to, how) ==
    IF CanMove(actor, to) /\ how # "lost"
    THEN /\ logged' = to
         /\ actor' = IF how = "torn" THEN actor ELSE to
    ELSE UNCHANGED <<actor, logged>>

(* Machine.Transition: an error of the sink does not undo the move *)
Move(to, how) ==
    IF CanMove(machine, to)
    THEN machine' = to /\ Apply(to, how)
    ELSE UNCHANGED states
Moved(to, how) == CanMove(machine, to) /\ CanMove(actor, to) /\ how = "done"

(* SessionActor.applyTerminal: a second ending, and a park already made,   *)
(* change no state; a final state is not checked against the table.        *)
Redundant(to) ==
    \/ actor \in Final /\ to \in Final
    \/ actor = "waiting_user" /\ to = "waiting_user"
CloseRun(to) ==
    IF Redundant(to) \/ (actor \notin Final /\ ~CanMove(actor, to))
    THEN UNCHANGED <<states, sched>>
    ELSE /\ actor' = to
         /\ logged' = to
         /\ marked' = (marked \/ to \in Final)
         /\ UNCHANGED <<machine, late>>

(* An event that carries a state of its own (round.started, tool started)  *)
Stamp(state, how) ==
    /\ logged' = IF how = "lost" THEN logged ELSE state
    /\ UNCHANGED <<machine, actor>>

-----------------------------------------------------------------------------
(* Submit, and the goroutine of one execution.                             *)

(* The caller learns the run's ID only when Submit returns, so nothing can *)
(* come between its steps.                                                 *)
Submit ==
    /\ pc[1] = "none"
    /\ machine' = "queued" /\ actor' = "queued" /\ logged' = "queued"
    /\ inMap' = TRUE
    /\ executing' = TRUE
    /\ pc' = [pc EXCEPT ![1] = "start"]
    /\ cause' = [cause EXCEPT ![1] = "submit"]
    /\ UNCHANGED <<held, recorded, sched, ctx, plan, prompts, convo, round, result,
                   hand, asks, rpc, cancelReturned>>

Go(e, at) == pc' = [pc EXCEPT ![e] = at]
EndAs(e, at, r) == /\ Go(e, at)
                   /\ result' = [result EXCEPT ![e] = r]

Start(e) ==
    /\ pc[e] = "start"
    /\ IF held
       THEN Go(e, "begin") /\ recorded' = "thinking"
       ELSE Go(e, "exit") /\ UNCHANGED recorded
    /\ UNCHANGED <<states, inMap, held, executing, sched, ctx, plan, prompts, convo,
                   round, result, hand, asks, cause, rpc, cancelReturned>>

Begin(e) ==
    /\ pc[e] = "begin"
    /\ \E how \in Outcomes :
          /\ Write(e, how)
          /\ Move("thinking", how)
          /\ IF Moved("thinking", how)
             THEN Go(e, "take_plan") /\ UNCHANGED result
             ELSE EndAs(e, "finish", "failed")
    /\ UNCHANGED <<record, executing, sched, current, plan, prompts, convo, round, hand,
                   asks, cause, cancelReturned>>

TakePlanDecision(e) ==
    /\ pc[e] = "take_plan"
    /\ hand' = [hand EXCEPT ![e] = planDecision]
    /\ planDecision' = "none"
    /\ Go(e, "take_answers")
    /\ UNCHANGED <<states, record, executing, sched, ctx, planPending, planOpen, prompts,
                   convo, round, result, asks, cause, rpc, cancelReturned>>

(* takeToolDecisions, clearPendingToolCalls and FoldToolDecisions; a       *)
(* decision between them is the same as one just before.                   *)
TakeAnswers(e) ==
    /\ pc[e] = "take_answers"
    /\ folded' = folded \cup answers
    /\ answers' = {}
    /\ waiting' = {}
    /\ Go(e, IF (PlanMode \/ hand[e] # "none") /\ hand[e] # "approved"
             THEN "plan" ELSE "round")
    /\ UNCHANGED <<states, record, executing, sched, ctx, plan, asked, issued, round,
                   result, hand, asks, cause, rpc, cancelReturned>>

(* checkCancelled, at the top of a phase, a round or the wrap-up *)
CheckContext(e) ==
    /\ pc[e] \in {"plan", "round", "wrap"}
    /\ Go(e, IF e \in dead THEN "abort"
             ELSE IF pc[e] = "plan" THEN "propose"
             ELSE IF pc[e] = "round" /\ round[e] < MaxRounds THEN "enter" ELSE "wrap_up")
    /\ UNCHANGED <<states, record, executing, sched, ctx, plan, prompts, convo, round,
                   result, hand, asks, cause, rpc, cancelReturned>>

(* finishCancelled and finishFailed *)
LoopEnds(e) ==
    /\ \E to \in {"cancelled", "failed"} :
          /\ pc[e] = IF to = "cancelled" THEN "abort" ELSE "fail"
          /\ Move(to, Detached)
          /\ EndAs(e, "after", to)
    /\ UNCHANGED <<record, executing, sched, ctx, plan, prompts, convo, round, hand,
                   asks, cause, rpc, cancelReturned>>

(* runPlanMode: the proposal is emitted before the run is parked; the      *)
(* provider's round may fail or be cancelled, and so may the write.        *)
Propose(e) ==
    /\ pc[e] = "propose"
    /\ \/ \E how \in Outcomes :
             /\ Write(e, how)
             /\ planOpen' = (planOpen \/ how # "lost")
             /\ Go(e, IF how = "done" THEN "park_plan" ELSE "fail")
       \/ /\ \E at \in {"fail", "abort"} : (at = "abort" => e \in dead) /\ Go(e, at)
          /\ UNCHANGED <<planOpen, dead, disturbed, rpc>>
    /\ UNCHANGED <<states, record, executing, sched, current, planPending, planDecision,
                   prompts, convo, round, result, hand, asks, cause, cancelReturned>>

ParkPlan(e) ==
    /\ pc[e] = "park_plan"
    /\ \E how \in Outcomes :
          /\ Write(e, how)
          /\ Move("waiting_user", how)
          /\ IF Moved("waiting_user", how)
             THEN EndAs(e, "after", "plan")
             ELSE UNCHANGED result /\ \E at \in {"fail", "abort"} : Go(e, at)
    /\ UNCHANGED <<record, executing, sched, current, plan, prompts, convo, round, hand,
                   asks, cause, cancelReturned>>

(* A round: the move to thinking, then round.started, then the provider.   *)
BeginRound(e) ==
    /\ pc[e] = "enter"
    /\ \E how \in Outcomes :
          /\ Write(e, how)
          /\ Move("thinking", how)
          /\ IF Moved("thinking", how)
             THEN Go(e, "announce") /\ UNCHANGED result
             ELSE EndAs(e, "after", "failed")
    /\ round' = [round EXCEPT ![e] = @ + 1]
    /\ UNCHANGED <<record, executing, sched, current, plan, prompts, convo, hand, asks,
                   cause, cancelReturned>>

Announce(e) ==
    /\ pc[e] = "announce"
    /\ \E how \in Outcomes :
          /\ Write(e, how)
          /\ Stamp("thinking", how)
          /\ IF how = "done" THEN Go(e, "think") /\ UNCHANGED result
                             ELSE EndAs(e, "after", "failed")
    /\ UNCHANGED <<record, executing, sched, current, plan, prompts, convo, round, hand,
                   asks, cause, cancelReturned>>

Answered(e) == pc[e] \in {"think", "act"}

(* The provider gives the final answer, or fails; the event before the     *)
(* move may fail too.                                                      *)
ThinkEnds(e) ==
    /\ Answered(e)
    /\ \/ \E to \in {"completed", "failed"}, how \in Outcomes :
             /\ Write(e, how) /\ Move(to, how)
             /\ EndAs(e, "after", IF Moved(to, how) THEN to ELSE "failed")
       \/ e \in dead /\ EndAs(e, "after", "failed") /\ UNCHANGED <<states, dead, disturbed,
                                                                 rpc>>
    /\ UNCHANGED <<record, executing, sched, current, plan, prompts, convo, round, hand,
                   asks, cause, cancelReturned>>

(* The provider reports a cancellation: no move of the machine.            *)
ThinkCancelled(e) ==
    /\ Answered(e)
    /\ e \in dead
    /\ EndAs(e, "after", "cancelled")
    /\ UNCHANGED <<states, record, executing, sched, ctx, plan, prompts, convo, round,
                   hand, asks, cause, rpc, cancelReturned>>

(* The answer was empty or cut off: the next round asks again.             *)
ThinkAgain(e) ==
    /\ Answered(e)
    /\ Go(e, "round")
    /\ UNCHANGED <<states, record, executing, sched, ctx, plan, prompts, convo, round,
                   result, hand, asks, cause, rpc, cancelReturned>>

(* forceWrapUp: one round without tools, whose every error goes through    *)
(* finishFailed or finishCancelled.                                        *)
WrapUp(e) ==
    /\ pc[e] = "wrap_up"
    /\ \E how \in Outcomes :
          /\ Write(e, how)
          /\ Move("thinking", how)
          /\ Go(e, IF Moved("thinking", how) THEN "last_words" ELSE "fail")
    /\ UNCHANGED <<record, executing, sched, current, plan, prompts, convo, round, result,
                   hand, asks, cause, cancelReturned>>

LastWords(e) ==
    /\ pc[e] = "last_words"
    /\ \/ \E how \in Outcomes :
             /\ Write(e, how)
             /\ Move("completed", how)
             /\ IF Moved("completed", how) THEN EndAs(e, "after", "completed")
                                           ELSE Go(e, "fail") /\ UNCHANGED result
       \/ /\ \E at \in {"fail", "abort"} : (at = "abort" => e \in dead) /\ Go(e, at)
          /\ UNCHANGED <<states, result, dead, disturbed, rpc>>
    /\ UNCHANGED <<record, executing, sched, current, plan, prompts, convo, round, hand,
                   asks, cause, cancelReturned>>

(* maybeCompact: into compacting and back within one round.                *)
Compact(e) ==
    /\ pc[e] = "think"
    /\ \E how \in Outcomes :
          /\ Write(e, how)
          /\ Move("compacting", how)
          /\ IF Moved("compacting", how)
             THEN Go(e, "compacted") /\ UNCHANGED result
             ELSE \E r \in {"failed", "cancelled"} : EndAs(e, "after", r)
    /\ UNCHANGED <<record, executing, sched, current, plan, prompts, convo, round, hand,
                   asks, cause, cancelReturned>>

Compacted(e) ==
    /\ pc[e] = "compacted"
    /\ \E to \in {"thinking", "failed"}, how \in Outcomes :
          /\ Write(e, how) /\ Move(to, how)
          /\ IF Moved(to, how) /\ to = "thinking"
             THEN Go(e, "act") /\ UNCHANGED result
             ELSE EndAs(e, "after", "failed")
    /\ UNCHANGED <<record, executing, sched, current, plan, prompts, convo, round, hand,
                   asks, cause, cancelReturned>>

(* observe: the calls are dispatched through the scheduler.                *)
BeginTools(e) ==
    /\ Answered(e)
    /\ \E how \in Outcomes :
          /\ Write(e, how)
          /\ Move("executing", how)
          /\ IF Moved("executing", how)
             THEN Go(e, "dispatch") /\ UNCHANGED result
             ELSE \E r \in {"failed", "cancelled"} : EndAs(e, "after", r)
    /\ UNCHANGED <<record, executing, sched, current, plan, prompts, convo, round, hand,
                   asks, cause, cancelReturned>>

(* dispatchOne looks at ctx, then SubmitWait hands the call over.  Before  *)
(* it the requests are logged, and after it the results.                   *)
Dispatch(e) ==
    /\ pc[e] = "dispatch"
    /\ \/ Go(e, IF e \in dead THEN "round" ELSE "submitted") /\ UNCHANGED result
       \/ e \in dead /\ EndAs(e, "after", "failed")
    /\ UNCHANGED <<states, record, executing, sched, ctx, plan, prompts, convo, round,
                   hand, asks, cause, rpc, cancelReturned>>

(* The scheduler starts the call only while the run is not marked.         *)
ToolStarts(e) ==
    /\ pc[e] = "submitted"
    /\ ~marked
    /\ Go(e, "starting")
    /\ UNCHANGED <<states, record, executing, sched, ctx, plan, prompts, convo, round,
                   result, hand, asks, cause, rpc, cancelReturned>>

ToolRefused(e) ==
    /\ pc[e] = "submitted"
    /\ marked \/ e \in dead
    /\ Go(e, "round")
    /\ UNCHANGED <<states, record, executing, sched, ctx, plan, prompts, convo, round,
                   result, hand, asks, cause, rpc, cancelReturned>>

(* markToolStarted records the start, with the state "executing", under a  *)
(* context that only CancelRun cancels; the tool runs once it is recorded. *)
ToolRuns(e) ==
    /\ pc[e] = "starting"
    /\ IF marked
       THEN Go(e, "round") /\ UNCHANGED states
       ELSE Go(e, "tool") /\ Stamp("executing", "done")
    /\ UNCHANGED <<record, executing, sched, ctx, plan, prompts, convo, round, result,
                   hand, asks, cause, rpc, cancelReturned>>

(* SubmitWait stops waiting with its context, not so the task.             *)
ToolLeft(e) ==
    /\ pc[e] \in {"starting", "tool"}
    /\ e \in dead
    /\ late' = (late \/ pc[e] = "starting")
    /\ Go(e, "round")
    /\ UNCHANGED <<states, record, executing, marked, ctx, plan, prompts, convo, round,
                   result, hand, asks, cause, rpc, cancelReturned>>

LateToolRuns ==
    /\ late
    /\ late' = FALSE
    /\ Stamp("executing", IF marked THEN "lost" ELSE "done")
    /\ UNCHANGED <<record, executing, marked, ctx, plan, prompts, convo, exec, rpc,
                   cancelReturned>>

(* When every todo is done the run wraps up.                               *)
ToolEnds(e) ==
    /\ pc[e] = "tool"
    /\ \/ \E at \in {"round", "wrap"} : Go(e, at) /\ UNCHANGED result
       \/ e \in dead /\ EndAs(e, "after", "failed")
    /\ UNCHANGED <<states, record, executing, sched, ctx, plan, prompts, convo, round,
                   hand, asks, cause, rpc, cancelReturned>>

(* The permission layer wants the user's word for some of the calls, which *)
(* come with fresh IDs; a call the conversation has an answer for, under   *)
(* its ID or its tool's name, does not park the run.                       *)
NeedsPermission(e) ==
    /\ pc[e] = "tool"
    /\ \E S \in SUBSET (Calls \ issued) \ {{}} :
          /\ issued' = issued \cup S
          /\ LET parked == {c \in S : folded \cap {c, AnyCall} = {}} IN
             /\ asks' = [asks EXCEPT ![e] = parked]
             /\ Go(e, IF parked = {} THEN "round" ELSE "park_calls")
    /\ UNCHANGED <<states, record, executing, sched, ctx, plan, prompts, folded, round,
                   result, hand, cause, rpc, cancelReturned>>

ParkCalls(e) ==
    /\ pc[e] = "park_calls"
    /\ \E how \in Outcomes :
          /\ Write(e, how)
          /\ Move("waiting_user", how)
          /\ IF Moved("waiting_user", how)
             THEN Go(e, "ask") /\ UNCHANGED result
             ELSE \E r \in {"failed", "cancelled"} : EndAs(e, "after", r)
    /\ UNCHANGED <<record, executing, sched, current, plan, prompts, convo, round, hand,
                   asks, cause, cancelReturned>>

(* The run is parked already when the prompts are emitted.                 *)
Ask(e) ==
    /\ pc[e] = "ask"
    /\ \E how \in Outcomes :
          /\ Write(e, how)
          /\ asked' = IF how = "lost" THEN asked ELSE asked \cup asks[e]
          /\ EndAs(e, "after", IF how = "done" THEN "calls" ELSE "failed")
    /\ UNCHANGED <<states, record, executing, sched, current, plan, waiting, answers, convo,
                   round, hand, asks, cause, cancelReturned>>

(* What the loop's end leaves on the record for the user to answer.        *)
KeepPrompts(e) ==
    /\ pc[e] = "after"
    /\ waiting' = IF result[e] = "calls" THEN asks[e] ELSE {}
    /\ Go(e, IF result[e] = "plan" THEN "keep_plan" ELSE "finish")
    /\ UNCHANGED <<states, record, executing, sched, ctx, plan, answers, asked, convo,
                   round, result, hand, asks, cause, rpc, cancelReturned>>

KeepPlan(e) ==
    /\ pc[e] = "keep_plan"
    /\ planPending' = TRUE
    /\ Go(e, "finish")
    /\ UNCHANGED <<states, record, executing, sched, ctx, planDecision, planOpen, prompts,
                   convo, round, result, hand, asks, cause, rpc, cancelReturned>>

(* The state a loop's result asks finishRun to record.                     *)
Outcome(e) == IF result[e] \in {"plan", "calls"} THEN "waiting_user" ELSE result[e]

(* finishRun, first: the machine, unless it is closed already *)
Finish(e) ==
    /\ pc[e] = "finish"
    /\ IF held /\ Outcome(e) \in Final
       THEN Move(Outcome(e), Detached)
       ELSE UNCHANGED states
    /\ Go(e, "close")
    /\ UNCHANGED <<record, executing, sched, ctx, plan, prompts, convo, round, result,
                   hand, asks, cause, rpc, cancelReturned>>

FinishClose(e) ==
    /\ pc[e] = "close"
    /\ CloseRun(Outcome(e))
    /\ Go(e, "record")
    /\ UNCHANGED <<record, executing, ctx, plan, prompts, convo, round, result, hand,
                   asks, cause, rpc, cancelReturned>>

(* Mutant: the outcome stays off the engine's record. *)
FinishRecord_Forgets(e) ==
    /\ pc[e] = "record"
    /\ Go(e, "release")
    /\ UNCHANGED <<states, record, executing, sched, ctx, plan, prompts, convo, round,
                   result, hand, asks, cause, rpc, cancelReturned>>

FinishRecord(e) ==
    /\ pc[e] = "record"
    /\ recorded' = Outcome(e)
    /\ Go(e, "release")
    /\ UNCHANGED <<states, inMap, held, executing, sched, ctx, plan, prompts, convo,
                   round, result, hand, asks, cause, rpc, cancelReturned>>

FinishRelease(e) ==
    /\ pc[e] = "release"
    /\ IF Outcome(e) \in Final
       THEN /\ held' = FALSE /\ inMap' = FALSE
            /\ waiting' = {} /\ answers' = {}
       ELSE UNCHANGED <<held, inMap, waiting, answers>>
    /\ Go(e, "exit")
    /\ UNCHANGED <<states, recorded, executing, sched, ctx, plan, asked, convo, round,
                   result, hand, asks, cause, rpc, cancelReturned>>

(* The goroutine ends, and its local variables with it.                    *)
Exit(e) ==
    /\ pc[e] = "exit"
    /\ executing' = FALSE
    /\ Go(e, "gone")
    /\ round' = [round EXCEPT ![e] = 0]
    /\ asks' = [asks EXCEPT ![e] = {}]
    /\ result' = [result EXCEPT ![e] = "none"] /\ cause' = [cause EXCEPT ![e] = "none"]
    /\ UNCHANGED <<states, record, sched, ctx, plan, prompts, convo, hand, rpc,
                   cancelReturned>>

(* The deadline of the execution's context, MaxRunDuration.                *)
Expire(e) ==
    /\ e \in Deadlines
    /\ pc[e] \notin {"none", "start", "gone"}
    /\ e \notin dead
    /\ dead' = dead \cup {e} /\ disturbed' = TRUE
    /\ UNCHANGED <<states, record, executing, sched, current, plan, prompts, convo, exec,
                   rpc, cancelReturned>>

RunStep(e) ==
    \/ Start(e) \/ Begin(e) \/ TakePlanDecision(e) \/ TakeAnswers(e) \/ CheckContext(e)
    \/ LoopEnds(e) \/ Propose(e) \/ ParkPlan(e) \/ BeginRound(e) \/ Announce(e)
    \/ ThinkEnds(e) \/ ThinkCancelled(e) \/ ThinkAgain(e) \/ WrapUp(e) \/ LastWords(e)
    \/ Compact(e) \/ Compacted(e) \/ BeginTools(e) \/ Dispatch(e) \/ ToolStarts(e)
    \/ ToolRefused(e) \/ ToolRuns(e) \/ ToolLeft(e) \/ ToolEnds(e)
    \/ NeedsPermission(e) \/ ParkCalls(e) \/ Ask(e) \/ KeepPrompts(e) \/ KeepPlan(e)
    \/ Finish(e) \/ FinishClose(e) \/ FinishRecord(e) \/ FinishRelease(e) \/ Exit(e)

-----------------------------------------------------------------------------
(* The RPCs.  A caller is a record: where it is (at), the request and its  *)
(* arguments.                                                              *)

Submitted == pc[1] # "none"
Return(c) == rpc' = [rpc EXCEPT ![c] = Idle]

(* liveRun refuses a run that is no longer in memory, and Cancel one whose *)
(* record says it ended.                                                   *)
CancelBegin(c) ==
    /\ Submitted /\ At(c, "idle") /\ "cancel" \in Requests
    /\ inMap /\ recorded \notin Final
    /\ rpc' = [rpc EXCEPT ![c] = [at |-> "mark", op |-> "cancel"]]
    /\ disturbed' = TRUE
    /\ UNCHANGED <<states, record, executing, sched, current, dead, plan, prompts, convo, exec,
                   cancelReturned>>

CancelMark(c) ==
    /\ At(c, "mark")
    /\ marked' = TRUE
    /\ To(c, "stop")
    /\ UNCHANGED <<states, record, executing, late, ctx, plan, prompts, convo, exec,
                   cancelReturned>>

CancelContext(c) ==
    /\ At(c, "stop")
    /\ dead' = dead \cup {current}
    /\ To(c, "move")
    /\ UNCHANGED <<states, record, executing, sched, current, disturbed, plan, prompts, convo,
                   exec, cancelReturned>>

(* rec.machine is read without a lock: nil once finishRun released it.     *)
CancelMove(c) ==
    /\ At(c, "move")
    /\ IF held
       THEN /\ Move("cancelled", "done")
            /\ IF machine \in Final
               THEN Return(c) /\ cancelReturned' = TRUE
               ELSE /\ IF CanMove(actor, "cancelled") THEN To(c, "close") ELSE Return(c)
                    /\ UNCHANGED cancelReturned
       ELSE To(c, "panic") /\ UNCHANGED <<states, cancelReturned>>
    /\ UNCHANGED <<record, executing, sched, ctx, plan, prompts, convo, exec>>

CancelClose(c) ==
    /\ At(c, "close")
    /\ CloseRun("cancelled")
    /\ cancelReturned' = TRUE
    /\ Return(c)
    /\ UNCHANGED <<record, executing, ctx, plan, prompts, convo, exec>>

(* The IPC server recovers the panic of a handler and answers with it.     *)
Recovered(c) ==
    /\ At(c, "panic")
    /\ Return(c)
    /\ UNCHANGED <<states, record, executing, sched, ctx, plan, prompts, convo, exec,
                   cancelReturned>>

ResumeBegin(c) ==
    /\ Submitted /\ At(c, "idle") /\ "resume" \in Requests
    /\ rpc' = [rpc EXCEPT ![c] = [at |-> "resume", op |-> "resume"]]
    /\ UNCHANGED <<states, record, executing, sched, ctx, plan, prompts, convo, exec,
                   cancelReturned>>

(* Where a request goes whose Resume fails: ConfirmPlan and Decide put the *)
(* park back.                                                              *)
Refuse(c) == IF rpc[c].op = "resume" THEN Return(c) ELSE To(c, "undo")

(* Resume asks the actor, not the engine's copy.                           *)
ResumeLook(c) ==
    /\ At(c, "resume")
    /\ IF inMap /\ actor \in {"waiting_user", "recovering"} THEN To(c, "claim")
                                                            ELSE Refuse(c)
    /\ UNCHANGED <<states, record, executing, sched, ctx, plan, prompts, convo, exec,
                   cancelReturned>>

Started == {e \in Execs : pc[e] # "none"}
NextExec == Cardinality(Started) + 1

(* Mutant: the claim is taken without looking. *)
ResumeClaim_Blind(c) ==
    /\ At(c, "claim")
    /\ NextExec \in Execs
    /\ executing' = TRUE
    /\ To(c, "thinking")
    /\ UNCHANGED <<states, record, sched, ctx, plan, prompts, convo, exec, cancelReturned>>

ResumeClaim(c) ==
    /\ At(c, "claim")
    /\ IF executing THEN Refuse(c) /\ UNCHANGED executing
       ELSE /\ NextExec \in Execs           \* bound
            /\ executing' = TRUE
            /\ To(c, "thinking")
    /\ UNCHANGED <<states, record, sched, ctx, plan, prompts, convo, exec, cancelReturned>>

ResumeMove(c) ==
    /\ At(c, "thinking")
    /\ IF held
       THEN /\ Move("thinking", "done")
            /\ IF Moved("thinking", "done")
               THEN To(c, "unmark") /\ UNCHANGED executing
               ELSE Refuse(c) /\ executing' = FALSE
       ELSE To(c, "panic") /\ UNCHANGED <<states, executing>>
    /\ UNCHANGED <<record, sched, ctx, plan, prompts, convo, exec, cancelReturned>>

ResumeUnmark(c) ==
    /\ At(c, "unmark")
    /\ marked' = FALSE
    /\ To(c, "spawn")
    /\ UNCHANGED <<states, record, executing, late, ctx, plan, prompts, convo, exec,
                   cancelReturned>>

(* Mutant: the new context's cancel function is not kept. *)
ResumeSpawn_OldCancel(c) ==
    /\ At(c, "spawn")
    /\ recorded' = "thinking"
    /\ pc' = [pc EXCEPT ![NextExec] = "start"]
    /\ cause' = [cause EXCEPT ![NextExec] = rpc[c].op]
    /\ Return(c)
    /\ UNCHANGED <<states, inMap, held, executing, sched, ctx, plan, prompts, convo, round,
                   result, hand, asks, cancelReturned>>

(* The old context is cancelled and replaced, and the goroutine starts.    *)
ResumeSpawn(c) ==
    /\ At(c, "spawn")
    /\ dead' = dead \cup {current}
    /\ current' = NextExec
    /\ recorded' = "thinking"
    /\ pc' = [pc EXCEPT ![NextExec] = "start"]
    /\ cause' = [cause EXCEPT ![NextExec] = rpc[c].op]
    /\ Return(c)
    /\ UNCHANGED <<states, inMap, held, executing, sched, disturbed, plan, prompts, convo,
                   round, result, hand, asks, cancelReturned>>

(* ConfirmPlan: yes confirms the plan, no asks for another.                *)
ConfirmBegin(c) ==
    /\ Submitted /\ At(c, "idle") /\ "confirm" \in Requests
    /\ inMap
    /\ \E op \in {"approved", "rejected"} :
          rpc' = [rpc EXCEPT ![c] = [at |-> "pending", op |-> op]]
    /\ UNCHANGED <<states, record, executing, sched, ctx, plan, prompts, convo, exec,
                   cancelReturned>>

(* A proposal that memory does not hold may still be the newest plan event *)
(* of the log.                                                             *)
ConfirmPending(c) ==
    /\ At(c, "pending")
    /\ IF planPending THEN To(c, "decide")
       ELSE IF planOpen THEN To(c, "restore") ELSE Return(c)
    /\ UNCHANGED <<states, record, executing, sched, ctx, plan, prompts, convo, exec,
                   cancelReturned>>

ConfirmRestore(c) ==
    /\ At(c, "restore")
    /\ planPending' = TRUE
    /\ To(c, "decide")
    /\ UNCHANGED <<states, record, executing, sched, ctx, planDecision, planOpen, prompts,
                   convo, exec, cancelReturned>>

ConfirmDecide(c) ==
    /\ At(c, "decide")
    /\ planDecision' = rpc[c].op
    /\ planPending' = FALSE
    /\ To(c, "log_decision")
    /\ UNCHANGED <<states, record, executing, sched, ctx, planOpen, prompts, convo, exec,
                   cancelReturned>>

ConfirmRecord(c) ==
    /\ At(c, "log_decision")
    /\ planOpen' = FALSE
    /\ To(c, "resume")
    /\ UNCHANGED <<states, record, executing, sched, ctx, planPending, planDecision,
                   prompts, convo, exec, cancelReturned>>

(* Mutant: the proposal is not put back. *)
ConfirmUndo_Partly(c) ==
    /\ At(c, "undo") /\ rpc[c].op \in {"approved", "rejected"}
    /\ planDecision' = "none"
    /\ Return(c)
    /\ UNCHANGED <<states, record, executing, sched, ctx, planPending, planOpen, prompts,
                   convo, exec, cancelReturned>>

ConfirmUndo(c) ==
    /\ At(c, "undo") /\ rpc[c].op \in {"approved", "rejected"}
    /\ planDecision' = "none"
    /\ planPending' = TRUE
    /\ Return(c)
    /\ UNCHANGED <<states, record, executing, sched, ctx, planOpen, prompts, convo, exec,
                   cancelReturned>>

-----------------------------------------------------------------------------
(* Decide.  The record's cached state is asked first, then the actor.      *)
DecideBegin(c) ==
    /\ Submitted /\ At(c, "idle") /\ "decide" \in Requests
    /\ inMap
    /\ "waiting_user" \in {recorded, actor}
    /\ \E call \in Calls, op \in {"allow", "deny"} :
          rpc' = [rpc EXCEPT ![c] = [at |-> "count", op |-> op, call |-> call, found |-> {}]]
    /\ UNCHANGED <<states, record, executing, sched, ctx, plan, prompts, convo, exec,
                   cancelReturned>>

(* pendingToolCallsFromLog, when memory holds no prompt *)
DecideCount(c) ==
    /\ At(c, "count")
    /\ rpc' = [rpc EXCEPT ![c].at = IF waiting = {} THEN "merge" ELSE "take_call",
                          ![c].found = IF waiting = {} THEN asked ELSE {}]
    /\ UNCHANGED <<states, record, executing, sched, ctx, plan, prompts, convo, exec,
                   cancelReturned>>

DecideMerge(c) ==
    /\ At(c, "merge")
    /\ waiting' = waiting \cup rpc[c].found
    /\ To(c, "take_call")
    /\ UNCHANGED <<states, record, executing, sched, ctx, plan, answers, asked, convo,
                   exec, cancelReturned>>

(* claimToolCall *)
DecideClaim(c) ==
    /\ At(c, "take_call")
    /\ IF rpc[c].call \in waiting
       THEN waiting' = waiting \ {rpc[c].call} /\ To(c, "answer")
       ELSE UNCHANGED waiting /\ Return(c)
    /\ UNCHANGED <<states, record, executing, sched, ctx, plan, answers, asked, convo,
                   exec, cancelReturned>>

DecideAnswer(c) ==
    /\ At(c, "answer")
    /\ answers' = answers \cup {rpc[c].call, AnyCall}
    /\ To(c, "note")
    /\ UNCHANGED <<states, record, executing, sched, ctx, plan, waiting, asked, convo,
                   exec, cancelReturned>>

(* Only a refusal resolves the call in the log.                            *)
DecideNote(c) ==
    /\ At(c, "note")
    /\ asked' = IF rpc[c].op = "deny" THEN asked \ {rpc[c].call} ELSE asked
    /\ To(c, "resume")
    /\ UNCHANGED <<states, record, executing, sched, ctx, plan, waiting, answers, convo,
                   exec, cancelReturned>>

(* Mutant: the prompt is not put back. *)
DecideUndo_Partly(c) ==
    /\ At(c, "undo") /\ rpc[c].op \in {"allow", "deny"}
    /\ answers' = answers \ {rpc[c].call, AnyCall}
    /\ Return(c)
    /\ UNCHANGED <<states, record, executing, sched, ctx, plan, waiting, asked, convo, exec,
                   cancelReturned>>

(* rollbackToolDecision *)
DecideUndo(c) ==
    /\ At(c, "undo") /\ rpc[c].op \in {"allow", "deny"}
    /\ answers' = answers \ {rpc[c].call, AnyCall}
    /\ waiting' = waiting \cup {rpc[c].call}
    /\ Return(c)
    /\ UNCHANGED <<states, record, executing, sched, ctx, plan, asked, convo, exec,
                   cancelReturned>>

-----------------------------------------------------------------------------
Begins(c) == CancelBegin(c) \/ ResumeBegin(c) \/ ConfirmBegin(c) \/ DecideBegin(c)

CancelStep(c) ==
    CancelMark(c) \/ CancelContext(c) \/ CancelMove(c) \/ CancelClose(c) \/ Recovered(c)
ResumeStep(c) ==
    ResumeLook(c) \/ ResumeClaim(c) \/ ResumeMove(c) \/ ResumeUnmark(c) \/ ResumeSpawn(c)
ConfirmStep(c) ==
    \/ ConfirmPending(c) \/ ConfirmRestore(c) \/ ConfirmDecide(c) \/ ConfirmRecord(c)
    \/ ConfirmUndo(c)
DecideStep(c) ==
    \/ DecideCount(c) \/ DecideMerge(c) \/ DecideClaim(c) \/ DecideAnswer(c)
    \/ DecideNote(c) \/ DecideUndo(c)

RpcStep(c) == CancelStep(c) \/ ResumeStep(c) \/ ConfirmStep(c) \/ DecideStep(c)

Next ==
    \/ Submit
    \/ \E e \in Execs : RunStep(e) \/ Expire(e)
    \/ LateToolRuns
    \/ \E c \in Callers : Begins(c) \/ RpcStep(c)

(* Every goroutine that has started a call goes on with it; nobody has to  *)
(* make a call.                                                            *)
Fairness ==
    /\ \A e \in Execs : WF_vars(RunStep(e))
    /\ \A c \in Callers : WF_vars(RpcStep(c))

Spec == Init /\ [][Next]_vars /\ Fairness
=============================================================================
