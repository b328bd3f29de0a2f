---------------------------- MODULE ToolCallsProofs ----------------------------
(* Proofs about ToolCalls, for any number of calls, executions, crashes and   *)
(* recovery passes, as long as a call is not dispatched while an execution of *)
(* it goes on (~Overlap).                                                     *)
(*                                                                            *)
(* The argument.  A call then has one execution at a time, so nobody but that *)
(* execution writes the record of its key: between its claim and its end the  *)
(* record is inflight.  A call of class C is claimed only where no claim was  *)
(* ever made, and then it has had no effect.  The started event precedes all  *)
(* of this in the log, which never shrinks.  A pass that meets no running     *)
(* loop reads a log that stands still, so the list it makes stays right.      *)
(* Of class B, whose check may overlook an effect, only the order of claim,   *)
(* commit and started event is used.                                          *)
EXTENDS ToolCallsProperties, TLAPS

OneUnder == \A x, y \in Executions :
    Under(x) /\ Under(y) /\ exec[x].call = exec[y].call => x = y

(* The record of a call, seen by the execution that works on it.              *)
Claimed(e) ==
    /\ exec[e].pc \in {"recover", "reserve", "run", "commit", "cleanup"} =>
         ledger[exec[e].call] = "inflight"
    /\ exec[e].pc = "claim" => ledger[exec[e].call] \notin Settled

(* What has not happened yet when an execution is where it is.                *)
NotYet(e) ==
    exec[e].pc \in {"claim", "reserve", "run"} /\ exec[e].call \in Unsafe =>
        effects[exec[e].call] = 0

Marked(e) == Under(e) /\ exec[e].pc # "mark" => "started" \in seen[exec[e].call]

ExecOK(e) ==
    /\ exec[e].pc \notin {"none", "over"} => exec[e].call \in Calls
    /\ Claimed(e) /\ NotYet(e) /\ Marked(e)

(* The ledger and the log against what has happened.                          *)
CallOK(c) ==
    /\ c \in Unsafe /\ ledger[c] \in {"none", "failed"} => effects[c] = 0
    /\ effects[c] > 0 => "started" \in seen[c]

ToolsInv ==
    /\ TypeOK
    /\ OneUnder
    /\ \A e \in Executions : ExecOK(e)
    /\ \A c \in Calls : CallOK(c)
    /\ UnsafeOnce
    /\ pass.pc = "inspect" => pass.replayable = {}

-----------------------------------------------------------------------------
LEMMA ToolsInit == Init => ToolsInv
  <1> SUFFICES ASSUME Init PROVE ToolsInv
    OBVIOUS
  <1>1. TypeOK
    BY CallsAssumption DEF Init, TypeOK, NoRun, NoExec, NoPass
  <1>2. OneUnder
    BY DEF Init, NoExec, OneUnder, Under
  <1>3. \A e \in Executions : ExecOK(e)
    BY DEF Init, NoExec, ExecOK, Claimed, NotYet, Marked, Under
  <1>4. (\A c \in Calls : CallOK(c)) /\ UnsafeOnce
    BY CallsAssumption DEF Init, CallOK, UnsafeOnce, Unsafe
  <1>5. pass.pc # "inspect"
    BY DEF Init, NoPass
  <1> QED
    BY <1>1, <1>2, <1>3, <1>4, <1>5 DEF ToolsInv

(* What only speaks of the run, of a recovery pass or of an age leaves the    *)
(* executions, the records and the effects alone.                             *)
Outside ==
    /\ UNCHANGED <<ledger, exec, effects>>
    /\ \A c \in Calls : seen[c] \subseteq seen'[c]
    /\ pass'.pc = "inspect" => pass'.replayable = {}

LEMMA OutsideKeeps ==
  ASSUME ToolsInv, Outside, TypeOK'
  PROVE  ToolsInv'
  <1>1. OneUnder' /\ UnsafeOnce'
    BY DEF ToolsInv, Outside, OneUnder, Under, UnsafeOnce
  <1>2. ASSUME NEW e \in Executions PROVE ExecOK(e)'
    BY DEF ToolsInv, Outside, ExecOK, Claimed, NotYet, Marked, Under
  <1>3. ASSUME NEW c \in Calls PROVE CallOK(c)'
    BY DEF ToolsInv, Outside, CallOK
  <1> QED
    BY <1>1, <1>2, <1>3 DEF ToolsInv, Outside

(* A step of an execution writes nothing but its own call's record, effects   *)
(* and events; since it is alone with them, the others have nothing to show.  *)
OwnStep(e, c) ==
    /\ \A x \in Executions \ {e} : exec'[x] = exec[x]
    /\ exec'[e].call = c \/ ~Under(e)'
    /\ \A d \in Calls \ {c} : ledger'[d] = ledger[d] /\ effects'[d] = effects[d]
    /\ \A d \in Calls : seen[d] \subseteq seen'[d]
    /\ UNCHANGED pass

LEMMA OwnStepKeeps ==
  ASSUME ToolsInv, TypeOK', NEW e \in Executions, NEW c \in Calls,
         Under(e), exec[e].call = c, OwnStep(e, c),
         ExecOK(e)', CallOK(c)', c \in Unsafe => effects'[c] <= 1
  PROVE  ToolsInv'
  <1>1. ASSUME NEW x \in Executions \ {e}, Under(x) PROVE exec[x].call # c
    BY <1>1 DEF ToolsInv, OneUnder
  <1>2. OneUnder'
    BY DEF ToolsInv, OwnStep, OneUnder, Under
  <1>3. ASSUME NEW x \in Executions PROVE ExecOK(x)'
    <2>1. CASE x = e
      BY <2>1
    <2>2. CASE x # e
      <3>1. exec'[x] = exec[x] /\ ExecOK(x)
        BY <2>2 DEF ToolsInv, OwnStep
      <3>2. CASE Under(x)
        <4>1. exec[x].call \in Calls \ {c}
          BY <1>1, <2>2, <3>1, <3>2 DEF ExecOK, Under
        <4> QED
          BY <3>1, <4>1 DEF OwnStep, ExecOK, Claimed, NotYet, Marked, Under
      <3>3. CASE ~Under(x)
        BY <3>1, <3>3 DEF ExecOK, Claimed, NotYet, Marked, Under
      <3> QED
        BY <3>2, <3>3
    <2> QED
      BY <2>1, <2>2
  <1>4. ASSUME NEW d \in Calls PROVE CallOK(d)'
    BY DEF ToolsInv, OwnStep, CallOK
  <1>5. UnsafeOnce'
    BY CallsAssumption DEF ToolsInv, OwnStep, UnsafeOnce, Unsafe
  <1>6. pass'.pc = "inspect" => pass'.replayable = {}
    BY DEF ToolsInv, OwnStep
  <1> QED
    BY <1>2, <1>3, <1>4, <1>5, <1>6 DEF ToolsInv

-----------------------------------------------------------------------------
ExecRow == [pc : {"none", "mark", "get", "recover", "claim", "reserve", "run",
                  "commit", "cleanup", "outcome", "over"},
            call : Calls \cup {None}, waited : BOOLEAN, live : BOOLEAN]
RunRow == [state : {"none", "busy", "waiting", "done", "failed"}, loop : BOOLEAN,
           uncertain : SUBSET Calls, attempts : Nat]
PassRow == [pc : {"none", "inspect", "fail", "rehydrate", "park", "list"},
            decision : {"none", "fail", "confirm", "auto"},
            uncertain : SUBSET Calls, replayable : SUBSET Calls]

LEMMA GotoType ==
  ASSUME TypeOK, NEW e \in Executions, NEW pc \in {"get", "recover", "claim", "reserve",
         "run", "commit", "cleanup"}, Goto(e, pc)
  PROVE  exec' \in [Executions -> ExecRow]
  BY DEF TypeOK, ExecRow, Goto

LEMMA OverType ==
  ASSUME TypeOK, NEW e \in Executions, Over(e)
  PROVE  exec' \in [Executions -> ExecRow]
  <1>1. exec[e] \in ExecRow /\ exec \in [Executions -> ExecRow]
    BY DEF TypeOK, ExecRow
  <1>2. exec' = [exec EXCEPT ![e] = exec'[e]]
    BY <1>1 DEF Over
  <1>3. exec'[e] \in ExecRow
    BY <1>1 DEF Over, NoExec, ExecRow
  <1> QED
    BY <1>1, <1>2, <1>3

(* The actions of an execution keep the types.                                *)
LEMMA ExecuteType ==
  ASSUME TypeOK, NEW e \in Executions, exec[e].call \in Calls, Execute(e)
  PROVE  TypeOK'
  <1>1. ledger' \in [Calls -> {"none", "inflight", "done", "failed", "needs_confirmation"}]
    BY DEF TypeOK, Execute, GetRecord, RecoverInflight, Claim, Reserve, RunTool, Commit,
       Cleanup, Leave, AfterFailure
  <1>2. aged' \in [Calls -> BOOLEAN]
    BY DEF TypeOK, Execute, GetRecord, RecoverInflight, Claim, Reserve, RunTool, Commit,
       Cleanup, Leave
  <1>5. effects' \in [Calls -> Nat]
    BY DEF TypeOK, Execute, GetRecord, RecoverInflight, Claim, Reserve, RunTool, Commit,
       Cleanup
  <1>3. exec' \in [Executions -> ExecRow]
    BY GotoType, OverType DEF Execute, GetRecord, RecoverInflight, Claim, Reserve, RunTool,
       Commit, Cleanup, Leave
  <1>4. UNCHANGED <<state, seen, run, pass, approved, met>>
    BY DEF Execute, GetRecord, RecoverInflight, Claim, Reserve, RunTool, Commit, Cleanup
  <1> QED
    BY <1>1, <1>2, <1>3, <1>4, <1>5 DEF TypeOK, ExecRow

LEMMA TypeKept ==
  ASSUME ToolsInv, [Next]_vars
  PROVE  TypeOK'
  <1> USE DEF ToolsInv
  <1>1. CASE UNCHANGED vars
    BY <1>1 DEF TypeOK, vars
  <1>2. ASSUME NEW c \in Calls, Request(c) \/ Age(c) PROVE TypeOK'
    <2>1. CASE Request(c)
      BY <2>1 DEF TypeOK, Request, Log
    <2>2. CASE Age(c)
      BY <2>2 DEF TypeOK, Age
    <2> QED
      BY <1>2, <2>1, <2>2
  <1>3. ASSUME NEW e \in Executions, NEW c \in Calls, Dispatch(e, c) PROVE TypeOK'
    BY <1>3 DEF TypeOK, Dispatch, NoExec
  <1>4. ASSUME NEW e \in Executions, MarkStarted(e) PROVE TypeOK'
    <2>1. exec' \in [Executions -> ExecRow]
      BY <1>4, GotoType, OverType DEF MarkStarted, Unmarked
    <2>2. exec[e].call \in Calls
      BY <1>4 DEF MarkStarted, ExecOK
    <2> QED
      BY <1>4, <2>1, <2>2 DEF TypeOK, MarkStarted, Log, ExecRow
  <1>5. ASSUME NEW e \in Executions, Observe(e) \/ Abandon(e) \/ ContextEnds(e) PROVE TypeOK'
    <2>1. exec[e].call \in Calls
      BY <1>5 DEF Observe, Abandon, ContextEnds, Under, ExecOK
    <2>2. exec' \in [Executions -> ExecRow]
      <3>1. exec \in [Executions -> ExecRow] /\ exec[e] \in ExecRow
        BY DEF TypeOK, ExecRow
      <3>2. CASE Observe(e)
        <4>1. [NoExec EXCEPT !.pc = "over"] \in ExecRow
          BY DEF NoExec, ExecRow
        <4> QED
          BY <3>1, <3>2, <4>1 DEF Observe
      <3>3. CASE Abandon(e)
        <4>1. [exec[e] EXCEPT !.waited = FALSE] \in ExecRow
          BY <3>1 DEF ExecRow
        <4> QED
          BY <3>1, <3>3, <4>1 DEF Abandon
      <3>4. CASE ContextEnds(e)
        <4>1. [exec[e] EXCEPT !.live = FALSE] \in ExecRow
          BY <3>1 DEF ExecRow
        <4> QED
          BY <3>1, <3>4, <4>1 DEF ContextEnds
      <3> QED
        BY <1>5, <3>2, <3>3, <3>4
    <2>3. seen' \in [Calls -> SUBSET {"requested", "started", "result"}]
      BY <1>5, <2>1 DEF TypeOK, Observe, Abandon, ContextEnds, Log
    <2>4. UNCHANGED <<ledger, aged, state, run, pass, effects, approved, met>>
      BY <1>5 DEF Observe, Abandon, ContextEnds
    <2> QED
      BY <2>2, <2>3, <2>4 DEF TypeOK, ExecRow
  <1>6. ASSUME NEW e \in Executions, Execute(e) PROVE TypeOK'
    <2>1. exec[e].call \in Calls
      BY <1>6 DEF ExecOK, Execute, GetRecord, RecoverInflight, Claim, Reserve, RunTool,
         Commit, Cleanup
    <2> QED
      BY <1>6, <2>1, ExecuteType
  <1>7. CASE Finish \/ Recover \/ Resume \/ PassAgain
    <2>1. run \in RunRow /\ pass \in PassRow
      BY DEF TypeOK, RunRow, PassRow
    <2>2. pass' \in PassRow
      <3>1. CASE Finish \/ Resume
        BY <2>1, <3>1 DEF Finish, Resume
      <3>2. CASE PassAgain \/ InspectFails \/ MarkFailed
        <4>1. /\ NoPass \in PassRow /\ [NoPass EXCEPT !.pc = "inspect"] \in PassRow
              /\ [NoPass EXCEPT !.pc = "fail", !.decision = "fail"] \in PassRow
          BY DEF NoPass, PassRow
        <4> QED
          BY <3>2, <4>1 DEF PassAgain, InspectFails, MarkFailed
      <3>3. CASE Inspect
        BY <3>3 DEF Inspect, Incomplete, NoPass, PassRow
      <3>4. CASE Rehydrate
        BY <2>1, <3>4 DEF Rehydrate, PassRow
      <3>5. CASE Park \/ ParkRun
        BY <2>1, <3>5 DEF Park, ParkRun, NoPass, PassRow
      <3> QED
        BY <1>7, <3>1, <3>2, <3>3, <3>4, <3>5 DEF Recover
    <2>3. run' \in RunRow
      <3>1. CASE PassAgain \/ Inspect \/ InspectFails \/ MarkFailed
        BY <2>1, <3>1 DEF PassAgain, Inspect, InspectFails, MarkFailed
      <3>2. CASE Finish \/ Resume
        BY <2>1, <3>2 DEF Finish, Resume, RunRow
      <3>3. CASE Rehydrate
        <4>1. PICK s \in {"none", "busy", "waiting", "done", "failed"}, n \in Nat :
                run' = [run EXCEPT !.state = s, !.attempts = n]
          <5> DEFINE s == IF run.state = "none" THEN state ELSE run.state
                     n == IF pass.decision = "auto" THEN run.attempts + 1 ELSE run.attempts
          <5>1. s \in {"none", "busy", "waiting", "done", "failed"} /\ n \in Nat
            BY <2>1 DEF TypeOK, RunRow
          <5>2. run' = [run EXCEPT !.state = s, !.attempts = n]
            BY <3>3 DEF Rehydrate
          <5> QED
            BY <5>1, <5>2
        <4> QED
          BY <2>1, <4>1 DEF RunRow
      <3>4. CASE Park \/ ParkRun
        BY <2>1, <3>4 DEF Park, ParkRun, Listed, RunRow, PassRow
      <3> QED
        BY <1>7, <3>1, <3>2, <3>3, <3>4 DEF Recover
    <2>4. state' \in {"busy", "waiting", "done", "failed"} /\ met' \in BOOLEAN
      BY <1>7 DEF TypeOK, Finish, PassAgain, Resume, Recover, Inspect, InspectFails, MarkFailed,
         Rehydrate, Park, ParkRun
    <2>5. approved' \subseteq Calls
      BY <1>7, <2>1 DEF TypeOK, Finish, PassAgain, Resume, Recover, Inspect, InspectFails,
         MarkFailed, Rehydrate, Park, ParkRun, RunRow
    <2>6. UNCHANGED <<ledger, aged, seen, exec, effects>>
      BY <1>7 DEF Finish, PassAgain, Resume, Recover, Inspect, InspectFails, MarkFailed,
         Rehydrate, Park, ParkRun
    <2> QED
      BY <2>2, <2>3, <2>4, <2>5, <2>6 DEF TypeOK, RunRow, PassRow
  <1>8. CASE Crash
    BY <1>8 DEF TypeOK, Crash, NoRun, NoExec, NoPass
  <1> QED
    BY <1>1, <1>2, <1>3, <1>4, <1>5, <1>6, <1>7, <1>8 DEF Next

-----------------------------------------------------------------------------
(* What each action does to the invariant.                                    *)

LEMMA OutsideSteps ==
  ASSUME ToolsInv, TypeOK',
         \/ UNCHANGED vars \/ Finish \/ PassAgain \/ Recover \/ Resume
         \/ \E c \in Calls : Request(c) \/ Age(c)
  PROVE  ToolsInv'
  <1>1. CASE UNCHANGED vars
    BY <1>1, OutsideKeeps DEF vars, Outside, ToolsInv
  <1>2. CASE \E c \in Calls : Request(c) \/ Age(c)
    <2>1. PICK c \in Calls : Request(c) \/ Age(c)
      BY <1>2
    <2>2. \A d \in Calls : seen[d] \subseteq seen'[d]
      BY <2>1 DEF ToolsInv, TypeOK, Request, Age, Log
    <2> QED
      BY <2>1, <2>2, OutsideKeeps DEF Request, Age, Outside, ToolsInv
  <1>3. CASE Finish \/ PassAgain \/ Recover \/ Resume
    <2>1. UNCHANGED <<ledger, exec, effects, seen>>
      BY <1>3 DEF Finish, PassAgain, Resume, Recover, Inspect, InspectFails, MarkFailed,
         Rehydrate, Park, ParkRun
    <2>2. pass'.pc = "inspect" => pass'.replayable = {}
      <3>1. CASE Finish \/ Resume
        BY <3>1 DEF Finish, Resume, ToolsInv
      <3>2. CASE PassAgain \/ InspectFails \/ MarkFailed
        <4>1. /\ NoPass.pc = "none" /\ [NoPass EXCEPT !.pc = "inspect"].replayable = {}
              /\ [NoPass EXCEPT !.pc = "fail", !.decision = "fail"].pc = "fail"
          BY DEF NoPass
        <4> QED
          BY <3>2, <4>1 DEF PassAgain, InspectFails, MarkFailed
      <3>3. CASE Inspect
        BY <3>3 DEF Inspect, NoPass
      <3>4. CASE Rehydrate \/ Park \/ ParkRun
        BY <3>4 DEF ToolsInv, TypeOK, Rehydrate, Park, ParkRun, NoPass
      <3> QED
        BY <1>3, <3>1, <3>2, <3>3, <3>4 DEF Recover
    <2> QED
      BY <2>1, <2>2, OutsideKeeps DEF Outside
  <1> QED
    BY <1>1, <1>2, <1>3

LEMMA CrashKeeps ==
  ASSUME ToolsInv, TypeOK', Crash
  PROVE  ToolsInv'
  <1>1. \A e \in Executions : exec'[e].pc \in {"none", "over"}
    BY DEF Crash, NoExec
  <1>2. OneUnder' /\ \A e \in Executions : ExecOK(e)'
    BY <1>1 DEF OneUnder, Under, ExecOK, Claimed, NotYet, Marked
  <1>3. UnsafeOnce' /\ \A c \in Calls : CallOK(c)'
    BY DEF Crash, ToolsInv, UnsafeOnce, CallOK
  <1>4. pass'.replayable = {}
    BY DEF Crash, NoPass
  <1> QED
    BY <1>2, <1>3, <1>4 DEF ToolsInv

LEMMA DispatchKeeps ==
  ASSUME ~Overlap, ToolsInv, TypeOK', NEW e \in Executions, NEW c \in Calls, Dispatch(e, c)
  PROVE  ToolsInv'
  <1>1. exec \in [Executions -> ExecRow]
    BY DEF ToolsInv, TypeOK, ExecRow
  <1>2. /\ exec'[e].pc = "mark" /\ exec'[e].call = c
        /\ \A x \in Executions \ {e} : exec'[x] = exec[x]
    BY <1>1 DEF Dispatch, NoExec
  <1>3. UNCHANGED <<ledger, seen, effects, pass>>
    BY DEF Dispatch
  <1>4. OneUnder'
    BY <1>2 DEF ToolsInv, OneUnder, Dispatch, Under
  <1>5. ASSUME NEW x \in Executions PROVE ExecOK(x)'
    BY <1>2, <1>3 DEF ToolsInv, ExecOK, Claimed, NotYet, Marked, Under
  <1>6. UnsafeOnce' /\ (\A d \in Calls : CallOK(d)')
    BY <1>3 DEF ToolsInv, UnsafeOnce, CallOK
  <1> QED
    BY <1>3, <1>4, <1>5, <1>6 DEF ToolsInv

(* The outcome is observed when the execution is over.                        *)
LEMMA ObserveKeeps ==
  ASSUME ToolsInv, TypeOK', NEW e \in Executions, Observe(e)
  PROVE  ToolsInv'
  <1>1. exec \in [Executions -> ExecRow] /\ exec[e].call \in Calls
    BY DEF ToolsInv, TypeOK, ExecRow, Observe, ExecOK
  <1>2. exec'[e].pc = "over" /\ \A x \in Executions \ {e} : exec'[x] = exec[x]
    BY <1>1 DEF Observe, NoExec
  <1>3. UNCHANGED <<ledger, effects, pass>>
    BY DEF Observe
  <1>4. \A d \in Calls : seen[d] \subseteq seen'[d]
    BY <1>1 DEF ToolsInv, TypeOK, Observe, Log
  <1>5. OneUnder'
    BY <1>2 DEF ToolsInv, OneUnder, Under
  <1>6. ASSUME NEW x \in Executions PROVE ExecOK(x)'
    BY <1>2, <1>3, <1>4 DEF ToolsInv, ExecOK, Claimed, NotYet, Marked, Under
  <1>7. UnsafeOnce' /\ (\A d \in Calls : CallOK(d)')
    BY <1>3, <1>4 DEF ToolsInv, UnsafeOnce, CallOK
  <1> QED
    BY <1>3, <1>5, <1>6, <1>7 DEF ToolsInv

LEMMA LogGrows ==
  ASSUME TypeOK, NEW c \in Calls, NEW kind, Log(c, kind)
  PROVE  kind \in seen'[c] /\ \A d \in Calls : seen[d] \subseteq seen'[d]
  BY DEF TypeOK, Log

LEMMA GotoOnly ==
  ASSUME TypeOK, NEW e \in Executions, NEW pc, Goto(e, pc)
  PROVE  /\ exec'[e].pc = pc /\ exec'[e].call = exec[e].call
         /\ \A x \in Executions \ {e} : exec'[x] = exec[x]
  <1>1. exec \in [Executions -> ExecRow]
    BY DEF TypeOK, ExecRow
  <1> QED
    BY <1>1 DEF Goto, ExecRow

LEMMA OverOnly ==
  ASSUME TypeOK, NEW e \in Executions, Over(e)
  PROVE  /\ ~Under(e)' /\ (exec'[e].pc = "outcome" => exec'[e].call = exec[e].call)
         /\ exec'[e].pc \in {"outcome", "over"}
         /\ \A x \in Executions \ {e} : exec'[x] = exec[x]
  BY DEF TypeOK, Over, NoExec, Under

(* What an execution does before it claims its call, or without one.          *)
LEMMA CallerKeeps ==
  ASSUME ToolsInv, TypeOK', NEW e \in Executions,
         MarkStarted(e) \/ Abandon(e) \/ ContextEnds(e)
  PROVE  ToolsInv'
  <1>0. PICK c \in Calls : exec[e].call = c
    BY DEF ToolsInv, MarkStarted, Abandon, ContextEnds, Under, ExecOK
  <1>1. TypeOK /\ ExecOK(e) /\ Under(e) /\ exec[e].call = c /\ CallOK(c)
    BY <1>0 DEF ToolsInv, MarkStarted, Abandon, ContextEnds, Under
  <1>2. UNCHANGED <<ledger, effects, pass>>
    BY DEF MarkStarted, Abandon, ContextEnds
  <1>3. c \in Unsafe => effects'[c] <= 1
    BY <1>2 DEF ToolsInv, UnsafeOnce
  <1>4. CASE MarkStarted(e)
    <2>1. CASE Log(c, "started") /\ Goto(e, "get")
      <3>1. OwnStep(e, c) /\ "started" \in seen'[c] /\ exec'[e].pc = "get" /\ exec'[e].call = c
        BY <1>1, <1>2, <2>1, LogGrows, GotoOnly DEF OwnStep
      <3>2. ExecOK(e)' /\ CallOK(c)'
        BY <1>1, <1>2, <3>1 DEF ExecOK, Claimed, NotYet, Marked, CallOK
      <3> QED
        BY <1>1, <1>3, <3>1, <3>2, OwnStepKeeps
    <2>2. CASE Over(e) /\ (UNCHANGED seen \/ Log(c, "started"))
      <3>1. \A d \in Calls : seen[d] \subseteq seen'[d]
        BY <1>1, <2>2, LogGrows
      <3>2. OwnStep(e, c)
        BY <1>1, <1>2, <2>2, <3>1, OverOnly DEF OwnStep
      <3>3. ExecOK(e)' /\ CallOK(c)'
        BY <1>1, <1>2, <2>2, <3>1, OverOnly DEF ExecOK, Claimed, NotYet, Marked, Under, CallOK
      <3> QED
        BY <1>1, <1>3, <3>2, <3>3, OwnStepKeeps
    <2> QED
      BY <1>1, <1>4, <2>1, <2>2 DEF MarkStarted, Unmarked
  <1>5. CASE Abandon(e) \/ ContextEnds(e)
    <2>1. /\ exec'[e].pc = exec[e].pc /\ exec'[e].call = c
          /\ \A x \in Executions \ {e} : exec'[x] = exec[x]
      BY <1>1, <1>5 DEF TypeOK, Abandon, ContextEnds
    <2>2. \A d \in Calls : seen[d] \subseteq seen'[d]
      BY <1>1, <1>5, LogGrows DEF Abandon, ContextEnds
    <2>3. ExecOK(e)' /\ CallOK(c)'
      BY <1>1, <1>2, <2>1, <2>2 DEF ExecOK, Claimed, NotYet, Marked, Under, CallOK
    <2> QED
      BY <1>1, <1>2, <1>3, <2>1, <2>2, <2>3, OwnStepKeeps DEF OwnStep
  <1> QED
    BY <1>4, <1>5

(* An execution that ends, or goes on, without touching the effects.          *)
LEMMA EndKeeps ==
  ASSUME ToolsInv, TypeOK', NEW e \in Executions, NEW c \in Calls,
         Under(e), exec[e].call = c, Over(e), UNCHANGED <<seen, effects, pass>>,
         \A d \in Calls \ {c} : ledger'[d] = ledger[d], CallOK(c)'
  PROVE  ToolsInv'
  <1>1. OwnStep(e, c)
    BY OverOnly DEF ToolsInv, OwnStep
  <1>2. ExecOK(e)'
    BY OverOnly DEF ToolsInv, ExecOK, Claimed, NotYet, Marked, Under
  <1>3. c \in Unsafe => effects'[c] <= 1
    BY DEF ToolsInv, UnsafeOnce
  <1> QED
    BY <1>1, <1>2, <1>3, OwnStepKeeps

LEMMA GoOnKeeps ==
  ASSUME ToolsInv, TypeOK', NEW e \in Executions, NEW c \in Calls,
         Under(e), exec[e].call = c, exec[e].pc # "mark",
         NEW pc \in {"recover", "claim", "reserve", "run", "commit", "cleanup"},
         Goto(e, pc), UNCHANGED <<seen, effects, pass>>,
         \A d \in Calls \ {c} : ledger'[d] = ledger[d],
         CallOK(c)', Claimed(e)', NotYet(e)'
  PROVE  ToolsInv'
  <1>1. OwnStep(e, c)
    BY GotoOnly DEF ToolsInv, OwnStep
  <1>2. ExecOK(e)'
    BY GotoOnly DEF ToolsInv, ExecOK, Marked, Under
  <1>3. c \in Unsafe => effects'[c] <= 1
    BY DEF ToolsInv, UnsafeOnce
  <1> QED
    BY <1>1, <1>2, <1>3, OwnStepKeeps

(* Execute, statement by statement.                                           *)
LEMMA ExecuteKeeps ==
  ASSUME ToolsInv, TypeOK', NEW e \in Executions, Execute(e)
  PROVE  ToolsInv'
  <1>0. PICK c \in Calls : exec[e].call = c
    BY DEF ToolsInv, ExecOK, Execute, GetRecord, RecoverInflight, Claim, Reserve, RunTool,
       Commit, Cleanup
  <1>1. /\ TypeOK /\ Claimed(e) /\ NotYet(e) /\ Marked(e) /\ exec[e].call = c /\ CallOK(c)
        /\ Under(e) /\ exec[e].pc # "mark" /\ "started" \in seen[c]
    BY <1>0 DEF ToolsInv, ExecOK, Marked, Under, Execute, GetRecord, RecoverInflight, Claim,
       Reserve, RunTool, Commit, Cleanup
  <1>2. UNCHANGED <<seen, pass>>
    BY DEF Execute, GetRecord, RecoverInflight, Claim, Reserve, RunTool, Commit, Cleanup
  <1>3. \A d \in Calls \ {c} : ledger'[d] = ledger[d]
    BY <1>1 DEF TypeOK, Execute, GetRecord, RecoverInflight, Claim, Reserve, RunTool, Commit,
       Cleanup, Leave
  <1>4. CASE Over(e) /\ UNCHANGED <<ledger, effects>>
    BY <1>1, <1>2, <1>3, <1>4, EndKeeps DEF CallOK
  <1>5. CASE GetRecord(e)
    <2>1. CASE ledger[c] \notin Settled \cup {"inflight"} /\ Goto(e, "claim")
                 /\ UNCHANGED <<ledger, effects>>
      <3>1. exec'[e].pc = "claim" /\ exec'[e].call = c
        BY <1>1, <2>1, GotoOnly
      <3>2. ledger[c] \in {"none", "failed"}
        BY <1>1, <2>1 DEF TypeOK, Settled
      <3>3. Claimed(e)' /\ NotYet(e)' /\ CallOK(c)'
        BY <1>1, <1>2, <2>1, <3>1, <3>2 DEF Claimed, NotYet, CallOK, Settled
      <3> QED
        BY <1>1, <1>2, <1>3, <2>1, <3>3, GoOnKeeps
    <2>2. CASE ledger[c] = "inflight" /\ Goto(e, "recover") /\ UNCHANGED <<ledger, effects>>
      <3>1. exec'[e].pc = "recover" /\ exec'[e].call = c
        BY <1>1, <2>2, GotoOnly
      <3>2. Claimed(e)' /\ NotYet(e)' /\ CallOK(c)'
        BY <1>1, <1>2, <2>2, <3>1 DEF Claimed, NotYet, CallOK
      <3> QED
        BY <1>1, <1>2, <1>3, <2>2, <3>2, GoOnKeeps
    <2> QED
      BY <1>1, <1>4, <1>5, <2>1, <2>2 DEF GetRecord, Leave
  <1>6. CASE RecoverInflight(e)
    <2>0. ledger[c] = "inflight" /\ UNCHANGED effects
      BY <1>1, <1>6 DEF RecoverInflight, Claimed
    <2>1. CASE c \in Unsafe /\ ledger' = [ledger EXCEPT ![c] = "needs_confirmation"] /\ Over(e)
      <3>1. CallOK(c)'
        BY <1>1, <1>2, <2>0, <2>1 DEF TypeOK, CallOK
      <3> QED
        BY <1>1, <1>2, <1>3, <2>0, <2>1, <3>1, EndKeeps
    <2>2. CASE c \notin Unsafe /\ Goto(e, "claim") /\ UNCHANGED ledger
      <3>1. exec'[e].pc = "claim" /\ exec'[e].call = c
        BY <1>1, <2>2, GotoOnly
      <3>2. Claimed(e)' /\ NotYet(e)' /\ CallOK(c)'
        BY <1>1, <1>2, <2>0, <2>2, <3>1 DEF Claimed, NotYet, CallOK, Settled
      <3> QED
        BY <1>1, <1>2, <1>3, <2>0, <2>2, <3>2, GoOnKeeps
    <2> QED
      BY <1>1, <1>4, <1>6, <2>0, <2>1, <2>2 DEF RecoverInflight, Leave
  <1>7. CASE Claim(e)
    <2>1. CASE ledger' = [ledger EXCEPT ![c] = "inflight"] /\ Goto(e, "reserve")
      <3>1. exec'[e].pc = "reserve" /\ exec'[e].call = c /\ UNCHANGED effects
        BY <1>1, <1>7, <2>1, GotoOnly DEF Claim
      <3>2. ledger'[c] = "inflight"
        BY <1>1, <2>1 DEF TypeOK
      <3>3. Claimed(e)' /\ NotYet(e)' /\ CallOK(c)'
        BY <1>1, <1>2, <1>7, <3>1, <3>2 DEF Claim, Claimed, NotYet, CallOK
      <3> QED
        BY <1>1, <1>2, <1>3, <2>1, <3>1, <3>3, GoOnKeeps
    <2> QED
      BY <1>1, <1>4, <1>7, <2>1 DEF Claim, Leave
  <1>8. CASE Reserve(e)
    <2>1. UNCHANGED <<ledger, effects>> /\ ledger[c] = "inflight"
      BY <1>1, <1>8 DEF Reserve, Claimed
    <2>2. ASSUME NEW pc \in {"cleanup", "commit", "run"}, Goto(e, pc)
          PROVE  ToolsInv'
      <3>1. exec'[e].pc = pc /\ exec'[e].call = c
        BY <1>1, <2>2, GotoOnly
      <3>2. effects[c] \in Nat /\ (c \in Unsafe => effects[c] = 0)
        BY <1>1, <1>8 DEF TypeOK, Reserve, NotYet
      <3>3. Claimed(e)' /\ NotYet(e)' /\ CallOK(c)'
        BY <1>1, <1>2, <2>1, <2>2, <3>1, <3>2 DEF Claimed, NotYet, CallOK
      <3> QED
        BY <1>1, <1>2, <1>3, <2>1, <2>2, <3>3, GoOnKeeps
    <2> QED
      BY <1>1, <1>8, <2>2 DEF Reserve
  <1>9. CASE RunTool(e)
    <2>1. ledger' = ledger /\ ledger[c] = "inflight" /\ effects[c] \in Nat
      BY <1>1, <1>9 DEF RunTool, TypeOK, Claimed
    <2>2. c \in Unsafe => effects[c] = 0
      BY <1>1, <1>9 DEF RunTool, NotYet
    <2>3. effects'[c] \in {effects[c], effects[c] + 1}
          /\ \A d \in Calls \ {c} : effects'[d] = effects[d]
      BY <1>1, <1>9 DEF RunTool, TypeOK
    <2>4. PICK pc \in {"commit", "cleanup"} : Goto(e, pc)
      BY <1>9 DEF RunTool
    <2>5. exec'[e].pc = pc /\ exec'[e].call = c
          /\ \A x \in Executions \ {e} : exec'[x] = exec[x]
      BY <1>1, <2>4, GotoOnly
    <2>6. ExecOK(e)' /\ CallOK(c)'
      BY <1>1, <1>2, <2>1, <2>5 DEF ExecOK, Claimed, NotYet, Marked, CallOK
    <2>7. OwnStep(e, c)
      BY <1>2, <2>1, <2>3, <2>5 DEF OwnStep
    <2> QED
      BY <1>1, <2>2, <2>3, <2>6, <2>7, OwnStepKeeps
  <1>10. CASE Commit(e) \/ Cleanup(e)
    <2>1. Over(e) /\ UNCHANGED effects /\ ledger[c] = "inflight"
      BY <1>1, <1>10 DEF Commit, Cleanup, Claimed
    <2>2. ledger'[c] \in {"inflight", "done", "needs_confirmation"}
          \/ c \notin Unsafe
      BY <1>1, <1>10, <2>1 DEF TypeOK, Commit, Cleanup, AfterFailure
    <2>3. CallOK(c)'
      BY <1>1, <1>2, <2>1, <2>2 DEF CallOK
    <2> QED
      BY <1>1, <1>2, <1>3, <2>1, <2>3, EndKeeps
  <1> QED
    BY <1>5, <1>6, <1>7, <1>8, <1>9, <1>10 DEF Execute

-----------------------------------------------------------------------------
LEMMA ToolsNext ==
  ASSUME ~Overlap, ToolsInv, [Next]_vars
  PROVE  ToolsInv'
  <1>1. TypeOK'
    BY TypeKept
  <1>2. ASSUME NEW e \in Executions, NEW c \in Calls, Dispatch(e, c) PROVE ToolsInv'
    BY <1>1, <1>2, DispatchKeeps
  <1>3. ASSUME NEW e \in Executions,
               MarkStarted(e) \/ Observe(e) \/ Abandon(e) \/ ContextEnds(e) \/ Execute(e)
        PROVE  ToolsInv'
    BY <1>1, <1>3, CallerKeeps, ObserveKeeps, ExecuteKeeps
  <1>4. CASE Crash
    BY <1>1, <1>4, CrashKeeps
  <1>5. CASE \/ UNCHANGED vars \/ Finish \/ PassAgain \/ Recover \/ Resume
             \/ \E c \in Calls : Request(c) \/ Age(c)
    BY <1>1, <1>5, OutsideSteps
  <1> QED
    BY <1>2, <1>3, <1>4, <1>5 DEF Next

(* A call has one execution at a time, nobody else writes the record of its   *)
(* key, and what the log and the record say of it bounds what it has done     *)
(* (toolExecs, ToolRuntime.Execute, markToolStarted).                         *)
THEOREM ToolsInvariant == ~Overlap => (Spec => []ToolsInv)
  <1>1. ASSUME ~Overlap PROVE ToolsInv /\ [Next]_vars => ToolsInv'
    BY <1>1, ToolsNext
  <1>2. CASE ~Overlap
    <2>1. ToolsInv /\ [Next]_vars => ToolsInv'
      BY <1>1, <1>2
    <2> QED
      BY ToolsInit, <2>1, PTL DEF Spec
  <1> QED
    BY <1>2

(* No call of class C has its side effect twice, however often the process    *)
(* dies and the run is recovered, resumed and dispatched again, as long as no *)
(* two executions of it overlap (ToolRuntime.Execute, RecoverInflight).       *)
THEOREM EffectsAtMostOnce == ~Overlap => (Spec => []UnsafeOnce)
  <1>1. ToolsInv => UnsafeOnce
    BY DEF ToolsInv
  <1> QED
    BY <1>1, ToolsInvariant, PTL

(* A committed result stays in the ledger and its call does not run again     *)
(* (Ledger.Get, Claim, Complete and Fail).                                    *)
THEOREM CommitIsFinal == ~Overlap => (Spec => CommittedOnce)
  <1>1. ASSUME ~Overlap, ToolsInv, [Next]_vars, NEW c \in Calls, ledger[c] = "done"
        PROVE  ledger'[c] = "done" /\ effects'[c] = effects[c]
    <2>1. ASSUME NEW e \in Executions, Execute(e), ~UNCHANGED <<ledger, effects>>,
                 ~(ledger'[c] = "done" /\ effects'[c] = effects[c])
          PROVE  FALSE
      <3>1. exec[e].call = c
        BY <1>1, <2>1 DEF ToolsInv, TypeOK, Execute, GetRecord, RecoverInflight, Claim, Reserve,
           RunTool, Commit, Cleanup, Leave
      <3>2. exec[e].pc \in {"recover", "claim", "run", "commit", "cleanup"}
        BY <2>1 DEF Execute, GetRecord, RecoverInflight, Claim, Reserve, RunTool, Commit,
           Cleanup, Leave
      <3>3. Claimed(e)
        BY <1>1 DEF ToolsInv, ExecOK
      <3> QED
        BY <1>1, <3>1, <3>2, <3>3 DEF Claimed, Settled
    <2>2. CASE \E e \in Executions : Execute(e)
      BY <1>1, <2>1, <2>2
    <2>3. CASE ~\E e \in Executions : Execute(e)
      <3>1. UNCHANGED <<ledger, effects>>
        BY <1>1, <2>3 DEF Next, vars, Request, Age, Dispatch, MarkStarted, Observe, Abandon,
           ContextEnds, Finish, Crash, PassAgain, Recover, Inspect, InspectFails, MarkFailed,
           Rehydrate, Park, ParkRun, Resume
      <3> QED
        BY <1>1, <3>1
    <2> QED
      BY <2>2, <2>3
  <1>2. CASE ~Overlap
    <2>1. ToolsInv /\ [Next]_vars =>
            [\A c \in Calls : ledger[c] = "done" =>
               ledger'[c] = "done" /\ effects'[c] = effects[c]]_vars
      BY <1>1, <1>2
    <2> QED
      BY <1>2, <2>1, ToolsInvariant, PTL DEF Spec, CommittedOnce
  <1> QED
    BY <1>2

(* A call of class C that recovery takes for one that never ran has had no    *)
(* effect (Recovery.Inspect, markToolStarted).                                *)
THEOREM ReplayedHadNoEffect == ~Overlap => (Spec => ReplayIsHarmless)
  <1>1. ASSUME ToolsInv, [Next]_vars, pass.pc = "inspect",
               NEW c \in pass'.replayable \cap Unsafe
        PROVE  effects[c] = 0
    <2>1. pass.replayable = {} /\ c \in Calls /\ effects[c] \in Nat /\ CallOK(c)
      BY <1>1 DEF ToolsInv, TypeOK, Unsafe
    <2>2. CASE Inspect
      <3>1. Replayable(c)
        BY <1>1, <2>1, <2>2 DEF Inspect, NoPass
      <3> QED
        BY <1>1, <2>1, <3>1 DEF Replayable, CallOK
    <2>3. CASE InspectFails \/ Crash \/ UNCHANGED pass
      BY <1>1, <2>1, <2>3 DEF InspectFails, Crash, NoPass
    <2> QED
      BY <1>1, <2>2, <2>3 DEF Next, vars, Request, Age, Dispatch, MarkStarted, Observe, Abandon,
         ContextEnds, Execute, GetRecord, RecoverInflight, Claim, Reserve, RunTool, Commit,
         Cleanup, Finish, PassAgain, Recover, MarkFailed, Rehydrate, Park, ParkRun, Resume
  <1>2. ToolsInv /\ [Next]_vars =>
          [pass.pc = "inspect" =>
             \A c \in pass'.replayable \cap Unsafe : effects[c] = 0]_vars
    BY <1>1
  <1> QED
    BY <1>2, ToolsInvariant, PTL DEF Spec, ReplayIsHarmless
-----------------------------------------------------------------------------
(* What the user is asked.  A pass that meets no running loop reads a log that *)
(* does not grow meanwhile: nothing is under way in a run that has no loop     *)
(* since the process started, so the list it makes is still right when the run *)
(* is parked with it, and until the user resumes.                              *)

Need == {c \in Unsafe : effects[c] > 0 /\ "result" \notin seen[c]}
\* The list in the hands of the pass.
PassList == IF pass.pc \in {"rehydrate", "park", "list"} THEN pass.uncertain ELSE {}

AskInv ==
    /\ ~met /\ pass.pc # "none" => ~run.loop
    /\ ~met /\ ~run.loop /\ run.state # "done" => \A e \in Executions : ~Under(e)
    /\ ~met /\ pass.pc = "list" => run.state = "waiting"
    /\ ~met /\ pass.pc \in {"rehydrate", "park", "list"} /\ run.state # "done" =>
         Need \subseteq pass.uncertain
    /\ ~met /\ ~run.loop /\ run.state = "waiting" =>
         Need \subseteq run.uncertain \cup approved \cup PassList

LEMMA AskInit == Init => AskInv
  BY DEF Init, AskInv, NoRun, NoPass

LEMMA NeedKept ==
  ASSUME UNCHANGED <<effects, seen>>
  PROVE  Need' = Need
  BY DEF Need

\* Whatever a loop or an execution does leaves the run's record and the pass
\* alone, and there is none of either where the invariant has something to say.
LEMMA AskBusy ==
  ASSUME AskInv, run.loop \/ \E e \in Executions : Under(e),
         UNCHANGED <<run, pass, approved, met>>
  PROVE  AskInv'
  BY DEF AskInv

LEMMA AskQuiet ==
  ASSUME AskInv, UNCHANGED <<effects, seen, exec, run, pass, approved, met>>
  PROVE  AskInv'
  <1>1. Need' = Need /\ PassList' = PassList /\ \A e \in Executions : Under(e)' = Under(e)
    BY NeedKept DEF PassList, Under
  <1> QED
    BY <1>1 DEF AskInv

LEMMA AskCrash ==
  ASSUME AskInv, Crash
  PROVE  AskInv'
  <1>1. /\ run'.state = "none" /\ pass'.pc = "inspect" /\ ~run'.loop
        /\ \A e \in Executions : ~Under(e)'
    BY DEF Crash, NoRun, NoPass, NoExec, Under
  <1> QED
    BY <1>1 DEF AskInv

LEMMA AskFinish ==
  ASSUME ToolsInv, AskInv, Finish
  PROVE  AskInv'
  <1>1. run \in RunRow
    BY DEF ToolsInv, TypeOK, RunRow
  <1>2. run'.state = "done" /\ ~run'.loop /\ UNCHANGED <<pass, met>> /\ run.loop
    BY <1>1 DEF Finish, RunRow
  <1> QED
    BY <1>2 DEF AskInv

\* Resume moves the list that the user saw to what he has approved.
LEMMA AskResume ==
  ASSUME ToolsInv, AskInv, Resume
  PROVE  AskInv'
  <1>1. run \in RunRow
    BY DEF ToolsInv, TypeOK, RunRow
  <1>2. /\ UNCHANGED <<seen, effects, exec, pass>> /\ run.state = "waiting"
        /\ approved' = approved \cup run.uncertain
    BY DEF Resume
  <1>3. Need' = Need /\ PassList' = PassList /\ \A e \in Executions : Under(e)' = Under(e)
    BY <1>2, NeedKept DEF PassList, Under
  <1>4. CASE run' = [run EXCEPT !.uncertain = {}] /\ UNCHANGED met
    <2>1. run'.state = "waiting" /\ run'.loop = run.loop
      BY <1>1, <1>2, <1>4 DEF RunRow
    <2> QED
      BY <1>2, <1>3, <1>4, <2>1 DEF AskInv
  <1>5. CASE run'.loop /\ met' = (met \/ pass.pc # "none")
    BY <1>2, <1>5 DEF AskInv
  <1> QED
    BY <1>1, <1>4, <1>5 DEF Resume, RunRow

\* The pass reads the log and the ledger's calls once, and carries the list.
LEMMA AskInspect ==
  ASSUME ToolsInv, AskInv, Inspect
  PROVE  AskInv'
  <1>1. UNCHANGED <<seen, effects, exec, run, approved, met>> /\ pass.pc = "inspect"
    BY DEF Inspect
  <1>2. Need' = Need /\ \A e \in Executions : Under(e)' = Under(e)
    BY <1>1, NeedKept DEF Under
  <1>3. PassList = {}
    BY <1>1 DEF PassList
  <1>4. CASE pass' = NoPass
    <2>1. pass'.pc = "none" /\ PassList' = {}
      BY <1>4 DEF NoPass, PassList
    <2> QED
      BY <1>1, <1>2, <1>3, <2>1 DEF AskInv
  <1>5. CASE pass' # NoPass
    <2>1. /\ pass'.uncertain = {c \in Incomplete : ~Replayable(c)}
          /\ pass'.pc \in {"fail", "rehydrate"}
      BY <1>5 DEF Inspect
    <2>2. ASSUME NEW c \in Need PROVE c \in pass'.uncertain
      <3>1. c \in Calls /\ c \in Unsafe /\ "started" \in seen[c] /\ "result" \notin seen[c]
        BY <2>2 DEF ToolsInv, CallOK, Need, Unsafe
      <3> QED
        BY <2>1, <3>1 DEF Incomplete, Replayable
    <2> QED
      BY <1>1, <1>2, <1>3, <2>1, <2>2 DEF AskInv
  <1> QED
    BY <1>4, <1>5

LEMMA AskRecover ==
  ASSUME ToolsInv, AskInv, Recover
  PROVE  AskInv'
  <1>0. run \in RunRow /\ pass \in PassRow
    BY DEF ToolsInv, TypeOK, RunRow, PassRow
  <1>1. UNCHANGED <<seen, effects, exec, approved, met>>
    BY DEF Recover, Inspect, InspectFails, MarkFailed, Rehydrate, Park, ParkRun
  <1>2. Need' = Need /\ \A e \in Executions : Under(e)' = Under(e)
    BY <1>1, NeedKept DEF Under
  <1>3. CASE InspectFails \/ MarkFailed
    <2>1. /\ UNCHANGED run /\ pass.pc \in {"inspect", "fail"}
          /\ pass'.pc \in {"fail", "none"}
      <3>1. NoPass.pc = "none" /\ [NoPass EXCEPT !.pc = "fail", !.decision = "fail"].pc = "fail"
        BY DEF NoPass
      <3> QED
        BY <1>3, <3>1 DEF InspectFails, MarkFailed
    <2>2. PassList = {}
      BY <2>1 DEF PassList
    <2> QED
      BY <1>1, <1>2, <2>1, <2>2 DEF AskInv
  <1>4. CASE Rehydrate
    <2>1. /\ pass.pc = "rehydrate" /\ pass'.pc = "park" /\ pass'.uncertain = pass.uncertain
          /\ run'.loop = run.loop /\ run'.uncertain = run.uncertain
          /\ run'.state = (IF run.state = "none" THEN state ELSE run.state)
      BY <1>0, <1>4 DEF Rehydrate, RunRow, PassRow
    <2>2. PassList' = PassList /\ PassList = pass.uncertain
      BY <2>1 DEF PassList
    <2>3. run.state = "done" => run'.state = "done"
      BY <2>1
    <2>4. run.state # "done" /\ ~met => ~run.loop /\ Need \subseteq pass.uncertain
      BY <2>1 DEF AskInv
    <2> QED
      BY <1>1, <1>2, <2>1, <2>2, <2>3, <2>4 DEF AskInv
  <1>5. CASE Park
    <2>1. CASE /\ run.state \notin {"waiting", "done"} /\ pass' = [pass EXCEPT !.pc = "list"]
               /\ run' = [run EXCEPT !.state = "waiting", !.uncertain = Listed]
      <3>1. /\ pass'.pc = "list" /\ pass'.uncertain = pass.uncertain
            /\ run'.state = "waiting" /\ run'.loop = run.loop
        BY <1>0, <2>1 DEF RunRow, PassRow
      <3>2. PassList' = pass.uncertain /\ pass.pc = "park"
        BY <1>5, <3>1 DEF PassList, Park
      <3> QED
        BY <1>1, <1>2, <2>1, <3>1, <3>2 DEF AskInv
    <2>2. CASE run.state = "waiting" /\ pass' = [pass EXCEPT !.pc = "list"] /\ UNCHANGED run
      <3>1. pass'.pc = "list" /\ pass'.uncertain = pass.uncertain /\ pass.pc = "park"
        BY <1>0, <1>5, <2>2 DEF PassRow, Park
      <3>2. PassList' = PassList
        BY <3>1 DEF PassList
      <3> QED
        BY <1>1, <1>2, <2>2, <3>1, <3>2 DEF AskInv
    <2>3. CASE run.state # "waiting" /\ pass' = NoPass /\ UNCHANGED run
      BY <1>1, <1>2, <2>3 DEF AskInv, NoPass
    <2> QED
      BY <1>5, <2>1, <2>2, <2>3 DEF Park
  <1>6. CASE ParkRun
    <2>1. pass.pc = "list" /\ pass'.pc = "none"
      BY <1>6 DEF ParkRun, NoPass
    <2>2. CASE run' = [run EXCEPT !.state = "waiting", !.uncertain = Listed]
      <3>1. run'.state = "waiting" /\ run'.loop = run.loop /\ run'.uncertain = Listed
        BY <1>0, <2>2 DEF RunRow
      <3>2. ~met => run.state = "waiting" /\ Need \subseteq pass.uncertain
        BY <2>1 DEF AskInv
      <3>3. ~met => Need \subseteq run'.uncertain
        BY <3>1, <3>2 DEF Listed
      <3> QED
        BY <1>1, <1>2, <2>1, <3>1, <3>2, <3>3 DEF AskInv
    <2>3. CASE run.state # "waiting" /\ UNCHANGED run
      BY <1>1, <1>2, <2>1, <2>3 DEF AskInv
    <2> QED
      BY <1>6, <2>2, <2>3 DEF ParkRun
  <1> QED
    BY <1>3, <1>4, <1>5, <1>6, AskInspect DEF Recover

LEMMA AskNext ==
  ASSUME ToolsInv, AskInv, [Next]_vars
  PROVE  AskInv'
  <1>1. CASE \E c \in Calls : Request(c) \/ \E e \in Executions : Dispatch(e, c)
    <2>1. run.loop /\ UNCHANGED <<run, pass, approved, met>>
      BY <1>1 DEF Request, Dispatch
    <2> QED
      BY <2>1, AskBusy
  <1>2. ASSUME NEW e \in Executions,
               MarkStarted(e) \/ Observe(e) \/ Abandon(e) \/ ContextEnds(e) \/ Execute(e)
        PROVE  AskInv'
    <2>1. run.loop \/ Under(e)
      BY <1>2 DEF MarkStarted, Observe, Abandon, ContextEnds, Execute, GetRecord,
         RecoverInflight, Claim, Reserve, RunTool, Commit, Cleanup, Under
    <2>2. UNCHANGED <<run, pass, approved, met>>
      BY <1>2 DEF MarkStarted, Observe, Abandon, ContextEnds, Execute, GetRecord,
         RecoverInflight, Claim, Reserve, RunTool, Commit, Cleanup
    <2> QED
      BY <2>1, <2>2, AskBusy
  <1>3. CASE UNCHANGED vars \/ \E c \in Calls : Age(c)
    BY <1>3, AskQuiet DEF vars, Age
  <1>4. CASE PassAgain
    <2>1. /\ UNCHANGED <<seen, effects, exec, run, approved>> /\ met' = (met \/ run.loop)
          /\ pass.pc = "none" /\ pass'.pc = "inspect"
      BY <1>4 DEF PassAgain, NoPass
    <2>2. Need' = Need /\ PassList = {} /\ \A e \in Executions : Under(e)' = Under(e)
      BY <2>1, NeedKept DEF PassList, Under
    <2> QED
      BY <2>1, <2>2 DEF AskInv
  <1> QED
    BY <1>1, <1>2, <1>3, <1>4, AskCrash, AskFinish, AskResume, AskRecover DEF Next

(* A recovered run that waits for its user asks about every call of class C    *)
(* that may have had its effect, whatever the crashes, the passes and the      *)
(* resumptions before (Recovery.Inspect, applyRecoveryPlan, ParkRun, Resume).  *)
THEOREM UncertainIsAsked == ~Overlap => (Spec => []UncertainAsked)
  <1>1. ToolsInv /\ AskInv /\ [Next]_vars => AskInv'
    BY AskNext
  <1>2. AskInv => UncertainAsked
    BY DEF AskInv, UncertainAsked, Need, PassList
  <1> QED
    BY AskInit, <1>1, <1>2, ToolsInvariant, PTL DEF Spec
=============================================================================
