---------------------------- MODULE RunLifeProofs ----------------------------
(***************************************************************************)
(* Proofs about RunLife, for every number of callers, executions and       *)
(* calls: one owner at a time, Cancel reaches its context, the copies of   *)
(* the state agree, and a parked run can be answered.                      *)
(*                                                                         *)
(* The argument.  Only five actions give or take the run: Submit and       *)
(* ResumeClaim, which find it free, ResumeMove and Exit, which free it,    *)
(* and ResumeSpawn, where a caller hands it to the new execution.  Every   *)
(* other action keeps who is an owner (lemma OwnersKept); the invariant    *)
(* adds what Submit needs, that nobody has called before the run exists.   *)
(*   Until a Cancel begins or a deadline passes every write goes through,  *)
(* so the place of the execution tells the machine's state (CalmInv), and  *)
(* whoever takes a proposal or a prompt puts it back or starts an          *)
(* execution, which leaves a new one if it parks the run (ParkInv).        *)
(***************************************************************************)
EXTENDS RunLifeProperties, FiniteSetTheorems, TLAPS

(* A caller's record has a place, whatever else it holds.                  *)
RpcOK ==
    /\ rpc = [c \in Callers |-> rpc[c]]
    /\ \A c \in Callers : "at" \in DOMAIN rpc[c]

BeforeSubmit ==
    pc[1] = "none" => /\ ~executing
                      /\ current = 1
                      /\ \A c \in Callers : At(c, "idle")

OwnerInv ==
    /\ pc \in [Execs -> ExecAt]
    /\ RpcOK
    /\ OneOwner
    /\ CancelReachesOwner
    /\ BeforeSubmit

AtWork == ExecAt \ {"none", "gone"}
Claiming == {"thinking", "unmark", "spawn"}

(* Nobody begins or ends a claim, and nobody begins or ends a call.        *)
SameCallers ==
    /\ RpcOK'
    /\ \A c \in Callers : /\ rpc'[c].at \in Claiming <=> rpc[c].at \in Claiming
                          /\ rpc[c].at = "idle" => rpc'[c].at = "idle"

-----------------------------------------------------------------------------
(* Moving one caller leaves the others and the other fields alone.         *)
LEMMA ToMoves ==
    ASSUME RpcOK, NEW c \in Callers, NEW at, To(c, at)
    PROVE  /\ RpcOK'
           /\ rpc'[c].at = at
           /\ \A d \in Callers \ {c} : rpc'[d] = rpc[d]
  <1>1. rpc' = [rpc EXCEPT ![c] = [rpc[c] EXCEPT !.at = at]]
    BY DEF To
  <1>2. \A d \in Callers \ {c} : rpc'[d] = rpc[d]
    BY <1>1 DEF RpcOK
  <1>3. rpc'[c] = [rpc[c] EXCEPT !.at = at]
    BY <1>1 DEF RpcOK
  <1>4. "at" \in DOMAIN rpc[c]
    BY DEF RpcOK
  <1>5. rpc'[c].at = at /\ "at" \in DOMAIN rpc'[c]
    BY <1>3, <1>4
  <1>6. rpc' = [d \in Callers |-> rpc'[d]]
    BY <1>1 DEF RpcOK
  <1>7. RpcOK'
    BY <1>2, <1>5, <1>6 DEF RpcOK
  <1> QED
    BY <1>2, <1>5, <1>7

(* A caller that returns is idle, the others stay where they are.          *)
LEMMA ReturnMoves ==
    ASSUME RpcOK, NEW c \in Callers, Return(c)
    PROVE  /\ RpcOK'
           /\ rpc'[c].at = "idle"
           /\ \A d \in Callers \ {c} : rpc'[d] = rpc[d]
  <1>1. rpc'[c] = Idle /\ \A d \in Callers \ {c} : rpc'[d] = rpc[d]
    BY DEF RpcOK, Return
  <1>2. rpc' = [d \in Callers |-> rpc'[d]]
    BY DEF RpcOK, Return
  <1> QED
    BY <1>1, <1>2 DEF RpcOK, Idle

LEMMA WriteKeepsCallers ==
    ASSUME RpcOK, NEW e, NEW how, Write(e, how)
    PROVE  SameCallers
  <1>1. CASE UNCHANGED rpc
    BY <1>1 DEF SameCallers, RpcOK
  <1>2. ASSUME NEW c \in Callers, At(c, "stop"), To(c, "move")
        PROVE  SameCallers
    BY <1>2, ToMoves DEF SameCallers, At, Claiming
  <1> QED
    BY <1>1, <1>2 DEF Write

(* A step of an execution at work that keeps it at work keeps the owners.  *)
LEMMA OwnersKept ==
    ASSUME OwnerInv, NEW e \in Active, NEW at \in AtWork,
           pc' = [pc EXCEPT ![e] = at], SameCallers, UNCHANGED <<executing, current>>
    PROVE  OwnerInv'
  <1>1. e \in Execs /\ pc[e] \in AtWork
    BY DEF Active, OwnerInv, AtWork
  <1>2. pc' \in [Execs -> ExecAt] /\ Active' = Active
    BY <1>1 DEF OwnerInv, AtWork, Active
  <1>3. Claimers' = Claimers
    BY DEF Claimers, SameCallers, Claiming
  <1>4. OneOwner' /\ CancelReachesOwner'
    BY <1>2, <1>3 DEF OwnerInv, OneOwner, CancelReachesOwner, Unowned
  <1>5. executing
    BY DEF OwnerInv, OneOwner, Unowned
  <1>6. pc[1] # "none"
    BY <1>5 DEF OwnerInv, BeforeSubmit
  <1>7. pc'[1] # "none"
    BY <1>1, <1>6 DEF OwnerInv, AtWork
  <1> QED
    BY <1>2, <1>4, <1>7 DEF OwnerInv, BeforeSubmit, SameCallers

(* A caller that holds no claim before or after its step changes no owner. *)
LEMMA CallerMoves ==
    ASSUME OwnerInv, NEW c \in Callers, RpcOK',
           \A d \in Callers \ {c} : rpc'[d] = rpc[d],
           rpc[c].at \notin Claiming, rpc'[c].at \notin Claiming,
           Submitted \/ ~At(c, "idle"), UNCHANGED <<pc, executing, current>>
    PROVE  OwnerInv'
  <1>1. Claimers' = Claimers /\ Active' = Active
    BY DEF Claimers, Claiming, Active
  <1>2. OneOwner' /\ CancelReachesOwner'
    BY <1>1 DEF OwnerInv, OneOwner, CancelReachesOwner, Unowned
  <1>3. BeforeSubmit'
    BY DEF OwnerInv, BeforeSubmit, Submitted
  <1> QED
    BY <1>2, <1>3 DEF OwnerInv

-----------------------------------------------------------------------------
(* The executions.                                                         *)

LEMMA CallersStay ==
    ASSUME RpcOK, UNCHANGED rpc
    PROVE  SameCallers
  BY DEF RpcOK, SameCallers

(* What every step of an execution but its last does to the owners.        *)
Working(e) ==
    /\ pc[e] \in AtWork
    /\ \E at \in AtWork : pc' = [pc EXCEPT ![e] = at]
    /\ SameCallers
    /\ UNCHANGED <<executing, current>>

LEMMA RunStepWorks ==
    ASSUME RpcOK, NEW e \in Execs, RunStep(e), ~Exit(e)
    PROVE  Working(e)
  <1> USE DEF Working, AtWork, ExecAt, Go
  <1>1. CASE Start(e)
    BY <1>1, CallersStay DEF Start, ctx
  <1>2. CASE Begin(e)
    BY <1>2, WriteKeepsCallers DEF Begin, EndAs
  <1>3. CASE TakePlanDecision(e)
    BY <1>3, CallersStay DEF TakePlanDecision, ctx
  <1>4. CASE TakeAnswers(e)
    BY <1>4, CallersStay DEF TakeAnswers, ctx
  <1>5. CASE CheckContext(e)
    BY <1>5, CallersStay DEF CheckContext, ctx
  <1>6. CASE LoopEnds(e)
    BY <1>6, CallersStay DEF LoopEnds, EndAs, ctx
  <1>7. CASE Propose(e)
    BY <1>7, CallersStay, WriteKeepsCallers DEF Propose
  <1>8. CASE ParkPlan(e)
    BY <1>8, WriteKeepsCallers DEF ParkPlan, EndAs
  <1>9. CASE BeginRound(e)
    BY <1>9, WriteKeepsCallers DEF BeginRound, EndAs
  <1>10. CASE Announce(e)
    BY <1>10, WriteKeepsCallers DEF Announce, EndAs
  <1>11. CASE ThinkEnds(e)
    BY <1>11, CallersStay, WriteKeepsCallers DEF ThinkEnds, EndAs, Answered
  <1>12. CASE ThinkCancelled(e)
    BY <1>12, CallersStay DEF ThinkCancelled, EndAs, Answered, ctx
  <1>13. CASE ThinkAgain(e)
    BY <1>13, CallersStay DEF ThinkAgain, Answered, ctx
  <1>14. CASE WrapUp(e)
    BY <1>14, WriteKeepsCallers DEF WrapUp
  <1>15. CASE LastWords(e)
    BY <1>15, CallersStay, WriteKeepsCallers DEF LastWords, EndAs
  <1>16. CASE Compact(e)
    BY <1>16, WriteKeepsCallers DEF Compact, EndAs
  <1>17. CASE Compacted(e)
    BY <1>17, WriteKeepsCallers DEF Compacted, EndAs
  <1>18. CASE BeginTools(e)
    BY <1>18, WriteKeepsCallers DEF BeginTools, EndAs, Answered
  <1>19. CASE Dispatch(e)
    BY <1>19, CallersStay DEF Dispatch, EndAs, ctx
  <1>20. CASE ToolStarts(e)
    BY <1>20, CallersStay DEF ToolStarts, ctx
  <1>21. CASE ToolRefused(e)
    BY <1>21, CallersStay DEF ToolRefused, ctx
  <1>22. CASE ToolRuns(e)
    BY <1>22, CallersStay DEF ToolRuns, ctx
  <1>23. CASE ToolLeft(e)
    BY <1>23, CallersStay DEF ToolLeft, ctx
  <1>24. CASE ToolEnds(e)
    BY <1>24, CallersStay DEF ToolEnds, EndAs, ctx
  <1>25. CASE NeedsPermission(e)
    BY <1>25, CallersStay DEF NeedsPermission, ctx
  <1>26. CASE ParkCalls(e)
    BY <1>26, WriteKeepsCallers DEF ParkCalls, EndAs
  <1>27. CASE Ask(e)
    BY <1>27, WriteKeepsCallers DEF Ask, EndAs
  <1>28. CASE KeepPrompts(e)
    BY <1>28, CallersStay DEF KeepPrompts, ctx
  <1>29. CASE KeepPlan(e)
    BY <1>29, CallersStay DEF KeepPlan, ctx
  <1>30. CASE Finish(e)
    BY <1>30, CallersStay DEF Finish, ctx
  <1>31. CASE FinishClose(e)
    BY <1>31, CallersStay DEF FinishClose, ctx
  <1>32. CASE FinishRecord(e)
    BY <1>32, CallersStay DEF FinishRecord, ctx
  <1>33. CASE FinishRelease(e)
    BY <1>33, CallersStay DEF FinishRelease, ctx
  <1> QED
    BY <1>1, <1>2, <1>3, <1>4, <1>5, <1>6, <1>7, <1>8, <1>9, <1>10, <1>11, <1>12,
       <1>13, <1>14, <1>15, <1>16, <1>17, <1>18, <1>19, <1>20, <1>21, <1>22, <1>23, <1>24,
       <1>25, <1>26, <1>27, <1>28, <1>29, <1>30, <1>31, <1>32, <1>33
    DEF RunStep

(* The last step of an execution gives the run back.                       *)
LEMMA ExitFrees ==
    ASSUME OwnerInv, NEW e \in Execs, Exit(e)
    PROVE  OwnerInv'
  <1>1. e \in Active /\ Claimers = {} /\ Active = {e}
    BY DEF Exit, OwnerInv, OneOwner, Active
  <1>2. pc' \in [Execs -> ExecAt] /\ Active' = {}
    BY <1>1 DEF Exit, Go, OwnerInv, ExecAt, Active
  <1>3. RpcOK' /\ Claimers' = {}
    BY <1>1 DEF Exit, OwnerInv, RpcOK, Claimers
  <1>4. pc[1] # "none"
    BY <1>1 DEF OwnerInv, OneOwner, Unowned, BeforeSubmit
  <1>5. pc'[1] # "none"
    BY <1>4 DEF Exit, Go, OwnerInv
  <1> QED
    BY <1>2, <1>3, <1>5
       DEF OwnerInv, OneOwner, CancelReachesOwner, Unowned, BeforeSubmit

-----------------------------------------------------------------------------
(* The callers.                                                            *)

(* A step of a caller that neither holds nor takes the claim.              *)
Calling(c) ==
    /\ RpcOK'
    /\ \A d \in Callers \ {c} : rpc'[d] = rpc[d]
    /\ rpc[c].at \notin Claiming /\ rpc'[c].at \notin Claiming
    /\ Submitted \/ ~At(c, "idle")
    /\ UNCHANGED <<pc, executing, current>>

LEMMA BeginsCalls ==
    ASSUME RpcOK, NEW c \in Callers, Begins(c)
    PROVE  Calling(c)
  <1> DEFINE Replaced(r) == /\ rpc' = [rpc EXCEPT ![c] = r]
                            /\ "at" \in DOMAIN r
                            /\ r.at \in {"mark", "resume", "pending", "count"}
  <1>1. Submitted /\ At(c, "idle") /\ UNCHANGED <<pc, executing, current>>
    BY DEF Begins, CancelBegin, ResumeBegin, ConfirmBegin, DecideBegin, exec, ctx
  <1>2. ASSUME NEW r, Replaced(r)
        PROVE  Calling(c)
    <2>1. rpc'[c] = r /\ \A d \in Callers \ {c} : rpc'[d] = rpc[d]
      BY <1>2 DEF RpcOK
    <2>2. RpcOK'
      BY <1>2, <2>1 DEF RpcOK
    <2> QED
      BY <1>1, <1>2, <2>1, <2>2 DEF Calling, At, Claiming
  <1>3. CASE CancelBegin(c)
    <2>1. Replaced([at |-> "mark", op |-> "cancel"])
      BY <1>3 DEF CancelBegin
    <2> QED
      BY <1>2, <2>1
  <1>4. CASE ResumeBegin(c)
    <2>1. Replaced([at |-> "resume", op |-> "resume"])
      BY <1>4 DEF ResumeBegin
    <2> QED
      BY <1>2, <2>1
  <1>5. CASE ConfirmBegin(c)
    <2>1. PICK op : rpc' = [rpc EXCEPT ![c] = [at |-> "pending", op |-> op]]
      BY <1>5 DEF ConfirmBegin
    <2>2. Replaced([at |-> "pending", op |-> op])
      BY <2>1
    <2> QED
      BY <1>2, <2>2
  <1>6. CASE DecideBegin(c)
    <2>1. PICK call, op : rpc' = [rpc EXCEPT ![c] =
              [at |-> "count", op |-> op, call |-> call, found |-> {}]]
      BY <1>6 DEF DecideBegin
    <2>2. Replaced([at |-> "count", op |-> op, call |-> call, found |-> {}])
      BY <2>1
    <2> QED
      BY <1>2, <2>2
  <1> QED
    BY <1>3, <1>4, <1>5, <1>6 DEF Begins

LEMMA CallerStepCalls ==
    ASSUME RpcOK, NEW c \in Callers,
           CancelStep(c) \/ ResumeLook(c) \/ ConfirmStep(c) \/ DecideStep(c)
    PROVE  Calling(c)
  <1> USE DEF Calling, At, Claiming
  <1>1. CASE CancelMark(c)
    BY <1>1, ToMoves DEF CancelMark, exec, ctx
  <1>2. CASE CancelContext(c)
    BY <1>2, ToMoves DEF CancelContext, exec
  <1>3. CASE CancelMove(c)
    BY <1>3, ToMoves, ReturnMoves DEF CancelMove, exec, ctx
  <1>4. CASE CancelClose(c)
    BY <1>4, ReturnMoves DEF CancelClose, exec, ctx
  <1>5. CASE Recovered(c)
    BY <1>5, ReturnMoves DEF Recovered, exec, ctx
  <1>6. CASE ResumeLook(c)
    BY <1>6, ToMoves, ReturnMoves DEF ResumeLook, Refuse, exec, ctx
  <1>7. CASE ConfirmPending(c)
    BY <1>7, ToMoves, ReturnMoves DEF ConfirmPending, exec, ctx
  <1>8. CASE ConfirmRestore(c)
    BY <1>8, ToMoves DEF ConfirmRestore, exec, ctx
  <1>9. CASE ConfirmDecide(c)
    BY <1>9, ToMoves DEF ConfirmDecide, exec, ctx
  <1>10. CASE ConfirmRecord(c)
    BY <1>10, ToMoves DEF ConfirmRecord, exec, ctx
  <1>11. CASE ConfirmUndo(c)
    BY <1>11, ReturnMoves DEF ConfirmUndo, exec, ctx
  <1>12. CASE DecideMerge(c)
    BY <1>12, ToMoves DEF DecideMerge, exec, ctx
  <1>13. CASE DecideClaim(c)
    BY <1>13, ToMoves, ReturnMoves DEF DecideClaim, exec, ctx
  <1>14. CASE DecideAnswer(c)
    BY <1>14, ToMoves DEF DecideAnswer, exec, ctx
  <1>15. CASE DecideNote(c)
    BY <1>15, ToMoves DEF DecideNote, exec, ctx
  <1>16. CASE DecideUndo(c)
    BY <1>16, ReturnMoves DEF DecideUndo, exec, ctx
  <1>17. CASE DecideCount(c)
    <2>1. /\ \A d \in Callers \ {c} : rpc'[d] = rpc[d]
          /\ "at" \in DOMAIN rpc'[c] /\ rpc'[c].at \in {"merge", "take_call"}
          /\ rpc' = [d \in Callers |-> rpc'[d]]
      BY <1>17 DEF DecideCount, RpcOK
    <2> QED
      BY <1>17, <2>1 DEF DecideCount, RpcOK, exec, ctx
  <1> QED
    BY <1>1, <1>2, <1>3, <1>4, <1>5, <1>6, <1>7, <1>8, <1>9, <1>10, <1>11, <1>12,
       <1>13, <1>14, <1>15, <1>16, <1>17
    DEF CancelStep, ConfirmStep, DecideStep

(* Resume once it looked: the claim, and the hand-over to the execution.   *)
LEMMA ResumeKeeps ==
    ASSUME OwnerInv, NEW c \in Callers,
           ResumeClaim(c) \/ ResumeMove(c) \/ ResumeUnmark(c) \/ ResumeSpawn(c)
    PROVE  OwnerInv'
  <1>1. CASE executing /\ ResumeClaim(c)
    <2>1. Calling(c)
      BY <1>1, ToMoves, ReturnMoves
         DEF ResumeClaim, Refuse, OwnerInv, Calling, At, Claiming, exec, ctx
    <2> QED
      BY <2>1, CallerMoves DEF Calling
  <1>2. CASE ~executing /\ ResumeClaim(c)
    <2>1. executing' /\ Active = {} /\ Claimers = {}
      BY <1>2 DEF ResumeClaim, OwnerInv, OneOwner, Unowned
    <2>2. /\ RpcOK' /\ rpc'[c].at = "thinking"
          /\ \A d \in Callers \ {c} : rpc'[d] = rpc[d]
      BY <1>2, ToMoves DEF ResumeClaim, OwnerInv
    <2>3. Claimers' = {c}
      BY <2>1, <2>2 DEF Claimers
    <2>4. UNCHANGED pc /\ Active' = {}
      BY <1>2, <2>1 DEF ResumeClaim, exec, Active
    <2>5. pc[1] # "none"
      BY <1>2 DEF ResumeClaim, OwnerInv, BeforeSubmit, At
    <2> QED
      BY <2>1, <2>2, <2>3, <2>4, <2>5
         DEF OwnerInv, OneOwner, CancelReachesOwner, Unowned, BeforeSubmit
  <1>3. CASE ResumeMove(c)
    <2>1. /\ Claimers = {c} /\ Active = {} /\ pc[1] # "none"
          /\ UNCHANGED pc /\ Active' = {}
      BY <1>3 DEF ResumeMove, OwnerInv, OneOwner, BeforeSubmit, Claimers, At, Active, exec
    <2>2. /\ RpcOK' /\ \A d \in Callers \ {c} : rpc'[d] = rpc[d]
          /\ \/ rpc'[c].at = "unmark" /\ UNCHANGED executing
             \/ rpc'[c].at \notin Claiming
      BY <1>3, ToMoves, ReturnMoves DEF ResumeMove, Refuse, OwnerInv, Claiming
    <2>3. executing
      BY <2>1 DEF OwnerInv, OneOwner, Unowned
    <2>4. Claimers' = {} \/ (Claimers' = {c} /\ executing')
      BY <2>1, <2>2, <2>3 DEF Claimers, Claiming
    <2> QED
      BY <2>1, <2>2, <2>4
         DEF OwnerInv, OneOwner, CancelReachesOwner, Unowned, BeforeSubmit
  <1>4. CASE ResumeUnmark(c)
    <2>1. SameCallers /\ UNCHANGED <<pc, executing, current>> /\ ~At(c, "idle")
      BY <1>4, ToMoves DEF ResumeUnmark, SameCallers, OwnerInv, At, Claiming, exec, ctx
    <2>2. Claimers' = Claimers /\ Active' = Active
      BY <2>1 DEF SameCallers, Claimers, Claiming, Active
    <2> QED
      BY <2>1, <2>2
         DEF SameCallers, OwnerInv, OneOwner, CancelReachesOwner, Unowned, BeforeSubmit
  <1>5. CASE ResumeSpawn(c)
    <2>1. Claimers = {c} /\ Active = {} /\ pc[1] # "none" /\ executing
      BY <1>5 DEF ResumeSpawn, OwnerInv, OneOwner, Unowned, BeforeSubmit, Claimers, At
    <2>2. /\ pc' = [pc EXCEPT ![NextExec] = "start"] /\ current' = NextExec
          /\ UNCHANGED executing /\ Return(c)
      BY <1>5 DEF ResumeSpawn
    <2>3. pc' \in [Execs -> ExecAt] /\ pc'[1] # "none" /\ Active' \subseteq {NextExec}
      <3>1. pc \in [Execs -> ExecAt] /\ "start" \in ExecAt /\ 1 \in Execs
        BY RunLifeAssumption DEF OwnerInv, ExecAt, Execs
      <3>2. PICK n : n = NextExec
        OBVIOUS
      <3>3. pc' = [pc EXCEPT ![n] = "start"]
        BY <2>2, <3>2
      <3>4. pc' \in [Execs -> ExecAt] /\ pc'[1] # "none"
        BY <2>1, <3>1, <3>3
      <3>5. \A e \in Execs \ {n} : pc'[e] = pc[e]
        BY <3>1, <3>3
      <3>6. Active' \subseteq {n}
        BY <2>1, <3>5 DEF Active
      <3> QED
        BY <3>2, <3>4, <3>6
    <2>4. RpcOK' /\ Claimers' = {}
      BY <2>1, <2>2, ReturnMoves DEF OwnerInv, Claimers
    <2> QED
      BY <2>1, <2>2, <2>3, <2>4
         DEF OwnerInv, OneOwner, CancelReachesOwner, Unowned, BeforeSubmit
  <1> QED
    BY <1>1, <1>2, <1>3, <1>4, <1>5

-----------------------------------------------------------------------------
LEMMA OwnerInit == Init => OwnerInv
  BY RunLifeAssumption
     DEF Init, OwnerInv, RpcOK, OneOwner, CancelReachesOwner, BeforeSubmit, Unowned,
         Active, Claimers, At, Idle, ExecAt, Execs

LEMMA SubmitKeeps == OwnerInv /\ Submit => OwnerInv'
  <1> SUFFICES ASSUME OwnerInv, Submit PROVE OwnerInv'
    OBVIOUS
  <1>1. ~executing /\ current = 1 /\ Active = {} /\ Claimers = {}
    BY DEF OwnerInv, Submit, BeforeSubmit, OneOwner, Unowned
  <1>2. 1 \in Execs
    BY RunLifeAssumption DEF Execs
  <1>3. pc' \in [Execs -> ExecAt] /\ pc'[1] = "start" /\ Active' = {1}
    BY <1>1, <1>2 DEF Submit, OwnerInv, ExecAt, Active
  <1>4. RpcOK' /\ Claimers' = {} /\ executing' /\ current' = 1
    BY <1>1 DEF Submit, OwnerInv, RpcOK, Claimers, ctx
  <1> QED
    BY <1>3, <1>4 DEF OwnerInv, OneOwner, CancelReachesOwner, Unowned, BeforeSubmit

LEMMA OwnerNext == OwnerInv /\ [Next]_vars => OwnerInv'
  <1> SUFFICES ASSUME OwnerInv, [Next]_vars PROVE OwnerInv'
    OBVIOUS
  <1> USE DEF OwnerInv
  <1>1. CASE Submit
    BY <1>1, SubmitKeeps
  <1>2. ASSUME NEW e \in Execs, RunStep(e) PROVE OwnerInv'
    <2>1. CASE Exit(e)
      BY <2>1, ExitFrees
    <2>2. CASE ~Exit(e)
      <3>1. Working(e)
        BY <1>2, <2>2, RunStepWorks
      <3>2. e \in Active
        BY <3>1 DEF Working, AtWork, Active
      <3> QED
        BY <3>1, <3>2, OwnersKept DEF Working
    <2> QED
      BY <2>1, <2>2
  <1>3. CASE UNCHANGED <<pc, executing, current, rpc>>
    BY <1>3 DEF RpcOK, OneOwner, CancelReachesOwner, Unowned, Active, Claimers,
                BeforeSubmit, At
  <1>4. ASSUME NEW e \in Execs, Expire(e) PROVE UNCHANGED <<pc, executing, current, rpc>>
    BY <1>4 DEF Expire, exec
  <1>5. CASE LateToolRuns
    BY <1>3, <1>5 DEF LateToolRuns, exec, ctx
  <1>6. ASSUME NEW c \in Callers, Begins(c) \/ RpcStep(c) PROVE OwnerInv'
    <2>1. CASE Calling(c)
      BY <2>1, CallerMoves DEF Calling
    <2>2. CASE Begins(c)
      BY <2>1, <2>2, BeginsCalls
    <2>3. CASE CancelStep(c) \/ ResumeLook(c) \/ ConfirmStep(c) \/ DecideStep(c)
      BY <2>1, <2>3, CallerStepCalls
    <2>4. CASE ResumeClaim(c) \/ ResumeMove(c) \/ ResumeUnmark(c) \/ ResumeSpawn(c)
      BY <2>4, ResumeKeeps
    <2> QED
      BY <1>6, <2>2, <2>3, <2>4 DEF RpcStep, ResumeStep
  <1>7. CASE UNCHANGED vars
    BY <1>3, <1>7 DEF vars, exec, ctx
  <1> QED
    BY <1>1, <1>2, <1>3, <1>4, <1>5, <1>6, <1>7 DEF Next

(* The inductive invariant holds in every behaviour.                       *)
THEOREM OwnerInvariant == Spec => []OwnerInv
  BY OwnerInit, OwnerNext, PTL DEF Spec

(* Invariant I1 of the engine: however many callers resume, confirm,       *)
(* decide and cancel, one goroutine at most executes the run, and a claim  *)
(* is never free while somebody owns it (claimExecution, executeRun).      *)
THEOREM RunHasOneOwner == Spec => []OneOwner
  <1>1. OwnerInv => OneOwner
    BY DEF OwnerInv
  <1> QED
    BY <1>1, OwnerInvariant, PTL

(* The function that Cancel calls cancels the context of the execution at  *)
(* work, also after Resume replaced it (rec.cancel).                       *)
THEOREM CancelFindsOwner == Spec => []CancelReachesOwner
  <1>1. OwnerInv => CancelReachesOwner
    BY DEF OwnerInv
  <1> QED
    BY <1>1, OwnerInvariant, PTL

-----------------------------------------------------------------------------
(* The copies of the state, while no Cancel has begun and no deadline has  *)
(* passed.  Then every write goes through, so where an execution is tells  *)
(* the machine's state, the actor and the log follow it, and the record    *)
(* tells it wherever nobody is about to write it.                          *)

Cancelling == {"mark", "stop", "move", "close"}
Handing == {"unmark", "spawn"}              \* Resume has moved the run to thinking
Free == Active = {} /\ \A c \in Callers : rpc[c].at \notin Handing

AtThought == {"take_plan", "take_answers", "plan", "propose", "park_plan", "abort", "fail",
              "announce", "think", "act", "last_words"}
AtTools == {"dispatch", "submitted", "starting", "tool", "park_calls"}
AtEnd == {"after", "keep_plan", "finish", "close", "record", "release"}

(* What the place of an execution tells of the machine and the record.     *)
Place(e) ==
    /\ pc[e] \in {"start", "begin"} => machine \in {"queued", "thinking"}
    /\ pc[e] \in AtThought => machine = "thinking"
    /\ pc[e] \in {"round", "wrap", "enter", "wrap_up"} => machine \in {"thinking", "executing"}
    /\ pc[e] = "compacted" => machine = "compacting"
    /\ pc[e] \in AtTools => machine = "executing"
    /\ pc[e] = "ask" => machine = "waiting_user"
    /\ pc[e] \in AtEnd => machine = Outcome(e) /\ result[e] \in Final \cup {"plan", "calls"}
    /\ pc[e] \in {"release", "exit"} => recorded = actor
    /\ pc[e] = "exit" => (held => machine = "waiting_user")

(* No other execution has had the number that Resume gives to the next.    *)
Numbered ==
    /\ \E n \in 0 .. MaxExecs : Started = 1 .. n
    /\ \A c \in Claimers : NextExec \in Execs
    /\ dead \subseteq Started
    /\ Submitted => current \in Started

Agreed ==
    /\ machine = actor /\ actor = logged
    /\ ~held => machine \in Final
    /\ inMap <=> held /\ Submitted
    /\ ~Submitted => machine = "created"
    /\ \A e \in Active : Place(e)
    /\ \A c \in Callers : rpc[c].at \in Handing => machine = "thinking"
    /\ Submitted /\ Free => recorded = actor /\ (held => machine = "waiting_user")

Undisturbed ==
    /\ \A c \in Callers : rpc[c].at \notin Cancelling
    /\ Active \cap dead = {}
    /\ ~late
    /\ result = [e \in Execs |-> result[e]] /\ asks = [e \in Execs |-> asks[e]]

CalmInv == ~disturbed => Numbered /\ Undisturbed /\ Agreed

-----------------------------------------------------------------------------
(* The moves an undisturbed run makes are in the table, and an end is one. *)
LEMMA Table ==
    /\ CanMove("queued", "thinking")
    /\ \A to \in {"thinking", "executing", "compacting", "waiting_user", "completed", "failed",
                  "cancelled"} : CanMove("thinking", to)
    /\ \A to \in {"thinking", "waiting_user"} : CanMove("executing", to)
    /\ \A to \in {"thinking", "failed"} : CanMove("compacting", to)
    /\ CanMove("waiting_user", "thinking")
    /\ \A from \in Final : \A to : ~CanMove(from, to)
  BY DEF CanMove, transitionTable, Stops, Final

(* Undisturbed, every write goes through.                                  *)
LEMMA CalmWrite ==
    ASSUME NEW e, NEW how, Write(e, how), ~disturbed', e \notin dead
    PROVE  how = "done" /\ UNCHANGED <<dead, disturbed, rpc>>
  BY DEF Write

(* A legal move that is written takes all the copies along.                *)
LEMMA MoveTogether ==
    ASSUME machine = actor, actor = logged, NEW to, CanMove(machine, to), Move(to, "done")
    PROVE  machine' = to /\ actor' = to /\ logged' = to /\ Moved(to, "done")
  BY DEF Move, Apply, Moved

LEMMA NoMove ==
    ASSUME NEW to, NEW how, ~CanMove(machine, to), Move(to, how)
    PROVE  UNCHANGED states
  BY DEF Move

Together == machine = actor /\ actor = logged

(* What a step of an undisturbed execution needs, and what it leaves.      *)
CalmBefore(e) ==
    /\ pc \in [Execs -> ExecAt]
    /\ e \notin dead /\ ~late
    /\ Together /\ Place(e)
    /\ ~held => machine \in Final
    /\ inMap <=> held
    /\ result = [f \in Execs |-> result[f]] /\ asks = [f \in Execs |-> asks[f]]

CalmAfter(e) ==
    /\ UNCHANGED <<rpc, dead, late, disturbed>>
    /\ Together' /\ Place(e)'
    /\ ~held' => machine' \in Final
    /\ inMap' <=> held'
    /\ result' = [f \in Execs |-> result'[f]] /\ asks' = [f \in Execs |-> asks'[f]]

LEMMA CalmRunStep ==
    ASSUME NEW e \in Execs, CalmBefore(e), ~disturbed', RunStep(e), ~Exit(e)
    PROVE  CalmAfter(e)
  <1>0. pc[e] \in AtWork \ (AtEnd \cup {"exit"}) => held
    BY DEF CalmBefore, Place, AtThought, AtTools, AtEnd, AtWork, ExecAt, Final, Together
  <1> USE DEF CalmBefore, CalmAfter, Together, Go, EndAs, AtThought, AtTools, AtEnd, Place
  <1>1. CASE Start(e)
    <2>1. held /\ pc'[e] = "begin" /\ pc[e] = "start"
      BY <1>1 DEF Start, Final
    <2> QED
      BY <1>1, <2>1 DEF Start, states, sched, ctx, exec
  <1>2. CASE Begin(e)
    <2>1. held /\ CanMove(machine, "thinking")
      BY <1>0, <1>2, Table DEF Begin, AtWork, ExecAt
    <2>2. /\ UNCHANGED <<dead, disturbed, rpc>> /\ Move("thinking", "done")
          /\ Moved("thinking", "done") => Go(e, "take_plan") /\ UNCHANGED result
      BY <1>2, CalmWrite DEF Begin
    <2>3. machine' = "thinking" /\ Together' /\ pc'[e] = "take_plan" /\ UNCHANGED result
      BY <2>1, <2>2, MoveTogether
    <2> QED
      BY <1>2, <2>1, <2>2, <2>3 DEF Begin, record, sched
  <1>3. CASE TakePlanDecision(e)
    BY <1>3 DEF TakePlanDecision, states, record, sched, ctx
  <1>4. CASE TakeAnswers(e)
    BY <1>4 DEF TakeAnswers, states, record, sched, ctx
  <1>5. CASE CheckContext(e)
    BY <1>5 DEF CheckContext, states, record, sched, ctx
  <1>6. CASE LoopEnds(e)
    <2>1. PICK to \in {"cancelled", "failed"} :
              /\ machine = "thinking" /\ Move(to, "done") /\ EndAs(e, "after", to)
      BY <1>6 DEF LoopEnds, Detached
    <2>2. machine' = to /\ Together'
      BY <2>1, Table, MoveTogether
    <2>3. pc'[e] = "after" /\ result'[e] = to /\ held
      BY <1>0, <1>6, <2>1 DEF LoopEnds, AtWork, ExecAt
    <2> QED
      BY <1>6, <2>1, <2>2, <2>3 DEF LoopEnds, record, sched, ctx, Outcome, Final
  <1>7. CASE Propose(e)
    <2>1. UNCHANGED <<dead, disturbed, rpc>> /\ \E at \in {"park_plan", "fail"} : Go(e, at)
      BY <1>7, CalmWrite DEF Propose
    <2> QED
      BY <1>7, <2>1 DEF Propose, states, record, sched
  <1>8. CASE ParkPlan(e)
    <2>1. held /\ CanMove(machine, "waiting_user")
      BY <1>0, <1>8, Table DEF ParkPlan, AtWork, ExecAt
    <2>2. /\ UNCHANGED <<dead, disturbed, rpc>> /\ Move("waiting_user", "done")
          /\ Moved("waiting_user", "done") =>
               Go(e, "after") /\ result' = [result EXCEPT ![e] = "plan"]
      BY <1>8, CalmWrite DEF ParkPlan
    <2>3. /\ machine' = "waiting_user" /\ Together'
          /\ pc'[e] = "after" /\ result' = [result EXCEPT ![e] = "plan"]
      BY <2>1, <2>2, MoveTogether
    <2> QED
      BY <1>8, <2>1, <2>2, <2>3 DEF ParkPlan, record, sched, Outcome
  <1>9. CASE BeginRound(e)
    <2>1. held /\ CanMove(machine, "thinking")
      BY <1>0, <1>9, Table DEF BeginRound, AtWork, ExecAt
    <2>2. /\ UNCHANGED <<dead, disturbed, rpc>> /\ Move("thinking", "done")
          /\ Moved("thinking", "done") => Go(e, "announce") /\ UNCHANGED result
      BY <1>9, CalmWrite DEF BeginRound
    <2>3. machine' = "thinking" /\ Together' /\ pc'[e] = "announce" /\ UNCHANGED result
      BY <2>1, <2>2, MoveTogether
    <2> QED
      BY <1>9, <2>1, <2>2, <2>3 DEF BeginRound, record, sched
  <1>10. CASE Announce(e)
    <2>1. /\ UNCHANGED <<dead, disturbed, rpc, machine, actor>> /\ logged' = "thinking"
          /\ Go(e, "think") /\ UNCHANGED result
      BY <1>10, CalmWrite DEF Announce, Stamp
    <2> QED
      BY <1>10, <2>1 DEF Announce, record, sched
  <1>11. CASE ThinkEnds(e)
    <2>1. held /\ machine = "thinking"
      BY <1>0, <1>11 DEF ThinkEnds, Answered, AtWork, ExecAt
    <2>2. PICK to \in {"completed", "failed"} :
              /\ UNCHANGED <<dead, disturbed, rpc>> /\ Move(to, "done")
              /\ EndAs(e, "after", IF Moved(to, "done") THEN to ELSE "failed")
      BY <1>11, CalmWrite DEF ThinkEnds
    <2>3. machine' = to /\ Together' /\ Moved(to, "done")
      BY <2>1, <2>2, Table, MoveTogether
    <2>4. pc'[e] = "after" /\ result' = [result EXCEPT ![e] = to]
      BY <2>2, <2>3
    <2> QED
      BY <1>11, <2>1, <2>2, <2>3, <2>4 DEF ThinkEnds, record, sched, Outcome, Final
  <1>12. CASE ThinkCancelled(e)
    BY <1>12 DEF ThinkCancelled
  <1>13. CASE ThinkAgain(e)
    BY <1>13 DEF ThinkAgain, states, record, sched, ctx, Answered
  <1>14. CASE WrapUp(e)
    <2>1. held /\ CanMove(machine, "thinking")
      BY <1>0, <1>14, Table DEF WrapUp, AtWork, ExecAt
    <2>2. /\ UNCHANGED <<dead, disturbed, rpc>> /\ Move("thinking", "done")
          /\ Moved("thinking", "done") => Go(e, "last_words") /\ UNCHANGED result
      BY <1>14, CalmWrite DEF WrapUp
    <2>3. machine' = "thinking" /\ Together' /\ pc'[e] = "last_words" /\ UNCHANGED result
      BY <2>1, <2>2, MoveTogether
    <2> QED
      BY <1>14, <2>1, <2>2, <2>3 DEF WrapUp, record, sched
  <1>15. CASE LastWords(e)
    <2>1. held /\ machine = "thinking"
      BY <1>0, <1>15 DEF LastWords, AtWork, ExecAt
    <2>2. CASE /\ UNCHANGED <<dead, disturbed, rpc>> /\ Move("completed", "done")
               /\ Moved("completed", "done") => EndAs(e, "after", "completed")
      <3>1. machine' = "completed" /\ Together' /\ Moved("completed", "done")
        BY <2>1, <2>2, Table, MoveTogether
      <3>2. pc'[e] = "after" /\ result' = [result EXCEPT ![e] = "completed"]
        BY <2>2, <3>1
      <3> QED
        BY <1>15, <2>1, <2>2, <3>1, <3>2 DEF LastWords, record, sched, Outcome, Final
    <2>3. CASE /\ Go(e, "fail") /\ UNCHANGED <<states, result, dead, disturbed, rpc>>
      BY <1>15, <2>1, <2>3 DEF LastWords, states, record, sched
    <2> QED
      BY <1>15, <2>2, <2>3, CalmWrite DEF LastWords
  <1>16. CASE Compact(e)
    <2>1. held /\ CanMove(machine, "compacting")
      BY <1>0, <1>16, Table DEF Compact, AtWork, ExecAt
    <2>2. /\ UNCHANGED <<dead, disturbed, rpc>> /\ Move("compacting", "done")
          /\ Moved("compacting", "done") => Go(e, "compacted") /\ UNCHANGED result
      BY <1>16, CalmWrite DEF Compact
    <2>3. machine' = "compacting" /\ Together' /\ pc'[e] = "compacted" /\ UNCHANGED result
      BY <2>1, <2>2, MoveTogether
    <2> QED
      BY <1>16, <2>1, <2>2, <2>3 DEF Compact, record, sched
  <1>17. CASE Compacted(e)
    <2>1. held /\ machine = "compacting"
      BY <1>0, <1>17 DEF Compacted, AtWork, ExecAt
    <2>2. PICK to \in {"thinking", "failed"} :
              /\ UNCHANGED <<dead, disturbed, rpc>> /\ Move(to, "done")
              /\ IF Moved(to, "done") /\ to = "thinking"
                 THEN Go(e, "act") /\ UNCHANGED result
                 ELSE EndAs(e, "after", "failed")
      BY <1>17, CalmWrite DEF Compacted
    <2>3. machine' = to /\ Together' /\ Moved(to, "done")
      BY <2>1, <2>2, Table, MoveTogether
    <2>4. \/ to = "thinking" /\ pc'[e] = "act" /\ result' = result
          \/ /\ to = "failed" /\ pc'[e] = "after"
             /\ result' = [result EXCEPT ![e] = "failed"]
      BY <2>2, <2>3
    <2> QED
      BY <1>17, <2>1, <2>2, <2>3, <2>4 DEF Compacted, record, sched, Outcome, Final
  <1>18. CASE BeginTools(e)
    <2>1. held /\ CanMove(machine, "executing")
      BY <1>0, <1>18, Table DEF BeginTools, AtWork, ExecAt, Answered
    <2>2. /\ UNCHANGED <<dead, disturbed, rpc>> /\ Move("executing", "done")
          /\ Moved("executing", "done") => Go(e, "dispatch") /\ UNCHANGED result
      BY <1>18, CalmWrite DEF BeginTools
    <2>3. machine' = "executing" /\ Together' /\ pc'[e] = "dispatch" /\ UNCHANGED result
      BY <2>1, <2>2, MoveTogether
    <2> QED
      BY <1>18, <2>1, <2>2, <2>3 DEF BeginTools, record, sched
  <1>19. CASE Dispatch(e)
    BY <1>19 DEF Dispatch, states, record, sched, ctx
  <1>20. CASE ToolStarts(e)
    BY <1>20 DEF ToolStarts, states, record, sched, ctx
  <1>21. CASE ToolRefused(e)
    BY <1>21 DEF ToolRefused, states, record, sched, ctx
  <1>22. CASE ToolRuns(e)
    BY <1>22 DEF ToolRuns, states, record, sched, ctx, Stamp
  <1>23. CASE ToolLeft(e)
    BY <1>23 DEF ToolLeft
  <1>24. CASE ToolEnds(e)
    BY <1>24 DEF ToolEnds, states, record, sched, ctx
  <1>25. CASE NeedsPermission(e)
    <2>1. PICK S \in SUBSET (Calls \ issued) \ {{}} :
              LET parked == {c \in S : folded \cap {c, AnyCall} = {}} IN
              /\ asks' = [asks EXCEPT ![e] = parked]
              /\ Go(e, IF parked = {} THEN "round" ELSE "park_calls")
      BY <1>25 DEF NeedsPermission
    <2> QED
      BY <1>25, <2>1 DEF NeedsPermission, states, record, sched, ctx
  <1>26. CASE ParkCalls(e)
    <2>1. held /\ CanMove(machine, "waiting_user")
      BY <1>0, <1>26, Table DEF ParkCalls, AtWork, ExecAt
    <2>2. /\ UNCHANGED <<dead, disturbed, rpc>> /\ Move("waiting_user", "done")
          /\ Moved("waiting_user", "done") => Go(e, "ask") /\ UNCHANGED result
      BY <1>26, CalmWrite DEF ParkCalls
    <2>3. machine' = "waiting_user" /\ Together' /\ pc'[e] = "ask" /\ UNCHANGED result
      BY <2>1, <2>2, MoveTogether
    <2> QED
      BY <1>26, <2>1, <2>2, <2>3 DEF ParkCalls, record, sched
  <1>27. CASE Ask(e)
    <2>1. UNCHANGED <<dead, disturbed, rpc>> /\ EndAs(e, "after", "calls")
      BY <1>27, CalmWrite DEF Ask
    <2> QED
      BY <1>27, <2>1 DEF Ask, states, record, sched, Outcome
  <1>28. CASE KeepPrompts(e)
    BY <1>28 DEF KeepPrompts, states, record, sched, ctx, Outcome
  <1>29. CASE KeepPlan(e)
    BY <1>29 DEF KeepPlan, states, record, sched, ctx, Outcome
  <1>30. CASE Finish(e)
    <2>1. machine = Outcome(e)
      BY <1>30 DEF Finish
    <2>2. UNCHANGED states
      BY <1>30, <2>1, Table, NoMove DEF Finish
    <2> QED
      BY <1>30, <2>2 DEF Finish, states, record, sched, ctx, Outcome
  <1>31. CASE FinishClose(e)
    <2>1. machine = Outcome(e) /\ Outcome(e) \in Final \cup {"waiting_user"}
      BY <1>31 DEF FinishClose, Outcome
    <2>2. UNCHANGED <<states, sched>>
      BY <1>31, <2>1 DEF FinishClose, CloseRun, Redundant
    <2> QED
      BY <1>31, <2>2 DEF FinishClose, states, record, sched, ctx, Outcome
  <1>32. CASE FinishRecord(e)
    BY <1>32 DEF FinishRecord, states, record, sched, ctx, Outcome
  <1>33. CASE FinishRelease(e)
    <2>1. machine = Outcome(e) /\ recorded = actor
      BY <1>33 DEF FinishRelease
    <2>2. result[e] \in {"plan", "calls"} \/ Outcome(e) \in Final
      BY <1>33 DEF FinishRelease, Outcome
    <2> QED
      BY <1>33, <2>1, <2>2 DEF FinishRelease, states, sched, ctx, Outcome
  <1> QED
    BY <1>1, <1>2, <1>3, <1>4, <1>5, <1>6, <1>7, <1>8, <1>9, <1>10, <1>11, <1>12,
       <1>13, <1>14, <1>15, <1>16, <1>17, <1>18, <1>19, <1>20, <1>21, <1>22, <1>23,
       <1>24, <1>25, <1>26, <1>27, <1>28, <1>29, <1>30, <1>31, <1>32, <1>33
    DEF RunStep

(* Once disturbed, always disturbed.                                       *)
LEMMA WriteDisturbs ==
    ASSUME NEW e, NEW how, Write(e, how), disturbed
    PROVE  disturbed'
  BY DEF Write

LEMMA RunStepDisturbs ==
    ASSUME NEW e \in Execs, RunStep(e), disturbed
    PROVE  disturbed'
  <1>1. CASE Start(e) \/ TakePlanDecision(e) \/ TakeAnswers(e) \/ CheckContext(e) \/ LoopEnds(e)
             \/ ThinkCancelled(e) \/ ThinkAgain(e)
    BY <1>1 DEF Start, TakePlanDecision, TakeAnswers, CheckContext, LoopEnds, ThinkCancelled,
                ThinkAgain, ctx
  <1>2. CASE Dispatch(e) \/ ToolStarts(e) \/ ToolRefused(e) \/ ToolRuns(e) \/ ToolLeft(e)
             \/ ToolEnds(e) \/ NeedsPermission(e)
    BY <1>2 DEF Dispatch, ToolStarts, ToolRefused, ToolRuns, ToolLeft, ToolEnds,
                NeedsPermission, ctx
  <1>3. CASE KeepPrompts(e) \/ KeepPlan(e) \/ Finish(e) \/ FinishClose(e) \/ FinishRecord(e)
             \/ FinishRelease(e) \/ Exit(e)
    BY <1>3 DEF KeepPrompts, KeepPlan, Finish, FinishClose, FinishRecord, FinishRelease, Exit, ctx
  <1>4. CASE Begin(e) \/ ParkPlan(e) \/ BeginRound(e) \/ Announce(e) \/ WrapUp(e) \/ Compact(e)
    BY <1>4, WriteDisturbs DEF Begin, ParkPlan, BeginRound, Announce, WrapUp, Compact
  <1>5. CASE Compacted(e) \/ BeginTools(e) \/ ParkCalls(e) \/ Ask(e)
    BY <1>5, WriteDisturbs DEF Compacted, BeginTools, ParkCalls, Ask
  <1>6. CASE Propose(e) \/ ThinkEnds(e) \/ LastWords(e)
    BY <1>6, WriteDisturbs DEF Propose, ThinkEnds, LastWords
  <1> QED
    BY <1>1, <1>2, <1>3, <1>4, <1>5, <1>6 DEF RunStep

(* Who works on the run works on its newest number, and nobody else does.  *)
LEMMA OwnerAlone ==
    ASSUME OwnerInv, NEW e \in Active
    PROVE  /\ Active = {e} /\ Claimers = {} /\ Submitted /\ ~Free
           /\ \A c \in Callers : rpc[c].at \notin Handing
  <1>1. Active = {e} /\ Claimers = {} /\ executing
    BY DEF OwnerInv, OneOwner, Unowned
  <1>2. Submitted
    BY <1>1 DEF OwnerInv, BeforeSubmit, Submitted
  <1> QED
    BY <1>1, <1>2 DEF Free, Claimers, Handing

Steady == UNCHANGED <<dead, late, disturbed>>

LEMMA CalmRunKeeps ==
    ASSUME OwnerInv, CalmInv, ~disturbed', NEW e \in Execs, RunStep(e)
    PROVE  Numbered' /\ Undisturbed' /\ Agreed'
  <1>1. Numbered /\ Undisturbed /\ Agreed
    BY RunStepDisturbs DEF CalmInv
  <1>2. CASE ~Exit(e)
    <2>1. Working(e)
      BY <1>2, RunStepWorks DEF OwnerInv
    <2>2. e \in Active
      BY <2>1 DEF Working, AtWork, Active
    <2>3. /\ Active = {e} /\ Claimers = {} /\ Submitted
          /\ \A c \in Callers : rpc[c].at \notin Handing
      BY <2>2, OwnerAlone
    <2>4. CalmBefore(e)
      BY <1>1, <2>2, <2>3 DEF Undisturbed, Agreed, OwnerInv, CalmBefore, Together
    <2>5. CalmAfter(e)
      BY <1>2, <2>4, CalmRunStep
    <2>6. PICK at \in AtWork : pc' = [pc EXCEPT ![e] = at]
      BY <2>1 DEF Working
    <2>7. Active' = {e} /\ Started' = Started /\ Submitted'
      BY <2>1, <2>3, <2>6 DEF Working, OwnerInv, AtWork, Active, Started, Submitted
    <2>8. Claimers' = {} /\ \A c \in Callers : rpc'[c].at \notin Handing
      BY <2>3, <2>5 DEF CalmAfter, Claimers
    <2>9. Numbered'
      BY <1>1, <2>1, <2>3, <2>5, <2>7, <2>8 DEF Numbered, CalmAfter, Working
    <2>10. Undisturbed'
      BY <1>1, <2>3, <2>5, <2>7 DEF Undisturbed, CalmAfter
    <2>11. Agreed'
      BY <2>5, <2>7, <2>8 DEF Agreed, CalmAfter, Together, Free
    <2> QED
      BY <2>9, <2>10, <2>11
  <1>3. CASE Exit(e)
    <2>1. e \in Active /\ pc[e] = "exit"
      BY <1>3 DEF Exit, Active
    <2>2. /\ Active = {e} /\ Claimers = {} /\ Submitted
          /\ \A c \in Callers : rpc[c].at \notin Handing
      BY <2>1, OwnerAlone
    <2>3. /\ pc' = [pc EXCEPT ![e] = "gone"]
          /\ UNCHANGED <<states, record, dead, current, late, rpc>>
          /\ result' = [result EXCEPT ![e] = "none"] /\ asks' = [asks EXCEPT ![e] = {}]
      BY <1>3 DEF Exit, Go, sched, ctx
    <2>4. Active' = {} /\ Started' = Started /\ Submitted'
      BY <2>1, <2>2, <2>3 DEF OwnerInv, Active, Started, Submitted
    <2>5. Claimers' = {} /\ \A c \in Callers : rpc'[c].at \notin Handing
      BY <2>2, <2>3 DEF Claimers
    <2>6. Numbered'
      BY <1>1, <2>2, <2>3, <2>4, <2>5 DEF Numbered
    <2>7. Undisturbed'
      BY <1>1, <2>3, <2>4 DEF Undisturbed
    <2>8. recorded = actor /\ (held => machine = "waiting_user")
      BY <1>1, <2>1 DEF Agreed, Place
    <2>9. Agreed'
      BY <1>1, <2>2, <2>3, <2>4, <2>5, <2>8 DEF Agreed, states, record
    <2> QED
      BY <2>6, <2>7, <2>9
  <1> QED
    BY <1>2, <1>3

(* A caller that only looks, answers or returns changes none of the copies.*)
Aside(c) == Begins(c) \/ Recovered(c) \/ ResumeLook(c) \/ ConfirmStep(c) \/ DecideStep(c)
Untouched == UNCHANGED <<states, record, late, dead, current, disturbed, pc, result, asks>>

LEMMA AsideCalm ==
    ASSUME RpcOK, NEW c \in Callers, Aside(c), ~disturbed'
    PROVE  Untouched /\ Calling(c) /\ rpc'[c].at \notin Cancelling
  <1> USE DEF Untouched, Cancelling
  <1>1. CASE Begins(c)
    <2>1. Calling(c)
      BY <1>1, BeginsCalls
    <2>2. CASE ResumeBegin(c)
      <3>1. rpc'[c].at = "resume"
        BY <2>2 DEF ResumeBegin, RpcOK
      <3> QED
        BY <2>1, <2>2, <3>1 DEF ResumeBegin, sched, ctx, exec
    <2>3. CASE ConfirmBegin(c)
      <3>1. rpc'[c].at = "pending"
        BY <2>3 DEF ConfirmBegin, RpcOK
      <3> QED
        BY <2>1, <2>3, <3>1 DEF ConfirmBegin, sched, ctx, exec
    <2>4. CASE DecideBegin(c)
      <3>1. rpc'[c].at = "count"
        BY <2>4 DEF DecideBegin, RpcOK
      <3> QED
        BY <2>1, <2>4, <3>1 DEF DecideBegin, sched, ctx, exec
    <2> QED
      BY <1>1, <2>2, <2>3, <2>4 DEF Begins, CancelBegin
  <1>2. CASE Recovered(c)
    BY <1>2, CallerStepCalls, ReturnMoves DEF CancelStep, Recovered, sched, ctx, exec
  <1>3. CASE ResumeLook(c)
    BY <1>3, CallerStepCalls, ToMoves, ReturnMoves DEF ResumeLook, Refuse, sched, ctx, exec
  <1>4. CASE ConfirmStep(c)
    <2>1. Calling(c)
      BY <1>4, CallerStepCalls
    <2>2. CASE ConfirmPending(c)
      BY <2>1, <2>2, ToMoves, ReturnMoves DEF ConfirmPending, sched, ctx, exec
    <2>3. CASE ConfirmRestore(c) \/ ConfirmDecide(c) \/ ConfirmRecord(c)
      BY <2>1, <2>3, ToMoves DEF ConfirmRestore, ConfirmDecide, ConfirmRecord, sched, ctx, exec
    <2>4. CASE ConfirmUndo(c)
      BY <2>1, <2>4, ReturnMoves DEF ConfirmUndo, sched, ctx, exec
    <2> QED
      BY <1>4, <2>2, <2>3, <2>4 DEF ConfirmStep
  <1>5. CASE DecideStep(c)
    <2>1. Calling(c)
      BY <1>5, CallerStepCalls
    <2>2. CASE DecideCount(c)
      <3>1. rpc'[c].at \in {"merge", "take_call"}
        BY <2>2 DEF DecideCount, RpcOK
      <3> QED
        BY <2>1, <2>2, <3>1 DEF DecideCount, sched, ctx, exec
    <2> QED
      BY <1>5, <2>1, <2>2, ToMoves, ReturnMoves
         DEF DecideStep, DecideMerge, DecideClaim, DecideAnswer, DecideNote, DecideUndo,
             sched, ctx, exec
  <1> QED
    BY <1>1, <1>2, <1>3, <1>4, <1>5 DEF Aside

(* Whoever moves about without the claim leaves the copies as they are.    *)
LEMMA MovingKeeps ==
    ASSUME Numbered, Undisturbed, Agreed, NEW c \in Callers, Untouched,
           \A d \in Callers \ {c} : rpc'[d] = rpc[d],
           rpc'[c].at \notin Cancelling, rpc[c].at \notin Handing, rpc'[c].at \notin Handing,
           rpc'[c].at \in Claiming => NextExec \in Execs
    PROVE  Numbered' /\ Undisturbed' /\ Agreed'
  <1>1. Active' = Active /\ Started' = Started /\ Submitted' = Submitted
    BY DEF Untouched, Active, Started, Submitted
  <1>2. NextExec' = NextExec
    BY <1>1 DEF NextExec
  <1>3. \A d \in Claimers' : d \in Claimers \/ d = c
    BY DEF Claimers
  <1>4. Numbered'
    BY <1>1, <1>2, <1>3 DEF Numbered, Untouched, Claimers, Claiming
  <1>5. Undisturbed'
    BY <1>1 DEF Undisturbed, Untouched
  <1>6. Free' = Free /\ \A d \in Callers : rpc'[d].at \in Handing => rpc[d].at \in Handing
    BY <1>1 DEF Free
  <1>7. \A e \in Execs : Place(e)' = Place(e)
    BY DEF Place, Untouched, states, record, Outcome
  <1>8. Agreed'
    BY <1>1, <1>6, <1>7 DEF Agreed, Untouched, states, record, Active
  <1> QED
    BY <1>4, <1>5, <1>8

(* Resume with the claim: nobody else is about to write the run.           *)
LEMMA ResumeCalm ==
    ASSUME OwnerInv, Numbered, Undisturbed, Agreed, NEW c \in Callers,
           ResumeClaim(c) \/ ResumeMove(c) \/ ResumeUnmark(c) \/ ResumeSpawn(c)
    PROVE  Numbered' /\ Undisturbed' /\ Agreed'
  <1>0. RpcOK
    BY DEF OwnerInv
  <1>1. CASE ResumeClaim(c)
    <2>1. Untouched /\ \A d \in Callers \ {c} : rpc'[d] = rpc[d]
      BY <1>0, <1>1, ToMoves, ReturnMoves DEF ResumeClaim, Refuse, Untouched, sched, ctx, exec
    <2>2. rpc[c].at = "claim" /\ rpc'[c].at \in {"idle", "undo", "thinking"}
      BY <1>0, <1>1, ToMoves, ReturnMoves DEF ResumeClaim, Refuse, At
    <2>3. rpc'[c].at = "thinking" => NextExec \in Execs
      BY <1>0, <1>1, ToMoves, ReturnMoves DEF ResumeClaim, Refuse
    <2> QED
      BY <2>1, <2>2, <2>3, MovingKeeps DEF Cancelling, Handing, Claiming
  <1>2. CASE c \in Claimers
    <2>1. /\ Claimers = {c} /\ Active = {} /\ Submitted /\ NextExec \in Execs
      BY <1>2 DEF OwnerInv, OneOwner, BeforeSubmit, Claimers, Submitted, At, Numbered
    <2>2. CASE ResumeMove(c)
      <3>1. rpc[c].at = "thinking" /\ Free
        BY <2>1, <2>2 DEF ResumeMove, At, Free, Claimers, Handing
      <3>2. /\ recorded = actor /\ (held => machine = "waiting_user")
            /\ machine = actor /\ actor = logged
        BY <2>1, <3>1 DEF Agreed
      <3>3. /\ UNCHANGED <<record, late, dead, current, disturbed, pc, result, asks>>
            /\ \A d \in Callers \ {c} : rpc'[d] = rpc[d]
            /\ RpcOK'
        BY <1>0, <2>2, ToMoves, ReturnMoves DEF ResumeMove, Refuse, sched, ctx, exec
      <3>4. CASE ~held
        <4>1. rpc'[c].at = "panic" /\ Untouched
          BY <1>0, <2>2, <3>3, <3>4, ToMoves DEF ResumeMove, Untouched
        <4> QED
          BY <3>1, <3>3, <4>1, MovingKeeps DEF Cancelling, Handing, Claiming
      <3>5. CASE held
        <4>1. CanMove(machine, "thinking") /\ Move("thinking", "done")
          BY <2>2, <3>2, <3>5, Table DEF ResumeMove
        <4>2. /\ machine' = "thinking" /\ actor' = "thinking" /\ logged' = "thinking"
              /\ Moved("thinking", "done")
          BY <3>2, <4>1, MoveTogether
        <4>3. rpc'[c].at = "unmark"
          BY <1>0, <2>2, <3>5, <4>2, ToMoves DEF ResumeMove
        <4>4. Active' = {} /\ Started' = Started /\ Submitted'
          BY <2>1, <3>3 DEF Active, Started, Submitted
        <4>5. NextExec' = NextExec
          BY <4>4 DEF NextExec
        <4>6. Numbered'
          BY <2>1, <3>3, <4>4, <4>5 DEF Numbered
        <4>7. Undisturbed'
          BY <3>3, <4>3, <4>4 DEF Undisturbed, Cancelling
        <4>8. ~Free'
          BY <4>3 DEF Free, Handing
        <4>9. Agreed'
          BY <2>1, <3>3, <3>5, <4>2, <4>4, <4>8 DEF Agreed, record
        <4> QED
          BY <4>6, <4>7, <4>9
      <3> QED
        BY <3>4, <3>5
    <2>3. CASE ResumeUnmark(c)
      <3>1. /\ UNCHANGED <<states, record, late, dead, current, disturbed, pc, result, asks>>
            /\ \A d \in Callers \ {c} : rpc'[d] = rpc[d]
            /\ rpc[c].at = "unmark" /\ rpc'[c].at = "spawn"
        BY <1>0, <2>3, ToMoves DEF ResumeUnmark, At, ctx, exec
      <3>2. machine = "thinking"
        BY <3>1 DEF Agreed, Handing
      <3>3. Active' = {} /\ Started' = Started /\ Submitted'
        BY <2>1, <3>1 DEF Active, Started, Submitted
      <3>4. NextExec' = NextExec
        BY <3>3 DEF NextExec
      <3>5. Numbered'
        BY <2>1, <3>1, <3>3, <3>4 DEF Numbered
      <3>6. Undisturbed'
        BY <3>1, <3>3 DEF Undisturbed, Cancelling
      <3>7. ~Free'
        BY <3>1 DEF Free, Handing
      <3>8. Agreed'
        BY <2>1, <3>1, <3>2, <3>3, <3>7 DEF Agreed, states, record
      <3> QED
        BY <3>5, <3>6, <3>8
    <2>4. CASE ResumeSpawn(c)
      <3>1. PICK n \in 0 .. MaxExecs : Started = 1 .. n
        BY DEF Numbered
      <3>2. n \in Int /\ NextExec = n + 1
        <4>1. n \in Int /\ 1 \in Int /\ n >= 0
          BY <3>1, RunLifeAssumption
        <4>2. Cardinality(1 .. n) = n
          BY <4>1, FS_Interval
        <4> QED
          BY <3>1, <4>1, <4>2 DEF NextExec
      <3>3. n + 1 \in Execs /\ n + 1 \in 0 .. MaxExecs /\ pc[n + 1] = "none"
        BY <2>1, <3>1, <3>2, RunLifeAssumption DEF Execs, Started
      <3>4. /\ pc' = [pc EXCEPT ![n + 1] = "start"] /\ dead' = dead \cup {current}
            /\ current' = n + 1
            /\ recorded' = "thinking" /\ rpc[c].at = "spawn" /\ Return(c)
            /\ UNCHANGED <<states, inMap, held, late, disturbed, result, asks>>
        BY <2>4, <3>2 DEF ResumeSpawn, At, sched
      <3>5. /\ \A d \in Callers \ {c} : rpc'[d] = rpc[d]
            /\ rpc'[c].at = "idle"
        BY <1>0, <3>4, ReturnMoves
      <3>6. pc \in [Execs -> ExecAt] /\ pc[1] # "none" /\ 1 \in Execs
        BY <2>1, RunLifeAssumption DEF OwnerInv, Submitted, Execs
      <3>7. /\ pc'[n + 1] = "start" /\ \A e \in Execs \ {n + 1} : pc'[e] = pc[e]
            /\ Submitted'
        BY <3>3, <3>4, <3>6 DEF Submitted
      <3>8. Started' = 1 .. (n + 1) /\ Active' = {n + 1}
        <4>1. Started' = Started \cup {n + 1} /\ Active' = {n + 1}
          BY <2>1, <3>3, <3>7 DEF Started, Active
        <4>2. 1 .. (n + 1) = (1 .. n) \cup {n + 1}
          BY <3>1, <3>2, RunLifeAssumption
        <4> QED
          BY <3>1, <4>1, <4>2
      <3>9. Claimers' = {} /\ \A d \in Callers : rpc'[d].at \notin Handing
        BY <2>1, <3>5 DEF Claimers, Handing
      <3>10. current \in Started
        BY <2>1 DEF Numbered
      <3>11. dead' \subseteq Started /\ n + 1 \notin Started
        BY <3>1, <3>2, <3>4, <3>10 DEF Numbered
      <3>12. Numbered'
        BY <3>1, <3>2, <3>3, <3>4, <3>8, <3>9, <3>11 DEF Numbered
      <3>13. Undisturbed'
        BY <3>4, <3>5, <3>8, <3>11 DEF Undisturbed, Cancelling
      <3>14. machine = "thinking"
        BY <3>4 DEF Agreed, Handing
      <3>15. Place(n + 1)'
        BY <3>4, <3>7, <3>14 DEF Place, states, AtThought, AtTools, AtEnd
      <3>16. Agreed'
        BY <2>1, <3>4, <3>7, <3>8, <3>9, <3>14, <3>15 DEF Agreed, states, Free
      <3> QED
        BY <3>12, <3>13, <3>16
    <2> QED
      BY <1>1, <2>2, <2>3, <2>4
  <1> QED
    BY <1>1, <1>2 DEF ResumeMove, ResumeUnmark, ResumeSpawn, Claimers, At

LEMMA CalmInit == Init => CalmInv
  <1> SUFFICES ASSUME Init PROVE CalmInv
    OBVIOUS
  <1>1. 1 \in Execs /\ 0 \in 0 .. MaxExecs
    BY RunLifeAssumption DEF Execs
  <1>2. Active = {} /\ Started = {} /\ Claimers = {} /\ ~Submitted
    BY <1>1 DEF Init, Active, Started, Claimers, Submitted, Idle
  <1>3. Started = 1 .. 0
    BY <1>2
  <1>4. Numbered
    BY <1>1, <1>2, <1>3 DEF Init, Numbered
  <1>5. Undisturbed
    BY <1>2 DEF Init, Undisturbed, Cancelling, Idle
  <1>6. Agreed
    BY <1>2 DEF Init, Agreed, Handing, Idle
  <1> QED
    BY <1>4, <1>5, <1>6 DEF CalmInv

(* Submit starts the first execution, on a run that nobody has stopped.    *)
LEMMA SubmitCalm ==
    ASSUME OwnerInv, Numbered, Undisturbed, Agreed, Submit
    PROVE  Numbered' /\ Undisturbed' /\ Agreed'
  <1>1. /\ pc[1] = "none" /\ Active = {} /\ Claimers = {} /\ current = 1
        /\ \A c \in Callers : rpc[c].at = "idle"
    BY DEF Submit, OwnerInv, BeforeSubmit, OneOwner, Unowned, At
  <1>2. 1 \in Execs /\ 1 \in 0 .. MaxExecs /\ pc \in [Execs -> ExecAt]
    BY RunLifeAssumption DEF Execs, OwnerInv
  <1>3. PICK n \in 0 .. MaxExecs : Started = 1 .. n
    BY DEF Numbered
  <1>4. Started = {} /\ dead = {}
    <2>1. n \in Nat /\ 1 \notin Started
      BY <1>1, <1>3, RunLifeAssumption DEF Started
    <2> QED
      BY <1>3, <2>1 DEF Numbered
  <1>5. /\ pc' = [pc EXCEPT ![1] = "start"] /\ machine' = "queued" /\ actor' = "queued"
        /\ logged' = "queued" /\ inMap'
        /\ UNCHANGED <<held, recorded, late, dead, current, disturbed, result, asks, rpc>>
    BY DEF Submit, sched, ctx
  <1>6. pc'[1] = "start" /\ \A e \in Execs \ {1} : pc'[e] = pc[e]
    BY <1>2, <1>5
  <1>7. Active' = {1} /\ Started' = {1} /\ Submitted'
    BY <1>1, <1>2, <1>4, <1>6 DEF Active, Started, Submitted
  <1>8. {1} = 1 .. 1
    OBVIOUS
  <1>9. Numbered'
    BY <1>1, <1>2, <1>4, <1>5, <1>7, <1>8 DEF Numbered, Claimers
  <1>10. Undisturbed'
    BY <1>4, <1>5 DEF Undisturbed
  <1>11. machine = "created" /\ held
    BY <1>1 DEF Agreed, Submitted, Final
  <1>12. Place(1)'
    BY <1>5, <1>6 DEF Place, AtThought, AtTools, AtEnd
  <1>13. Agreed'
    BY <1>1, <1>5, <1>7, <1>11, <1>12 DEF Agreed, Handing, Free
  <1> QED
    BY <1>9, <1>10, <1>13

LEMMA CalmNext == OwnerInv /\ CalmInv /\ [Next]_vars => CalmInv'
  <1> SUFFICES ASSUME OwnerInv, CalmInv, [Next]_vars, ~disturbed'
               PROVE  Numbered' /\ Undisturbed' /\ Agreed'
    BY DEF CalmInv
  <1>0. RpcOK
    BY DEF OwnerInv
  <1>1. ASSUME NEW e \in Execs, RunStep(e) PROVE Numbered' /\ Undisturbed' /\ Agreed'
    BY <1>1, CalmRunKeeps
  <1>2. CASE Submit
    BY <1>2, SubmitCalm DEF CalmInv, Submit, ctx
  <1>3. ASSUME NEW e \in Execs, Expire(e) PROVE FALSE
    BY <1>3 DEF Expire
  <1>4. CASE LateToolRuns
    BY <1>4 DEF LateToolRuns, CalmInv, Undisturbed, ctx
  <1>5. ASSUME NEW c \in Callers, Begins(c) \/ RpcStep(c)
        PROVE  Numbered' /\ Undisturbed' /\ Agreed'
    <2>1. CASE Aside(c)
      <3>1. Untouched /\ Calling(c) /\ rpc'[c].at \notin Cancelling
        BY <1>0, <2>1, AsideCalm
      <3>2. Numbered /\ Undisturbed /\ Agreed
        BY <3>1 DEF CalmInv, Untouched
      <3> QED
        BY <3>1, <3>2, MovingKeeps DEF Calling, Claiming, Handing
    <2>2. CASE CancelMark(c) \/ CancelContext(c) \/ CancelMove(c) \/ CancelClose(c)
      <3>1. ~disturbed /\ rpc[c].at \in Cancelling
        BY <2>2 DEF CancelMark, CancelContext, CancelMove, CancelClose, At, Cancelling, ctx
      <3> QED
        BY <3>1 DEF CalmInv, Undisturbed
    <2>3. CASE ResumeClaim(c) \/ ResumeMove(c) \/ ResumeUnmark(c) \/ ResumeSpawn(c)
      <3>1. ~disturbed
        BY <2>3 DEF ResumeClaim, ResumeMove, ResumeUnmark, ResumeSpawn, ctx
      <3> QED
        BY <2>3, <3>1, ResumeCalm DEF CalmInv
    <2> QED
      BY <1>5, <2>1, <2>2, <2>3 DEF RpcStep, CancelStep, ResumeStep, Aside
  <1>6. CASE UNCHANGED vars
    <2>1. UNCHANGED <<Active, Started, Submitted, NextExec, Claimers, Free>>
      BY <1>6 DEF vars, exec, Active, Started, Submitted, NextExec, Claimers, Free
    <2>2. \A e \in Execs : Place(e)' = Place(e)
      BY <1>6 DEF vars, states, record, exec, Place, Outcome
    <2> QED
      BY <1>6, <2>1, <2>2 DEF CalmInv, Numbered, Undisturbed, Agreed, vars, states, record,
                              sched, ctx, exec, Active
  <1> QED
    BY <1>1, <1>2, <1>3, <1>4, <1>5, <1>6 DEF Next

THEOREM CalmInvariant == Spec => []CalmInv
  BY OwnerInvariant, CalmInit, CalmNext, PTL DEF Spec

(* Until a Cancel begins or a deadline passes, the machine, the actor and  *)
(* the log never come apart, and the engine's record tells the same where  *)
(* nobody is at work on the run (applyTransition, finishRun, Resume).      *)
THEOREM RunCopiesAgree == Spec => []CopiesAgree
  <1>1. CalmInv => CopiesAgree
    BY DEF CalmInv, Agreed, CopiesAgree, Unowned, Free, Claimers, Handing
  <1> QED
    BY <1>1, CalmInvariant, PTL

-----------------------------------------------------------------------------
(* What a parked run leaves to answer.  A caller that has taken the        *)
(* proposal or a prompt puts it back unless it starts an execution, which  *)
(* leaves a new one if it parks the run again.                             *)

AtAnswer == {"pending", "restore", "decide", "log_decision", "count", "merge", "take_call",
             "answer", "note"}
AtResume == {"resume", "claim", "thinking"}

(* ConfirmPlan and Decide, not Resume alone.                               *)
OpKept(c) ==
    /\ rpc[c].at \in AtAnswer => "op" \in DOMAIN rpc[c] /\ rpc[c].op # "resume"
    /\ rpc[c].at \in AtResume => "op" \in DOMAIN rpc[c]
Restoring(c) ==
    \/ rpc[c].at \in {"log_decision", "answer", "note", "undo"}
    \/ rpc[c].at \in AtResume /\ rpc[c].op # "resume"

Answerable == planPending \/ waiting # {} \/ \E c \in Callers : Restoring(c)

Settling == {"finish", "close", "record", "release", "exit"}
Settled == \A e \in Active : pc[e] \in Settling

(* An execution that parks the run on calls has calls to ask for.          *)
AsksKept(e) ==
    pc[e] \in {"park_calls", "ask"} \/ (pc[e] = "after" /\ result[e] = "calls") => asks[e] # {}

Parked ==
    /\ \A c \in Callers : OpKept(c)
    /\ \A e \in Active : AsksKept(e)
    /\ machine = "waiting_user" /\ Settled => Answerable

ParkInv == ~disturbed => Parked

(* What an execution needs to park the run answerably, and what it leaves. *)
ParkBefore(e) ==
    /\ AsksKept(e)
    /\ machine = "waiting_user" /\ pc[e] \in Settling => Answerable

LEMMA ParkRunStep ==
    ASSUME NEW e \in Execs, CalmBefore(e), CalmAfter(e), ParkBefore(e), RunStep(e), ~Exit(e)
    PROVE  ParkBefore(e)'
  <1>0. /\ pc \in [Execs -> ExecAt] /\ result = [f \in Execs |-> result[f]]
        /\ asks = [f \in Execs |-> asks[f]]
        /\ Place(e) /\ Place(e)' /\ UNCHANGED rpc /\ e \notin dead
    BY DEF CalmBefore, CalmAfter
  <1> DEFINE Elsewhere == ExecAt \ (Settling \cup {"park_calls", "ask", "after"})
  <1>1. ASSUME NEW at \in Elsewhere, Go(e, at)
        PROVE  ParkBefore(e)'
    BY <1>0, <1>1 DEF Go, ParkBefore, AsksKept
  <1>2. ASSUME NEW r, r # "calls", EndAs(e, "after", r)
        PROVE  ParkBefore(e)'
    BY <1>0, <1>2 DEF EndAs, Go, ParkBefore, AsksKept, Settling, ExecAt
  <1>3. CASE Start(e)
    BY <1>0, <1>3 DEF Start, Go, ParkBefore, AsksKept, ExecAt, Place, states
  <1>4. CASE Begin(e)
    <2>1. Go(e, "take_plan") \/ EndAs(e, "finish", "failed")
      BY <1>4 DEF Begin
    <2>2. CASE EndAs(e, "finish", "failed")
      <3>1. pc'[e] = "finish" /\ result'[e] = "failed"
        BY <1>0, <2>2 DEF EndAs, Go, ExecAt
      <3>2. machine' = "failed"
        BY <1>0, <3>1 DEF Place, AtEnd, Outcome
      <3> QED
        BY <3>1, <3>2 DEF ParkBefore, AsksKept
    <2>3. "take_plan" \in Elsewhere
      BY DEF ExecAt, Settling
    <2> QED
      BY <1>1, <2>1, <2>2, <2>3
  <1>5. CASE \E at \in {"take_answers", "plan", "round", "abort", "propose", "enter", "wrap_up",
                        "wrap", "fail", "park_plan", "think", "last_words", "act", "compacted",
                        "announce", "dispatch", "submitted", "starting", "tool"} : Go(e, at)
    BY <1>1, <1>5 DEF ExecAt, Settling
  <1>6. CASE \E r \in Final \cup {"plan"} : EndAs(e, "after", r)
    BY <1>2, <1>6 DEF Final
  <1>7. CASE TakePlanDecision(e) \/ TakeAnswers(e) \/ CheckContext(e) \/ Propose(e) \/ ThinkAgain(e)
    BY <1>5, <1>7 DEF TakePlanDecision, TakeAnswers, CheckContext, Propose, ThinkAgain
  <1>8. CASE LoopEnds(e) \/ ThinkEnds(e) \/ ThinkCancelled(e)
    BY <1>6, <1>8 DEF LoopEnds, ThinkEnds, ThinkCancelled, Final
  <1>9. CASE ParkPlan(e) \/ BeginRound(e) \/ Announce(e)
    BY <1>5, <1>6, <1>9 DEF ParkPlan, BeginRound, Announce, Final
  <1>10. CASE WrapUp(e) \/ LastWords(e)
    BY <1>5, <1>6, <1>10 DEF WrapUp, LastWords, Final
  <1>11. CASE Compact(e) \/ Compacted(e) \/ BeginTools(e)
    BY <1>5, <1>6, <1>11 DEF Compact, Compacted, BeginTools, Final
  <1>12. CASE Dispatch(e) \/ ToolStarts(e) \/ ToolRefused(e) \/ ToolRuns(e)
    BY <1>5, <1>6, <1>12 DEF Dispatch, ToolStarts, ToolRefused, ToolRuns, Final
  <1>13. CASE ToolLeft(e) \/ ToolEnds(e)
    BY <1>5, <1>6, <1>13 DEF ToolLeft, ToolEnds, Final
  <1>14. CASE NeedsPermission(e)
    <2>1. PICK S \in SUBSET (Calls \ issued) \ {{}} :
              LET parked == {c \in S : folded \cap {c, AnyCall} = {}} IN
              /\ asks' = [asks EXCEPT ![e] = parked]
              /\ Go(e, IF parked = {} THEN "round" ELSE "park_calls")
      BY <1>14 DEF NeedsPermission
    <2>2. Go(e, "round") \/ (Go(e, "park_calls") /\ asks'[e] # {})
      BY <1>0, <2>1
    <2>3. CASE Go(e, "park_calls") /\ asks'[e] # {}
      BY <1>0, <2>3 DEF Go, ParkBefore, AsksKept, ExecAt, Settling
    <2> QED
      BY <1>5, <2>2, <2>3
  <1>15. CASE ParkCalls(e)
    <2>1. Go(e, "ask") \/ \E r \in {"failed", "cancelled"} : EndAs(e, "after", r)
      BY <1>15 DEF ParkCalls
    <2>2. CASE Go(e, "ask")
      <3>1. pc'[e] = "ask" /\ asks'[e] # {}
        BY <1>0, <1>15, <2>2 DEF ParkCalls, Go, ParkBefore, AsksKept, ExecAt
      <3> QED
        BY <3>1 DEF ParkBefore, AsksKept, Settling
    <2> QED
      BY <1>6, <2>1, <2>2 DEF Final
  <1>16. CASE Ask(e)
    <2>1. asks'[e] # {} /\ Go(e, "after")
      BY <1>16 DEF Ask, EndAs, ParkBefore, AsksKept
    <2> QED
      BY <1>0, <2>1 DEF Go, ParkBefore, AsksKept, ExecAt, Settling
  <1>17. CASE KeepPrompts(e)
    <2>1. CASE result[e] = "calls"
      <3>1. waiting' # {}
        BY <1>17, <2>1 DEF KeepPrompts, ParkBefore, AsksKept
      <3> QED
        BY <1>0, <1>17, <2>1, <3>1 DEF KeepPrompts, Go, ParkBefore, AsksKept, Answerable, ExecAt
    <2>2. CASE result[e] = "plan"
      BY <1>0, <1>17, <2>2 DEF KeepPrompts, Go, ParkBefore, AsksKept, ExecAt, Settling
    <2>3. CASE result[e] \in Final
      <3>1. machine' \in Final /\ pc'[e] = "finish"
        BY <1>0, <1>17, <2>3 DEF KeepPrompts, Go, ExecAt, Final, Place, AtEnd, Outcome, states
      <3> QED
        BY <3>1 DEF ParkBefore, AsksKept, Final
    <2> QED
      BY <1>0, <1>17, <2>1, <2>2, <2>3 DEF KeepPrompts, Place, AtEnd
  <1>18. CASE KeepPlan(e)
    BY <1>0, <1>18 DEF KeepPlan, Go, ParkBefore, AsksKept, Answerable, ExecAt
  <1>19. CASE Finish(e) \/ FinishClose(e) \/ FinishRecord(e)
    <2>1. /\ UNCHANGED <<result, planPending, waiting>>
          /\ pc[e] \in {"finish", "close", "record"} /\ pc'[e] \in {"close", "record", "release"}
      BY <1>0, <1>19 DEF Finish, FinishClose, FinishRecord, Go, plan, prompts, ExecAt
    <2>2. machine' = machine
      BY <1>0, <2>1 DEF Place, AtEnd, Outcome
    <2>3. Answerable' = Answerable
      BY <1>0, <2>1 DEF Answerable, Restoring
    <2> QED
      BY <2>1, <2>2, <2>3 DEF ParkBefore, AsksKept, Settling
  <1>20. CASE FinishRelease(e)
    <2>1. /\ machine' = machine /\ machine = Outcome(e) /\ pc[e] = "release" /\ pc'[e] = "exit"
          /\ planPending' = planPending
      BY <1>0, <1>20 DEF FinishRelease, Go, states, plan, Place, AtEnd, ExecAt
    <2>2. CASE Outcome(e) \in Final
      BY <2>1, <2>2 DEF ParkBefore, AsksKept, Final
    <2>3. CASE UNCHANGED waiting
      <3>1. Answerable' = Answerable
        BY <1>0, <2>1, <2>3 DEF Answerable, Restoring
      <3> QED
        BY <2>1, <3>1 DEF ParkBefore, AsksKept, Settling
    <2> QED
      BY <1>20, <2>2, <2>3 DEF FinishRelease
  <1> QED
    BY <1>3, <1>4, <1>7, <1>8, <1>9, <1>10, <1>11, <1>12, <1>13, <1>14, <1>15, <1>16, <1>17,
       <1>18, <1>19, <1>20
    DEF RunStep

(* A caller keeps what it asks for until it returns.                       *)
LEMMA ToKeepsOp ==
    ASSUME RpcOK, NEW c \in Callers, NEW at, To(c, at), "op" \in DOMAIN rpc[c]
    PROVE  "op" \in DOMAIN rpc'[c] /\ rpc'[c].op = rpc[c].op
  <1>1. rpc'[c] = [rpc[c] EXCEPT !.at = at]
    BY DEF To, RpcOK
  <1> QED
    BY <1>1

(* A caller's step leaves the run answerable: what it takes it holds.      *)
KeepsAnswer(c) ==
    \/ planPending' \/ waiting' # {} \/ Restoring(c)'
    \/ UNCHANGED <<planPending, waiting>> /\ ~Restoring(c)

LEMMA AsideAnswers ==
    ASSUME RpcOK, NEW c \in Callers, OpKept(c), Aside(c) \/ ResumeClaim(c), ~disturbed'
    PROVE  OpKept(c)' /\ KeepsAnswer(c)
  <1> USE DEF OpKept, KeepsAnswer, Restoring, AtAnswer, AtResume
  <1>1. CASE ResumeBegin(c)
    <2>1. rpc'[c] = [at |-> "resume", op |-> "resume"]
      BY <1>1 DEF ResumeBegin, RpcOK
    <2> QED
      BY <1>1, <2>1 DEF ResumeBegin, At, plan, prompts
  <1>2. CASE ConfirmBegin(c)
    <2>1. \E op \in {"approved", "rejected"} : rpc'[c] = [at |-> "pending", op |-> op]
      BY <1>2 DEF ConfirmBegin, RpcOK
    <2> QED
      BY <1>2, <2>1 DEF ConfirmBegin, At, plan, prompts
  <1>3. CASE DecideBegin(c)
    <2>1. PICK call \in Calls, op \in {"allow", "deny"} :
              rpc' = [rpc EXCEPT ![c] = [at |-> "count", op |-> op, call |-> call, found |-> {}]]
      BY <1>3 DEF DecideBegin
    <2>2. rpc'[c] = [at |-> "count", op |-> op, call |-> call, found |-> {}]
      BY <2>1 DEF RpcOK
    <2> QED
      BY <1>3, <2>2 DEF DecideBegin, At, plan, prompts
  <1>4. CASE Recovered(c)
    BY <1>4, ReturnMoves DEF Recovered, At, plan, prompts
  <1>5. CASE ResumeLook(c) \/ ResumeClaim(c)
    <2>1. /\ rpc[c].at \in {"resume", "claim"} /\ "op" \in DOMAIN rpc[c]
          /\ UNCHANGED <<planPending, waiting>>
      BY <1>5 DEF ResumeLook, ResumeClaim, At, plan, prompts
    <2>2. \/ \E at \in {"claim", "thinking", "undo"} : To(c, at)
          \/ rpc[c].op = "resume" /\ Return(c)
      BY <1>5 DEF ResumeLook, ResumeClaim, Refuse
    <2>3. CASE rpc[c].op = "resume" /\ Return(c)
      BY <2>1, <2>3, ReturnMoves
    <2>4. ASSUME NEW at \in {"claim", "thinking", "undo"}, To(c, at)
          PROVE  OpKept(c)' /\ KeepsAnswer(c)
      BY <2>1, <2>4, ToMoves, ToKeepsOp
    <2> QED
      BY <2>2, <2>3, <2>4
  <1>6. CASE ConfirmPending(c)
    BY <1>6, ToMoves, ToKeepsOp, ReturnMoves DEF ConfirmPending, At, plan, prompts
  <1>7. CASE ConfirmRestore(c) \/ ConfirmDecide(c)
    BY <1>7, ToMoves, ToKeepsOp DEF ConfirmRestore, ConfirmDecide, At
  <1>8. CASE ConfirmRecord(c)
    BY <1>8, ToMoves, ToKeepsOp DEF ConfirmRecord, At
  <1>9. CASE ConfirmUndo(c) \/ DecideUndo(c)
    BY <1>9, ReturnMoves DEF ConfirmUndo, DecideUndo
  <1>10. CASE DecideCount(c)
    <2>1. rpc[c].at = "count" /\ "op" \in DOMAIN rpc[c] /\ rpc[c].op # "resume"
      BY <1>10 DEF DecideCount, At
    <2> DEFINE at == IF waiting = {} THEN "merge" ELSE "take_call"
               found == IF waiting = {} THEN asked ELSE {}
    <2>2. rpc'[c] = [rpc[c] EXCEPT !.at = at, !.found = found]
      BY <1>10 DEF DecideCount, RpcOK
    <2>3. "at" \in DOMAIN rpc[c]
      BY DEF RpcOK
    <2>4. at \in {"merge", "take_call"} /\ rpc'[c].at = at /\ "op" \in DOMAIN rpc'[c] /\ rpc'[c].op = rpc[c].op
      BY <2>1, <2>2, <2>3
    <2> QED
      BY <1>10, <2>1, <2>4 DEF DecideCount, plan, prompts
  <1>11. CASE DecideMerge(c)
    BY <1>11, ToMoves, ToKeepsOp DEF DecideMerge, At, plan
  <1>12. CASE DecideClaim(c)
    BY <1>12, ToMoves, ToKeepsOp, ReturnMoves DEF DecideClaim, At, plan
  <1>13. CASE DecideAnswer(c) \/ DecideNote(c)
    BY <1>13, ToMoves, ToKeepsOp DEF DecideAnswer, DecideNote, At
  <1> QED
    BY <1>1, <1>2, <1>3, <1>4, <1>5, <1>6, <1>7, <1>8, <1>9, <1>10, <1>11, <1>12, <1>13
    DEF Aside, Begins, CancelBegin, ConfirmStep, DecideStep

LEMMA ParkedKept ==
    ASSUME Parked, NEW c \in Callers, \A d \in Callers \ {c} : rpc'[d] = rpc[d],
           OpKept(c)', UNCHANGED <<pc, result, asks>>,
           machine' = "waiting_user" => machine = "waiting_user" /\ KeepsAnswer(c)
    PROVE  Parked'
  <1>1. \A d \in Callers : OpKept(d)'
    BY DEF Parked, OpKept
  <1>2. Active' = Active /\ Settled' = Settled
    BY DEF Active, Settled
  <1>3. \A e \in Active' : AsksKept(e)'
    BY <1>2 DEF Parked, AsksKept, Active
  <1>4. ASSUME machine' = "waiting_user", Settled' PROVE Answerable'
    <2>1. KeepsAnswer(c) /\ Answerable
      BY <1>2, <1>4 DEF Parked
    <2>2. CASE planPending' \/ waiting' # {} \/ Restoring(c)'
      BY <2>2 DEF Answerable
    <2>3. CASE UNCHANGED <<planPending, waiting>> /\ ~Restoring(c)
      <3>1. ASSUME NEW d \in Callers, Restoring(d) PROVE Restoring(d)'
        BY <2>3, <3>1 DEF Restoring
      <3> QED
        BY <2>1, <2>3, <3>1 DEF Answerable
    <2> QED
      BY <2>1, <2>2, <2>3 DEF KeepsAnswer
  <1> QED
    BY <1>1, <1>3, <1>4 DEF Parked

LEMMA ParkRunKeeps ==
    ASSUME OwnerInv, CalmInv, Parked, ~disturbed', NEW e \in Execs, RunStep(e)
    PROVE  Parked'
  <1>1. Numbered /\ Undisturbed /\ Agreed
    BY RunStepDisturbs DEF CalmInv
  <1>2. CASE ~Exit(e)
    <2>1. Working(e)
      BY <1>2, RunStepWorks DEF OwnerInv
    <2>2. e \in Active
      BY <2>1 DEF Working, AtWork, Active
    <2>3. Active = {e} /\ Submitted
      BY <2>2, OwnerAlone
    <2>4. CalmBefore(e)
      BY <1>1, <2>2, <2>3 DEF Undisturbed, Agreed, OwnerInv, CalmBefore, Together
    <2>5. CalmAfter(e)
      BY <1>2, <2>4, CalmRunStep
    <2>6. ParkBefore(e)
      BY <2>3 DEF Parked, ParkBefore, Settled
    <2>7. ParkBefore(e)'
      BY <1>2, <2>4, <2>5, <2>6, ParkRunStep
    <2>8. Active' = {e}
      BY <2>1, <2>3 DEF Working, OwnerInv, AtWork, Active
    <2>9. \A c \in Callers : OpKept(c)'
      BY <2>5 DEF Parked, CalmAfter, OpKept
    <2> QED
      BY <2>7, <2>8, <2>9 DEF Parked, ParkBefore, Settled
  <1>3. CASE Exit(e)
    <2>1. e \in Active /\ pc[e] = "exit"
      BY <1>3 DEF Exit, Active
    <2>2. Active = {e}
      BY <2>1, OwnerAlone
    <2>3. /\ pc' = [pc EXCEPT ![e] = "gone"]
          /\ UNCHANGED <<machine, planPending, waiting, rpc>>
      BY <1>3 DEF Exit, Go, states, plan, prompts
    <2>4. Active' = {}
      BY <2>1, <2>2, <2>3 DEF OwnerInv, Active
    <2>5. \A c \in Callers : OpKept(c)'
      BY <2>3 DEF Parked, OpKept
    <2>6. Settled /\ Answerable' = Answerable
      BY <2>1, <2>2, <2>3 DEF Settled, Settling, Answerable, Restoring
    <2> QED
      BY <2>3, <2>4, <2>5, <2>6 DEF Parked
  <1> QED
    BY <1>2, <1>3

(* Resume with the claim works on a parked run, and it is parked no more.  *)
LEMMA ResumeParked ==
    ASSUME OwnerInv, Numbered, Agreed, Parked, NEW c \in Callers,
           ResumeMove(c) \/ ResumeUnmark(c) \/ ResumeSpawn(c)
    PROVE  Parked'
  <1>0. RpcOK /\ \A d \in Callers : OpKept(d)
    BY DEF OwnerInv, Parked
  <1>1. /\ c \in Claimers /\ Claimers = {c} /\ Active = {} /\ Submitted
    BY DEF ResumeMove, ResumeUnmark, ResumeSpawn, OwnerInv, OneOwner, BeforeSubmit, Claimers,
           Submitted, At
  <1>2. CASE ResumeMove(c)
    <2>1. rpc[c].at = "thinking" /\ Free
      BY <1>1, <1>2 DEF ResumeMove, At, Free, Claimers, Handing
    <2>2. (held => machine = "waiting_user") /\ machine = actor /\ actor = logged
      BY <1>1, <2>1 DEF Agreed
    <2>3. /\ UNCHANGED <<pc, result, asks>> /\ \A d \in Callers \ {c} : rpc'[d] = rpc[d]
          /\ rpc'[c].at \in {"panic", "unmark", "idle", "undo"}
      BY <1>0, <1>2, ToMoves, ReturnMoves DEF ResumeMove, Refuse, exec
    <2>4. machine' # "waiting_user"
      <3>1. CASE held
        <4>1. CanMove(machine, "thinking") /\ Move("thinking", "done")
          BY <1>2, <2>2, <3>1, Table DEF ResumeMove
        <4> QED
          BY <2>2, <4>1, MoveTogether
      <3>2. CASE ~held
        BY <1>2, <3>2 DEF ResumeMove, states, Agreed, Final
      <3> QED
        BY <3>1, <3>2
    <2> QED
      BY <2>3, <2>4, ParkedKept DEF OpKept, AtAnswer, AtResume
  <1>3. CASE ResumeUnmark(c)
    <2>1. /\ UNCHANGED <<states, pc, result, asks>> /\ \A d \in Callers \ {c} : rpc'[d] = rpc[d]
          /\ rpc[c].at = "unmark" /\ rpc'[c].at = "spawn"
      BY <1>0, <1>3, ToMoves DEF ResumeUnmark, At, exec
    <2>2. machine' # "waiting_user"
      BY <2>1 DEF Agreed, Handing, states
    <2> QED
      BY <2>1, <2>2, ParkedKept DEF OpKept, AtAnswer, AtResume
  <1>4. CASE ResumeSpawn(c)
    <2>1. PICK n : n = NextExec
      OBVIOUS
    <2>2. /\ UNCHANGED states /\ pc' = [pc EXCEPT ![n] = "start"]
          /\ rpc[c].at = "spawn" /\ Return(c)
      BY <1>4, <2>1 DEF ResumeSpawn, At
    <2>3. n \in Execs
      BY <1>1, <2>1 DEF Numbered
    <2>4. pc'[n] = "start" /\ \A e \in Execs \ {n} : pc'[e] = pc[e]
      BY <2>2, <2>3 DEF OwnerInv
    <2>5. \A e \in Active' : AsksKept(e)'
      BY <1>1, <2>4 DEF Active, AsksKept
    <2>6. machine' # "waiting_user"
      BY <2>2 DEF Agreed, Handing, states
    <2>7. rpc'[c].at = "idle" /\ \A d \in Callers \ {c} : rpc'[d] = rpc[d]
      BY <1>0, <2>2, ReturnMoves
    <2>8. \A d \in Callers : OpKept(d)'
      BY <1>0, <2>7 DEF OpKept, AtAnswer, AtResume
    <2> QED
      BY <2>5, <2>6, <2>8 DEF Parked
  <1> QED
    BY <1>2, <1>3, <1>4

LEMMA ParkInit == Init => ParkInv
  BY DEF Init, ParkInv, Parked, OpKept, AtAnswer, AtResume, Idle, Active

LEMMA ParkNext == OwnerInv /\ CalmInv /\ ParkInv /\ [Next]_vars => ParkInv'
  <1> SUFFICES ASSUME OwnerInv, CalmInv, ParkInv, [Next]_vars, ~disturbed' PROVE Parked'
    BY DEF ParkInv
  <1>0. RpcOK
    BY DEF OwnerInv
  <1>1. ASSUME NEW e \in Execs, RunStep(e) PROVE Parked'
    BY <1>1, ParkRunKeeps, RunStepDisturbs DEF ParkInv
  <1>2. CASE Submit
    <2>1. /\ pc' = [pc EXCEPT ![1] = "start"] /\ machine' = "queued" /\ UNCHANGED rpc
          /\ Active = {} /\ ~disturbed
      BY <1>2 DEF Submit, ctx, OwnerInv, BeforeSubmit, OneOwner, Unowned
    <2>2. \A e \in Active' : pc'[e] = "start"
      BY <2>1 DEF OwnerInv, Active
    <2>3. \A c \in Callers : OpKept(c)'
      BY <2>1 DEF ParkInv, Parked, OpKept
    <2> QED
      BY <2>1, <2>2, <2>3 DEF Parked, AsksKept
  <1>3. ASSUME NEW e \in Execs, Expire(e) PROVE FALSE
    BY <1>3 DEF Expire
  <1>4. CASE LateToolRuns
    BY <1>4 DEF LateToolRuns, CalmInv, Undisturbed, ctx
  <1>5. ASSUME NEW c \in Callers, Begins(c) \/ RpcStep(c) PROVE Parked'
    <2>1. CASE Aside(c) \/ ResumeClaim(c)
      <3>1. /\ \A d \in Callers \ {c} : rpc'[d] = rpc[d]
            /\ UNCHANGED <<machine, pc, result, asks, disturbed>>
        <4>1. CASE Aside(c)
          BY <1>0, <4>1, AsideCalm DEF Untouched, states, Calling
        <4>2. CASE ResumeClaim(c)
          BY <1>0, <4>2, ToMoves, ReturnMoves DEF ResumeClaim, Refuse, states, ctx, exec
        <4> QED
          BY <2>1, <4>1, <4>2
      <3>2. Parked
        BY <3>1 DEF ParkInv
      <3>3. OpKept(c)' /\ KeepsAnswer(c)
        BY <1>0, <2>1, <3>2, AsideAnswers DEF Parked
      <3> QED
        BY <3>1, <3>2, <3>3, ParkedKept
    <2>2. CASE CancelMark(c) \/ CancelContext(c) \/ CancelMove(c) \/ CancelClose(c)
      <3>1. ~disturbed /\ rpc[c].at \in Cancelling
        BY <2>2 DEF CancelMark, CancelContext, CancelMove, CancelClose, At, Cancelling, ctx
      <3> QED
        BY <3>1 DEF CalmInv, Undisturbed
    <2>3. CASE ResumeMove(c) \/ ResumeUnmark(c) \/ ResumeSpawn(c)
      <3>1. ~disturbed
        BY <2>3 DEF ResumeMove, ResumeUnmark, ResumeSpawn, ctx
      <3> QED
        BY <2>3, <3>1, ResumeParked DEF CalmInv, ParkInv
    <2> QED
      BY <1>5, <2>1, <2>2, <2>3 DEF RpcStep, CancelStep, ResumeStep, Aside
  <1>6. CASE UNCHANGED vars
    <2>1. UNCHANGED <<Active, Settled, Answerable>>
      BY <1>6 DEF vars, exec, plan, prompts, Active, Settled, Answerable, Restoring
    <2> QED
      BY <1>6, <2>1 DEF ParkInv, Parked, OpKept, AsksKept, vars, states, ctx, exec
  <1> QED
    BY <1>1, <1>2, <1>3, <1>4, <1>5, <1>6 DEF Next

(* However Resume, ConfirmPlan and Decide race: until a Cancel begins or a *)
(* deadline passes, a run in memory that nobody is at work on is parked,   *)
(* and its proposal or a prompt can be answered (rollbackToolDecision,     *)
(* ConfirmPlan, claimExecution).                                           *)
THEOREM RunParkedIsAnswerable == Spec => []ParkedIsAnswerable
  <1>1. CalmInv /\ ParkInv => ParkedIsAnswerable
    <2> SUFFICES ASSUME CalmInv, ParkInv, ~disturbed, Submitted, inMap, Quiet
                 PROVE  actor = "waiting_user" /\ (planPending \/ waiting # {})
      BY DEF ParkedIsAnswerable
    <2>1. \A c \in Callers : rpc[c].at = "idle"
      BY DEF Quiet, Idle
    <2>2. Free
      BY <2>1 DEF Quiet, Unowned, Free, Handing
    <2>3. machine = "waiting_user" /\ actor = machine
      BY <2>2 DEF CalmInv, Agreed
    <2>4. Settled /\ \A c \in Callers : ~Restoring(c)
      BY <2>1 DEF Quiet, Unowned, Settled, Restoring, AtResume
    <2> QED
      BY <2>3, <2>4 DEF ParkInv, Parked, Answerable
  <1> QED
    BY <1>1, OwnerInvariant, CalmInvariant, ParkInit, ParkNext, PTL DEF Spec
=============================================================================
