-------------------------- MODULE RunLifeProperties --------------------------
(* What RunLife promises, and what the repository's comments promise of it. *)
EXTENDS RunLife

Active == {e \in Execs : pc[e] \notin {"none", "gone"}}
Claimers == {c \in Callers : rpc[c].at \in {"thinking", "unmark", "spawn"}}
Unowned == Active = {} /\ Claimers = {}

RpcAt == {"idle", "mark", "stop", "move", "close", "panic", "resume", "claim", "thinking",
          "unmark", "spawn", "undo", "pending", "restore", "decide", "log_decision",
          "count", "merge", "take_call", "answer", "note"}
ExecAt == {"none", "start", "begin", "take_plan", "take_answers", "plan", "round", "wrap",
           "propose", "park_plan", "abort", "fail", "enter", "announce", "think", "act",
           "wrap_up", "last_words", "compacted", "dispatch", "submitted", "starting", "tool",
           "park_calls", "ask", "after", "keep_plan", "finish", "close", "record",
           "release", "exit", "gone"}

(* The values the record, the machine, the executions and the callers take *)
(* (runRecord, Machine, SessionActor).                                     *)
TypeOK ==
    /\ machine \in RunState /\ actor \in RunState /\ logged \in RunState
    /\ inMap \in BOOLEAN /\ held \in BOOLEAN /\ recorded \in RunState
    /\ executing \in BOOLEAN /\ marked \in BOOLEAN /\ late \in BOOLEAN
    /\ current \in Execs /\ dead \subseteq Execs
    /\ planPending \in BOOLEAN /\ planOpen \in BOOLEAN
    /\ planDecision \in {"none", "approved", "rejected"}
    /\ waiting \subseteq Calls /\ asked \subseteq Calls /\ issued \subseteq Calls
    /\ answers \subseteq Keys /\ folded \subseteq Keys
    /\ pc \in [Execs -> ExecAt]
    /\ round \in [Execs -> 0 .. MaxRounds]
    /\ \A c \in Callers : rpc[c].at \in RpcAt
    /\ cancelReturned \in BOOLEAN

(* Invariant I1 of the engine: a run is executed by one goroutine at most, *)
(* a Resume that has claimed the run counts as its owner, and the claim is *)
(* never free while somebody owns the run.                                 *)
OneOwner ==
    /\ \A e, f \in Active : e = f
    /\ \A c, d \in Claimers : c = d
    /\ Active = {} \/ Claimers = {}
    /\ executing \/ Unowned

(* The context that Cancel reaches is the one of the execution at work,    *)
(* also after Resume replaced it.                                          *)
CancelReachesOwner == \A e \in Active : current = e

(* A run evicted from memory can be read back from the durable log only:   *)
(* the log must say that it ended.                                         *)
FinishedIsRecorded == Submitted /\ ~inMap => logged \in Final

(* Until the run is cancelled or runs out of time, the four copies of its  *)
(* state never come apart where nobody is at work on it.                   *)
CopiesAgree ==
    ~disturbed =>
        /\ machine = actor /\ actor = logged
        /\ Submitted /\ Unowned => recorded = actor

(* A parked run that nobody is at work on can be answered: the proposal or *)
(* a prompt is still on its record, whatever races were lost before.       *)
Quiet == Unowned /\ \A c \in Callers : rpc[c] = Idle
ParkedIsAnswerable ==
    ~disturbed /\ Submitted /\ inMap /\ Quiet =>
        actor = "waiting_user" /\ (planPending \/ waiting # {})

(* Invariant I8 of the engine: a cancelled run starts no new side effect.  *)
CancelStopsTools ==
    [][cancelReturned => \A e \in Execs : pc[e] = "starting" => pc'[e] # "tool"]_vars

(* An execution that a confirmation started acts on that confirmation.     *)
ConfirmedIsUsed ==
    \A e \in Active :
        pc[e] \notin {"start", "begin", "take_plan"} /\ cause[e] \in {"approved", "rejected"}
            => hand[e] \in {"none", cause[e]}

(* Who claims a run gives it back, or the run leaves memory.               *)
OwnershipReturned == executing ~> (~executing \/ ~inMap)

-----------------------------------------------------------------------------
(* Promises of comments that the code does not keep.                       *)

(* The log of a run that ended keeps its end ("a completed run must not be *)
(* resurrected by a late callback").                                       *)
LogSealed == [][(logged \in Final) => (logged' \in Final)]_vars

(* The end that was recorded first is the run's end.                       *)
OneEnding == [][(logged \in Final) => logged' = logged \/ logged' \notin Final]_vars

(* WaitRun polls the record: a cancelled run must come to an end there.    *)
CancelledIsSeen == cancelReturned ~> (recorded \in Final \/ ~inMap)

(* A Cancel that races the completion is no error.                         *)
NoNilMachine == \A c \in Callers : ~At(c, "panic")

(* Two decisions on one prompt cannot both win.                            *)
Winners(call) == {c \in Callers : /\ rpc[c].at \in {"answer", "note", "resume"}
                                  /\ rpc[c].op \in {"allow", "deny"}
                                  /\ rpc[c].call = call}
OneWinner == \A call \in Calls : \A c, d \in Winners(call) : c = d

(* A run whose plan the user confirmed does not propose a plan again.      *)
NotReproposed ==
    (\E e \in Execs : hand[e] = "approved") => \A e \in Active : pc[e] # "propose"
=============================================================================
