------------------------------ MODULE RunStates ------------------------------
(***************************************************************************)
(* The states of a run and the legal moves between them                    *)
(* (internal/types/t02_run.go).  The agent's state machine and the session *)
(* actor each check every move against this one table.                     *)
(***************************************************************************)

Busy == {"created", "queued", "planning", "thinking", "executing",
         "compacting", "waiting_user", "recovering"}
Final == {"completed", "cancelled", "failed"}
RunState == Busy \cup Final

Stops == {"cancelled", "failed"}

transitionTable ==
    [ created      |-> {"queued"} \cup Stops,
      queued       |-> {"planning", "thinking", "waiting_user", "recovering"} \cup Stops,
      planning     |-> {"thinking", "waiting_user", "compacting"} \cup Stops,
      thinking     |-> {"executing", "compacting", "waiting_user", "completed",
                        "thinking"} \cup Stops,
      executing    |-> {"thinking", "compacting", "waiting_user", "completed"} \cup Stops,
      compacting   |-> {"thinking", "waiting_user"} \cup Stops,
      waiting_user |-> {"executing", "thinking", "planning", "compacting",
                        "completed"} \cup Stops,
      recovering   |-> {"queued", "thinking", "executing", "waiting_user",
                        "completed"} \cup Stops,
      completed    |-> {},
      cancelled    |-> {},
      failed       |-> {} ]

CanMove(from, to) == to \in transitionTable[from]
=============================================================================
