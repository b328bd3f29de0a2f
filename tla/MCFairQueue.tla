----------------------------- MODULE MCFairQueue -----------------------------
(* Two classes with weights 4 and 1, two sessions with one slot each, tool *)
(* calls of both sessions in both classes and one run task; the depth cap  *)
(* is below the number of tasks and the second class has a cap of its own. *)
EXTENDS FairQueueClients, TLC

CONSTANTS t1, t2, t3, t4, t5, r1, r2, s1, s2

MCTasks == {t1, t2, t3, t4, t5}
MCRuns == {r1, r2}
MCSessions == {s1, s2}
MCKind == [t \in MCTasks |-> IF t = t5 THEN "run" ELSE "tool"]
MCRunOf == [t \in MCTasks |-> IF t \in {t1, t2} THEN r1 ELSE r2]
MCSessionOf == [t \in MCTasks |-> IF t \in {t1, t2, t3} THEN s1 ELSE s2]
MCClassOf == [t \in MCTasks |-> IF t \in {t1, t4} THEN 1 ELSE 2]
MCCost == [t \in MCTasks |-> IF t = t4 THEN 2 ELSE 1]
MCWeight == <<4, 1>>
MCClassCap == <<4, 2>>
=============================================================================
