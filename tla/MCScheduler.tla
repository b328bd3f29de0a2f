----------------------------- MODULE MCScheduler -----------------------------
(* Tool calls of two runs and sessions that compete for one terminal slot, *)
(* and the bounds that make every ceiling of the scheduler bind.           *)
EXTENDS SchedulerProperties, TLC

CONSTANTS t1, t2, t3, r1, r2, s1, s2, terminal

TwoTasks == {t1, t2}
ThreeTasks == {t1, t2, t3}
MCRuns == {r1, r2}
OneRun == {r1}
MCSessions == {s1, s2}
OneSession == {s1}
MCResources == {terminal}

AllTools == [t \in Tasks |-> "tool"]
MixedKinds == [t \in Tasks |-> IF t = t1 THEN "run" ELSE "tool"]
MCRunOf == [t \in Tasks |-> IF t = t3 THEN r2 ELSE r1]
SameRun == [t \in Tasks |-> r1]
MCSessionOf == [t \in Tasks |-> IF t = t3 THEN s2 ELSE s1]
SameSession == [t \in Tasks |-> s1]
MCClassOf == [t \in Tasks |-> IF t = t3 THEN 2 ELSE 1]
UnitCost == [t \in Tasks |-> 1]
Terminal == [t \in Tasks |-> terminal]
MCWeight == <<4, 1>>
MCClassCap == <<3, 3>>
ClassCap1 == <<1>>
Capacity1 == terminal :> 1
Queue22 == [k \in {"run", "tool"} |-> 2]
Symmetry == Permutations(TwoTasks)
QueueLimits == [k \in {"run", "tool"} |-> IF k = "run" THEN 1 ELSE 2]
=============================================================================
