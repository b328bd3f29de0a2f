--------------------------- MODULE MCGatewayQuota ---------------------------
(* Two requests of one user that carry the same id, a third with its own, *)
(* and an administrator's debit, freeze and top-up.                       *)
EXTENDS GatewayQuotaProperties, TLC

CONSTANTS r1, r2, r3, u1, u2, i1, i2, debit, freeze, topup

MCUserOf == [r \in Requests |-> u1]
MCIdOf == [r \in Requests |-> IF r = r3 THEN i2 ELSE i1]
MCEstimated == [r \in Requests |-> IF r = r3 THEN 1 ELSE 2]
MCOpening == [u \in Users |-> 3]
MCKindOf == debit :> "debit" @@ freeze :> "freeze" @@ topup :> "topup"
MCAmountOf == [a \in Adjustments |-> 1]
MCTargetOf == [a \in Adjustments |-> u1]
Alike == Permutations({r1, r2})
=============================================================================
