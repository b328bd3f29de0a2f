----------------------- MODULE GatewayQuotaProperties -----------------------
(* What GatewayQuota promises, and what the documents promise of it. *)
EXTENDS GatewayQuota, FiniteSetsExt

HoldStates == {"none", "held", "settled", "released", "expired"}
KeysOf(u) == {k \in Keys : Owner(k) = u}
Holds(u, status) == {k \in KeysOf(u) : hold[k].status = status}
Excess(k) == IF hold[k].settled > hold[k].amount THEN hold[k].settled - hold[k].amount ELSE 0

(* The rows and handlers take the values of model.QuotaAccount,            *)
(* model.Reservation and the charge type; no reserved sum is negative.     *)
TypeOK ==
  /\ total \in [Users -> Int] /\ used \in [Users -> Nat] /\ reserved \in [Users -> Nat]
  /\ frozen \in [Users -> BOOLEAN] /\ ledger \in [Users -> Int]
  /\ entered \subseteq Adjustments
  /\ hold \in [Keys -> {NoHold} \cup [status : HoldStates \ {"none"}, amount : Nat,
                                       settled : Nat, maker : Requests]]
  /\ pc \in [Requests -> {"new"} \cup Serving \cup Ended]
  /\ bill \in [Requests -> Nat]

(* The reserved amount of an account is what its open holds add up to.     *)
ReservedExact ==
  \A u \in Users : reserved[u] = MapThenSumSet(LAMBDA k : hold[k].amount, Holds(u, "held"))

(* The used amount is what the settled holds were charged: no request id   *)
(* is charged twice, however many requests carry it.                       *)
UsedExact ==
  \A u \in Users : used[u] = MapThenSumSet(LAMBDA k : hold[k].settled, Holds(u, "settled"))

(* The reconciliation invariant of the store: the ledger adds up to the    *)
(* available amount (store.go, SumLedgerAmount).                           *)
LedgerExact == \A u \in Users : ledger[u] = Available(u)

(* The columns of an account and its ledger say what its holds say.        *)
BooksExact == ReservedExact /\ UsedExact /\ LedgerExact

(* An account is only overdrawn by answers that cost more than was held    *)
(* for them: neither concurrent requests nor a debit overdraw it.          *)
NoOverdraft ==
  \A u \in Users : Available(u) >= -MapThenSumSet(Excess, Holds(u, "settled"))

(* A served request is charged its cost, in full, unless its store call    *)
(* failed: with a request timeout below the hold's lifetime, the reaper    *)
(* never takes the hold of a request at work.                              *)
Alone(r) == \A s \in Requests \ {r} : KeyOf(s) # KeyOf(r)
ServedIsCharged ==
  \A r \in Requests : Timed /\ Alone(r) =>
    /\ pc[r] # "lost"
    /\ pc[r] \in {"record", "charged"} =>
         hold[KeyOf(r)].status = "settled" /\ hold[KeyOf(r)].settled = bill[r]

(* A usage row tells what the account was charged, where no other request  *)
(* carries the same id.                                                    *)
UsageIsTrue ==
  \A r \in Requests : (\A s \in Requests \ {r} : IdOf[s] # IdOf[r]) =>
    /\ usage[IdOf[r]].status = "settled" =>
         hold[KeyOf(r)].status = "settled" /\ hold[KeyOf(r)].settled = usage[IdOf[r]].cost
    /\ usage[IdOf[r]].status = "failed" => hold[KeyOf(r)].status # "settled"

(* A hold ends once: what was charged is not refunded, and what was given  *)
(* back is not charged or given back again ("double refund" in charge.go). *)
HoldEndsOnce ==
  [][\A k \in Keys : hold[k].status \notin {"none", "held"} => hold'[k] = hold[k]]_vars

(* Every hold ends, also when its handler died or never learnt of it.      *)
HeldEnds == \A k \in Keys : hold[k].status = "held" ~> hold[k].status # "held"

-----------------------------------------------------------------------------
(* Promises of documents that the code does not keep.                      *)

(* "available is never negative" (release notes of v2.2.0).                *)
NeverNegative == \A u \in Users : Available(u) >= 0

(* An unpriced model still takes a hold (DefaultPriceMicroPerKTok).        *)
HoldsSomething == \A k \in Keys : hold[k].status = "held" => hold[k].amount > 0
=============================================================================
