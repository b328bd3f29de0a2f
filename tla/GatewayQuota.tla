---------------------------- MODULE GatewayQuota ----------------------------
(***************************************************************************)
(* The gateway's credit: an account per user, a hold per request while it  *)
(* is served, an append-only ledger, and the usage rows.                   *)
(*                                                                         *)
(* Every write is one transaction on the single writer.  A call whose      *)
(* context ends while its transaction runs is told an error, whether the   *)
(* transaction commits or not.                                             *)
(***************************************************************************)
EXTENDS Integers, FiniteSets

CONSTANTS
  Users, Requests, Ids,
  UserOf, IdOf,     \* per request: its user and its X-Request-Id, which clients may repeat
  Estimated,        \* per request: the tokens it is estimated to take
  Reported,         \* the token counts an upstream may report
  Price,            \* micro credits per 1000 tokens
  MaxInt,           \* where amounts saturate (math.MaxInt64)
  Opening,          \* per user: the total the account starts with
  Adjustments,      \* idempotency keys of the administrator's calls, with what they ask
  KindOf, AmountOf, TargetOf,
  Timed             \* a request is cut off before its hold expires (5 and 10 minutes)

Kinds == {"topup", "debit", "expire", "freeze", "unfreeze"}

ASSUME QuotaAssumption ==
  /\ UserOf \in [Requests -> Users] /\ IdOf \in [Requests -> Ids]
  /\ Estimated \in [Requests -> Nat] /\ Reported \subseteq Nat
  /\ Price \in Int /\ MaxInt \in Nat
  /\ Opening \in [Users -> Nat]
  /\ KindOf \in [Adjustments -> Kinds] /\ AmountOf \in [Adjustments -> Nat]
  /\ TargetOf \in [Adjustments -> Users]
  /\ Timed \in BOOLEAN

VARIABLES
  total, used, reserved, frozen,   \* gw_quota_accounts
  ledger,                          \* per user: the sum of its gw_quota_ledger amounts
  entered,                         \* the idempotency keys in the ledger
  hold,                            \* gw_quota_reservations, by user and request id
  usage,                           \* gw_usage, by request id
  pc, bill                         \* per request: its handler, and what its answer costs

account == <<total, used, reserved, frozen, ledger, entered>>
vars == <<account, hold, usage, pc, bill>>

Keys == Users \X Ids
KeyOf(r) == <<UserOf[r], IdOf[r]>>
Owner(k) == k[1]

(* EstimateMicro, and CostMicro for the tokens an upstream reports.        *)
DefaultPrice == 1
Micro(tokens) ==
  LET p == IF Price > 0 THEN Price ELSE DefaultPrice
  IN IF tokens > MaxInt \div p THEN MaxInt ELSE (tokens * p) \div 1000

Available(u) == total[u] - used[u] - reserved[u]

NoHold == [status |-> "none"]
NoUsage == [status |-> "none"]
Ended == {"refused", "charged", "lost", "unsure", "returned", "gone"}
Serving == {"upstream", "settle", "record", "release", "drop", "note"}

Init ==
  /\ total = Opening
  /\ used = [u \in Users |-> 0] /\ reserved = [u \in Users |-> 0]
  /\ frozen = [u \in Users |-> FALSE]
  /\ ledger = Opening
  /\ entered = {}
  /\ hold = [k \in Keys |-> NoHold]
  /\ usage = [i \in Ids |-> NoUsage]
  /\ pc = [r \in Requests |-> "new"]
  /\ bill = [r \in Requests |-> 0]

To(r, at) == pc' = [pc EXCEPT ![r] = at]
Add(f, u, n) == [f EXCEPT ![u] = @ + n]

-----------------------------------------------------------------------------
(* ReserveTx.                                                              *)

(* Mutant: what other requests hold is not taken off the balance.          *)
Covered_IgnoresHolds(r) ==
  ~frozen[UserOf[r]] /\ total[UserOf[r]] - used[UserOf[r]] >= Micro(Estimated[r])

Covered(r) == ~frozen[UserOf[r]] /\ Available(UserOf[r]) >= Micro(Estimated[r])

TakeHold(r) ==
  LET u == UserOf[r]  n == Micro(Estimated[r])
  IN /\ hold[KeyOf(r)].status = "none"
     /\ Covered(r)
     /\ hold' = [hold EXCEPT ![KeyOf(r)] =
                    [status |-> "held", amount |-> n, settled |-> 0, maker |-> r]]
     /\ reserved' = Add(reserved, u, n)
     /\ ledger' = Add(ledger, u, -n)
     /\ UNCHANGED <<total, used, frozen, entered>>

(* The handler goes on with its hold; or its client left while the         *)
(* transaction ran, and nobody owns the hold.                              *)
Reserve(r) ==
  /\ pc[r] = "new"
  /\ TakeHold(r)
  /\ To(r, "upstream") \/ To(r, "refused")
  /\ UNCHANGED <<usage, bill>>

(* A request with the id of one whose hold still stands gets that hold.    *)
ReserveShared(r) ==
  /\ pc[r] = "new"
  /\ hold[KeyOf(r)].status = "held"
  /\ To(r, "upstream")
  /\ UNCHANGED <<account, hold, usage, bill>>

(* The id was used up, the account is frozen, the balance does not cover   *)
(* the estimate, or the transaction was rolled back.                       *)
ReserveRefused(r) ==
  /\ pc[r] = "new"
  /\ To(r, "refused")
  /\ UNCHANGED <<account, hold, usage, bill>>

-----------------------------------------------------------------------------
(* The upstream call: an answer with its cost; a failure that gets a usage *)
(* row; no upstream to try, or a panic, and no row.                        *)
Answered(r) ==
  /\ pc[r] = "upstream"
  /\ \E n \in Reported : bill' = [bill EXCEPT ![r] = Micro(n)]
  /\ To(r, "settle")
  /\ UNCHANGED <<account, hold, usage>>

Failed(r) ==
  /\ pc[r] = "upstream"
  /\ To(r, "release") \/ To(r, "drop")
  /\ UNCHANGED <<account, hold, usage, bill>>

-----------------------------------------------------------------------------
(* Mutant: the ledger gets the cost alone.                                 *)
Charge_LedgersCost(k, cost) ==
  /\ reserved' = Add(reserved, Owner(k), -hold[k].amount)
  /\ used' = Add(used, Owner(k), cost)
  /\ hold' = [hold EXCEPT ![k].status = "settled", ![k].settled = cost]
  /\ ledger' = Add(ledger, Owner(k), -cost)
  /\ UNCHANGED <<total, frozen, entered>>

(* SettleTx.  The cost counts in full, also beyond what was held.          *)
Charge(k, cost) ==
  /\ reserved[Owner(k)] >= hold[k].amount
  /\ reserved' = Add(reserved, Owner(k), -hold[k].amount)
  /\ used' = Add(used, Owner(k), cost)
  /\ hold' = [hold EXCEPT ![k].status = "settled", ![k].settled = cost]
  /\ ledger' = Add(ledger, Owner(k), hold[k].amount - cost)
  /\ UNCHANGED <<total, frozen, entered>>

Settling(r) == pc[r] = "settle" /\ UNCHANGED <<usage, bill>>

(* Mutant: a handler that is told an error releases its hold.              *)
SettleHeld_Releases(r) ==
  /\ Settling(r)
  /\ hold[KeyOf(r)].status = "held"
  /\ Charge(KeyOf(r), bill[r])
  /\ To(r, "record") \/ To(r, "release")

SettleHeld(r) ==
  /\ Settling(r)
  /\ hold[KeyOf(r)].status = "held"
  /\ Charge(KeyOf(r), bill[r])
  /\ To(r, "record") \/ To(r, "unsure")

SettleAgain(r) ==
  /\ Settling(r)
  /\ hold[KeyOf(r)].status = "settled"
  /\ To(r, "record")
  /\ UNCHANGED <<account, hold>>

SettleConflict(r) ==
  /\ Settling(r)
  /\ hold[KeyOf(r)].status \in {"released", "expired"}
  /\ To(r, "lost")
  /\ UNCHANGED <<account, hold>>

(* The handler cannot tell whether the charge was made and keeps the hold. *)
SettleFails(r) ==
  /\ Settling(r)
  /\ To(r, "unsure")
  /\ UNCHANGED <<account, hold>>

(* InsertUsage keeps the row that is there.                                *)
PutUsage(r, row) ==
  usage' = [usage EXCEPT ![IdOf[r]] = IF @ = NoUsage THEN row ELSE @]

Record(r) ==
  /\ pc[r] = "record"
  /\ \/ /\ PutUsage(r, [status |-> "settled", user |-> UserOf[r], cost |-> bill[r]])
        /\ To(r, "charged")
     \/ UNCHANGED usage /\ To(r, "unsure")
  /\ UNCHANGED <<account, hold, bill>>

-----------------------------------------------------------------------------
(* Mutant: whatever has become of the hold.                                *)
GiveBack_Blind(k, end) ==
  /\ hold[k].status # "none"
  /\ reserved' = Add(reserved, Owner(k), -hold[k].amount)
  /\ hold' = [hold EXCEPT ![k].status = end]
  /\ ledger' = Add(ledger, Owner(k), hold[k].amount)
  /\ UNCHANGED <<total, used, frozen, entered>>

(* ReleaseTx and ExpireReservations give a held amount back.               *)
GiveBack(k, end) ==
  /\ hold[k].status = "held"
  /\ reserved[Owner(k)] >= hold[k].amount
  /\ reserved' = Add(reserved, Owner(k), -hold[k].amount)
  /\ hold' = [hold EXCEPT ![k].status = end]
  /\ ledger' = Add(ledger, Owner(k), hold[k].amount)
  /\ UNCHANGED <<total, used, frozen, entered>>

(* Releasing: the hold is given back, or it has ended before (an error     *)
(* when it was settled), or the transaction is rolled back; the handler    *)
(* logs errors and goes on to its usage row, if it writes one.             *)
Release(r) ==
  /\ pc[r] \in {"release", "drop"}
  /\ GiveBack(KeyOf(r), "released") \/ UNCHANGED <<account, hold>>
  /\ To(r, IF pc[r] = "release" THEN "note" ELSE "returned")
  /\ UNCHANGED <<usage, bill>>

Note(r) ==
  /\ pc[r] = "note"
  /\ \/ PutUsage(r, [status |-> "failed", user |-> UserOf[r], cost |-> 0])
     \/ UNCHANGED usage
  /\ To(r, "returned")
  /\ UNCHANGED <<account, hold, bill>>

(* The reaper.  One hold per transaction, which --reap-limit=1 makes of    *)
(* it; a larger limit groups what expires and lets nothing come between.   *)
(* Mutants: holds of requests at work; none of handlers that disappeared.  *)
Overdue_AtWork(k) == TRUE
Overdue_Reported(k) == pc[hold[k].maker] \in {"charged", "lost", "unsure", "returned"}
Overdue(k) == Timed => pc[hold[k].maker] \in Ended

Expire(k) ==
  /\ hold[k].status = "held"
  /\ Overdue(k)
  /\ GiveBack(k, "expired")
  /\ UNCHANGED <<usage, pc, bill>>

(* AdjustTx; a key that is in the ledger is not entered again.             *)
Adjust(a) ==
  LET u == TargetOf[a]
      delta == CASE KindOf[a] = "topup" -> AmountOf[a]
                 [] KindOf[a] \in {"debit", "expire"} -> -AmountOf[a]
                 [] OTHER -> 0
  IN /\ a \notin entered
     /\ delta < 0 => Available(u) + delta >= 0
     /\ total' = Add(total, u, delta)
     /\ ledger' = Add(ledger, u, delta)
     /\ frozen' = IF KindOf[a] \in {"freeze", "unfreeze"}
                  THEN [frozen EXCEPT ![u] = (KindOf[a] = "freeze")] ELSE frozen
     /\ entered' = entered \cup {a}
     /\ UNCHANGED <<used, reserved, hold, usage, pc, bill>>

(* The gateway dies: its handlers are gone, the database stays.            *)
Crash ==
  /\ \E r \in Requests : pc[r] \in Serving
  /\ pc' = [r \in Requests |-> IF pc[r] \in Serving THEN "gone" ELSE pc[r]]
  /\ UNCHANGED <<account, hold, usage, bill>>

-----------------------------------------------------------------------------
Handle(r) ==
  \/ Answered(r) \/ Failed(r) \/ Record(r) \/ Release(r) \/ Note(r)
  \/ SettleHeld(r) \/ SettleAgain(r) \/ SettleConflict(r) \/ SettleFails(r)

Next ==
  \/ \E r \in Requests : Reserve(r) \/ ReserveShared(r) \/ ReserveRefused(r) \/ Handle(r)
  \/ \E k \in Keys : Expire(k)
  \/ \E a \in Adjustments : Adjust(a)
  \/ Crash

(* Timeouts end every handler; the reaper runs every minute.               *)
Fairness ==
  /\ \A r \in Requests : WF_vars(Handle(r))
  /\ \A k \in Keys : WF_vars(Expire(k))

Spec == Init /\ [][Next]_vars
FairSpec == Spec /\ Fairness
=============================================================================
