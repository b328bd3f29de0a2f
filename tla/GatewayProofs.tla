----------------------------- MODULE GatewayProofs -----------------------------
(* Proofs about the gateway: the credit of its users and the upstreams that   *)
(* serve them. The two parts share no state.                                  *)
(*                                                                            *)
(* GatewayQuota, for every number of users, requests and ids: the ledger adds *)
(* up, a hold ends once, a served request is charged, and its usage row says  *)
(* what it was charged. Only five actions touch the accounts and holds:       *)
(* taking a hold, charging it, giving it back (releasing or expiring), and    *)
(* the administrator's call; each enters in the ledger what it takes from the *)
(* balance. A request that shares its id with nobody made its hold itself, so *)
(* nobody but its handler ends that hold while it is served: the reaper waits *)
(* until the maker of the hold has ended. The usage row of such a request is  *)
(* its own, and is written after its charge or after it has given up on one,  *)
(* and a charge is final. A sum over holds is counted: as many things as the  *)
(* holds have micro credits; one hold more or less makes as many of them more *)
(* or less, and the recursive sum is their number (SumIsCount).               *)
(*                                                                            *)
(* GatewayUpstreams, for any providers, candidates, lanes, thresholds and     *)
(* numbers of attempts. A breaker that is half-open counts no more probes     *)
(* than it has let in and still waits for: whoever is let in leaves through   *)
(* the release, because the breaker cannot have changed its state without     *)
(* forgetting its probes, so that the client finds it half-open when it asks  *)
(* whether it is a probe. Of the text of an answer, what the client has and   *)
(* what is on its way are of the attempt under way, since a loop that goes on *)
(* has passed nothing on. And an attempt goes on, in either loop, only after  *)
(* a result that counts as a fault.                                           *)
EXTENDS GatewayQuotaProperties, GatewayUpstreamsProperties, FiniteSetTheorems,
        SequenceTheorems, WellFoundedInduction, TLAPS

(******************************************************************************)
(* The credit.                                                                *)
(******************************************************************************)
(* Whoever took a hold took it under its own user and id.                  *)
MakerExact == \A k \in Keys : hold[k].status # "none" => KeyOf(hold[k].maker) = k

(* A request that is alone on its id is served on a hold that is open.     *)
OwnHold(r) ==
  /\ pc[r] = "new" => hold[KeyOf(r)].status = "none"
  /\ pc[r] \in {"upstream", "settle"} => hold[KeyOf(r)].status = "held"
  /\ pc[r] # "lost"
  /\ pc[r] \in {"record", "charged"} =>
       hold[KeyOf(r)].status = "settled" /\ hold[KeyOf(r)].settled = bill[r]
OwnHolds == \A r \in Requests : Timed /\ Alone(r) => OwnHold(r)

QuotaInv == TypeOK /\ LedgerExact /\ MakerExact /\ OwnHolds

-----------------------------------------------------------------------------
LEMMA DivNat == ASSUME NEW a \in Nat, NEW b \in Nat \ {0} PROVE a \div b \in Nat
  OBVIOUS

LEMMA MulNat == ASSUME NEW a \in Nat, NEW b \in Nat PROVE a * b \in Nat
  OBVIOUS

(* An amount is never negative, whatever the price.                        *)
LEMMA MicroNat == ASSUME NEW n \in Nat PROVE Micro(n) \in Nat
  <1> DEFINE p == IF Price > 0 THEN Price ELSE DefaultPrice
  <1>1. p \in Nat \ {0}
    BY QuotaAssumption DEF DefaultPrice
  <1>2. n * p \in Nat
    BY <1>1, MulNat
  <1>3. (n * p) \div 1000 \in Nat
    BY <1>2, DivNat
  <1>4. MaxInt \in Nat
    BY QuotaAssumption
  <1> QED
    BY <1>3, <1>4 DEF Micro

-----------------------------------------------------------------------------
(* The books: the accounts, the holds, and what relates them.              *)
HoldRow == [status : HoldStates \ {"none"}, amount : Nat, settled : Nat, maker : Requests]
BooksOK ==
  /\ total \in [Users -> Int] /\ used \in [Users -> Nat] /\ reserved \in [Users -> Nat]
  /\ frozen \in [Users -> BOOLEAN] /\ ledger \in [Users -> Int]
  /\ entered \subseteq Adjustments
  /\ hold \in [Keys -> {NoHold} \cup HoldRow]
  /\ LedgerExact
  /\ MakerExact

LEMMA KeyIsKey == \A r \in Requests : KeyOf(r) \in Keys /\ Owner(KeyOf(r)) = UserOf[r]
  BY QuotaAssumption DEF KeyOf, Keys, Owner

LEMMA OwnerIsUser == \A k \in Keys : Owner(k) \in Users
  BY DEF Keys, Owner

LEMMA HeldIsRow ==
  ASSUME BooksOK, NEW k \in Keys, hold[k].status # "none"
  PROVE  hold[k] \in HoldRow
  BY DEF BooksOK, NoHold

(* Taking a hold moves its amount from the balance to the reserved sum.    *)
LEMMA TakeHoldKeepsBooks ==
  ASSUME BooksOK, NEW r \in Requests, TakeHold(r)
  PROVE  BooksOK'
  <1> DEFINE u == UserOf[r]
             n == Micro(Estimated[r])
             row == [status |-> "held", amount |-> n, settled |-> 0, maker |-> r]
  <1>1. u \in Users /\ Estimated[r] \in Nat
    BY QuotaAssumption
  <1>2. n \in Nat
    BY <1>1, MicroNat
  <1>3. row \in HoldRow
    BY <1>2 DEF HoldRow, HoldStates
  <1>4. /\ hold' = [hold EXCEPT ![KeyOf(r)] = row]
        /\ reserved' = [reserved EXCEPT ![u] = @ + n]
        /\ ledger' = [ledger EXCEPT ![u] = @ + (-n)]
        /\ UNCHANGED <<total, used, frozen, entered>>
    BY DEF TakeHold, Add
  <1>5. KeyOf(r) \in Keys
    BY KeyIsKey
  <1>6. hold' \in [Keys -> {NoHold} \cup HoldRow]
    BY <1>3, <1>4, <1>5 DEF BooksOK
  <1>7. reserved' \in [Users -> Nat] /\ ledger' \in [Users -> Int]
    BY <1>1, <1>2, <1>4 DEF BooksOK
  <1>8. LedgerExact'
    BY <1>1, <1>2, <1>4 DEF BooksOK, LedgerExact, Available
  <1>9. MakerExact'
    BY <1>3, <1>4, <1>5 DEF BooksOK, MakerExact
  <1> QED
    BY <1>4, <1>6, <1>7, <1>8, <1>9 DEF BooksOK

(* Charging turns the held amount into the cost.                           *)
LEMMA ChargeKeepsBooks ==
  ASSUME BooksOK, NEW k \in Keys, hold[k].status = "held", NEW cost \in Nat, Charge(k, cost)
  PROVE  /\ BooksOK'
         /\ hold'[k] = [hold[k] EXCEPT !.status = "settled", !.settled = cost]
         /\ \A j \in Keys \ {k} : hold'[j] = hold[j]
  <1> DEFINE u == Owner(k)
             n == hold[k].amount
             row == [hold[k] EXCEPT !.status = "settled", !.settled = cost]
  <1>1. u \in Users
    BY OwnerIsUser
  <1>2. hold[k] \in HoldRow
    BY HeldIsRow
  <1>3. n \in Nat /\ row \in HoldRow /\ row.maker = hold[k].maker
    BY <1>2 DEF HoldRow, HoldStates
  <1>4. /\ hold' = [hold EXCEPT ![k] = row]
        /\ reserved[u] >= n
        /\ reserved' = [reserved EXCEPT ![u] = @ + (-n)]
        /\ used' = [used EXCEPT ![u] = @ + cost]
        /\ ledger' = [ledger EXCEPT ![u] = @ + (n - cost)]
        /\ UNCHANGED <<total, frozen, entered>>
    BY DEF Charge, Add
  <1>5. hold' \in [Keys -> {NoHold} \cup HoldRow]
    BY <1>3, <1>4 DEF BooksOK
  <1>6. /\ reserved' \in [Users -> Nat] /\ used' \in [Users -> Nat]
        /\ ledger' \in [Users -> Int]
    BY <1>1, <1>3, <1>4 DEF BooksOK
  <1>7. LedgerExact'
    BY <1>1, <1>3, <1>4 DEF BooksOK, LedgerExact, Available
  <1>8. MakerExact'
    BY <1>3, <1>4 DEF BooksOK, MakerExact
  <1>9. hold'[k] = row /\ \A j \in Keys \ {k} : hold'[j] = hold[j]
    BY <1>4 DEF BooksOK
  <1> QED
    BY <1>4, <1>5, <1>6, <1>7, <1>8, <1>9 DEF BooksOK

(* Giving back returns the held amount to the balance.                     *)
LEMMA GiveBackKeepsBooks ==
  ASSUME BooksOK, NEW k \in Keys, NEW end \in {"released", "expired"}, GiveBack(k, end)
  PROVE  /\ BooksOK'
         /\ hold'[k] = [hold[k] EXCEPT !.status = end]
         /\ \A j \in Keys \ {k} : hold'[j] = hold[j]
  <1> DEFINE u == Owner(k)
             n == hold[k].amount
             row == [hold[k] EXCEPT !.status = end]
  <1>1. u \in Users
    BY OwnerIsUser
  <1>2. hold[k] \in HoldRow
    BY HeldIsRow DEF GiveBack
  <1>3. n \in Nat /\ row \in HoldRow /\ row.maker = hold[k].maker
    BY <1>2 DEF HoldRow, HoldStates
  <1>4. /\ hold' = [hold EXCEPT ![k] = row]
        /\ reserved[u] >= n
        /\ reserved' = [reserved EXCEPT ![u] = @ + (-n)]
        /\ ledger' = [ledger EXCEPT ![u] = @ + n]
        /\ UNCHANGED <<total, used, frozen, entered>>
    BY DEF GiveBack, Add
  <1>5. hold' \in [Keys -> {NoHold} \cup HoldRow]
    BY <1>3, <1>4 DEF BooksOK
  <1>6. reserved' \in [Users -> Nat] /\ ledger' \in [Users -> Int]
    BY <1>1, <1>3, <1>4 DEF BooksOK
  <1>7. LedgerExact'
    BY <1>1, <1>3, <1>4 DEF BooksOK, LedgerExact, Available
  <1>8. MakerExact'
    BY <1>2, <1>3, <1>4 DEF BooksOK, MakerExact, GiveBack
  <1>9. hold'[k] = row /\ \A j \in Keys \ {k} : hold'[j] = hold[j]
    BY <1>4 DEF BooksOK
  <1> QED
    BY <1>4, <1>5, <1>6, <1>7, <1>8, <1>9 DEF BooksOK

(* The administrator's call moves the total and the ledger together.       *)
LEMMA AdjustKeepsBooks ==
  ASSUME BooksOK, NEW a \in Adjustments, Adjust(a)
  PROVE  BooksOK'
  <1> DEFINE u == TargetOf[a]
             delta == CASE KindOf[a] = "topup" -> AmountOf[a]
                        [] KindOf[a] \in {"debit", "expire"} -> -AmountOf[a]
                        [] OTHER -> 0
  <1>1. u \in Users /\ AmountOf[a] \in Nat
    BY QuotaAssumption
  <1>2. delta \in Int
    BY <1>1
  <1> HIDE DEF delta
  <1>3. /\ total' = [total EXCEPT ![u] = @ + delta]
        /\ ledger' = [ledger EXCEPT ![u] = @ + delta]
        /\ frozen' = IF KindOf[a] \in {"freeze", "unfreeze"}
                     THEN [frozen EXCEPT ![u] = (KindOf[a] = "freeze")] ELSE frozen
        /\ entered' = entered \cup {a}
        /\ UNCHANGED <<used, reserved, hold>>
    BY DEF Adjust, Add, delta
  <1>4. frozen' \in [Users -> BOOLEAN]
    BY <1>3 DEF BooksOK
  <1>5. total' \in [Users -> Int] /\ ledger' \in [Users -> Int]
    BY <1>1, <1>2, <1>3 DEF BooksOK
  <1>6. LedgerExact'
    BY <1>1, <1>2, <1>3 DEF BooksOK, LedgerExact, Available
  <1>7. MakerExact'
    BY <1>3 DEF BooksOK, MakerExact
  <1> QED
    BY <1>3, <1>4, <1>5, <1>6, <1>7 DEF BooksOK

LEMMA SameBooks ==
  ASSUME BooksOK, UNCHANGED <<account, hold>>
  PROVE  BooksOK'
  BY DEF BooksOK, account, LedgerExact, Available, MakerExact

-----------------------------------------------------------------------------
(* The handlers.                                                           *)
HandlersOK ==
  /\ pc \in [Requests -> {"new"} \cup Serving \cup Ended]
  /\ bill \in [Requests -> Nat]

LEMMA QuotaInvParts == QuotaInv <=> BooksOK /\ HandlersOK /\ OwnHolds
  BY DEF QuotaInv, TypeOK, BooksOK, HandlersOK, HoldRow

(* A step of another request leaves the hold of a lone request alone.      *)
LEMMA OthersKeepOwnHold ==
  ASSUME HandlersOK, NEW r \in Requests, NEW s \in Requests \ {r}, NEW at,
         OwnHold(r), Alone(r), To(s, at), bill'[r] = bill[r],
         \A j \in Keys \ {KeyOf(s)} : hold'[j] = hold[j]
  PROVE  OwnHold(r)'
  <1>1. KeyOf(r) \in Keys /\ KeyOf(r) # KeyOf(s)
    BY KeyIsKey DEF Alone
  <1>2. pc'[r] = pc[r]
    BY DEF To, HandlersOK
  <1>3. hold'[KeyOf(r)] = hold[KeyOf(r)]
    BY <1>1
  <1>4. KeyOf(r)' = KeyOf(r)
    BY DEF KeyOf
  <1> QED
    BY <1>2, <1>3, <1>4 DEF OwnHold

(* What a step of handler r shows about r itself is enough.                *)
LEMMA HandlerStepKeeps ==
  ASSUME QuotaInv, NEW r \in Requests, NEW at \in {"new"} \cup Serving \cup Ended, To(r, at),
         BooksOK', bill' \in [Requests -> Nat], \A s \in Requests \ {r} : bill'[s] = bill[s],
         \A j \in Keys \ {KeyOf(r)} : hold'[j] = hold[j],
         Timed /\ Alone(r) => OwnHold(r)'
  PROVE  QuotaInv'
  <1>1. BooksOK /\ HandlersOK /\ OwnHolds
    BY QuotaInvParts
  <1>2. pc' \in [Requests -> {"new"} \cup Serving \cup Ended]
    BY <1>1 DEF To, HandlersOK
  <1>3. HandlersOK'
    BY <1>2 DEF HandlersOK
  <1>4. \A q \in Requests : Alone(q)' <=> Alone(q)
    BY DEF Alone, KeyOf
  <1>5. ASSUME NEW q \in Requests, Timed, Alone(q) PROVE OwnHold(q)'
    <2>1. CASE q = r
      BY <2>1, <1>5
    <2>2. CASE q # r
      <3>1. OwnHold(q) /\ bill'[q] = bill[q] /\ r \in Requests \ {q}
        BY <1>1, <1>5, <2>2 DEF OwnHolds
      <3> QED
        BY <1>1, <1>5, <3>1, OthersKeepOwnHold
    <2> QED
      BY <2>1, <2>2
  <1>6. OwnHolds'
    BY <1>4, <1>5 DEF OwnHolds
  <1> QED
    BY <1>3, <1>6, QuotaInvParts DEF QuotaInv, TypeOK, BooksOK, HandlersOK, HoldRow

-----------------------------------------------------------------------------
LEMMA QuotaInit == Init => QuotaInv
  <1> SUFFICES ASSUME Init PROVE QuotaInv
    OBVIOUS
  <1>1. BooksOK
    BY QuotaAssumption DEF Init, BooksOK, LedgerExact, Available, MakerExact, NoHold
  <1>2. HandlersOK
    BY DEF Init, HandlersOK
  <1>3. OwnHolds
    BY KeyIsKey DEF Init, OwnHolds, OwnHold, NoHold
  <1> QED
    BY <1>1, <1>2, <1>3, QuotaInvParts

LEMMA QuotaStep == QuotaInv /\ [Next]_vars => QuotaInv'
  <1> SUFFICES ASSUME QuotaInv, [Next]_vars PROVE QuotaInv'
    OBVIOUS
  <1>0. BooksOK /\ HandlersOK /\ OwnHolds
    BY QuotaInvParts
  <1>1. ASSUME NEW r \in Requests, Reserve(r) PROVE QuotaInv'
    <2>1. BooksOK'
      BY <1>0, <1>1, TakeHoldKeepsBooks DEF Reserve
    <2>2. PICK at \in {"upstream", "refused"} : To(r, at)
      BY <1>1 DEF Reserve
    <2>3. pc'[r] = at
      BY <1>0, <2>2 DEF To, HandlersOK
    <2>4. /\ hold'[KeyOf(r)].status = "held"
          /\ \A j \in Keys \ {KeyOf(r)} : hold'[j] = hold[j]
      BY <1>0, <1>1, KeyIsKey DEF Reserve, TakeHold, BooksOK
    <2>5. OwnHold(r)'
      BY <2>3, <2>4 DEF OwnHold, KeyOf
    <2>6. at \in {"new"} \cup Serving \cup Ended
      BY DEF Serving, Ended
    <2> QED
      BY <1>0, <1>1, <2>1, <2>2, <2>4, <2>5, <2>6, HandlerStepKeeps DEF Reserve, HandlersOK
  <1>2. ASSUME NEW r \in Requests, NEW at \in Serving \cup Ended, To(r, at),
               UNCHANGED <<account, hold>>,
               bill' \in [Requests -> Nat], \A s \in Requests \ {r} : bill'[s] = bill[s],
               Timed /\ Alone(r) => OwnHold(r)'
        PROVE  QuotaInv'
    <2>1. BooksOK'
      BY <1>0, <1>2, SameBooks
    <2> QED
      BY <1>2, <2>1, HandlerStepKeeps
  <1>3. ASSUME NEW r \in Requests, ReserveShared(r) \/ ReserveRefused(r) PROVE QuotaInv'
    <2>1. PICK at \in {"upstream", "refused"} : To(r, at)
      BY <1>3 DEF ReserveShared, ReserveRefused
    <2>2. pc'[r] = at /\ at \in Serving \cup Ended
      BY <1>0, <2>1 DEF To, HandlersOK, Serving, Ended
    <2>3. UNCHANGED <<account, hold>> /\ bill' = bill
      BY <1>3 DEF ReserveShared, ReserveRefused
    <2>4. Timed /\ Alone(r) => OwnHold(r)'
      <3> SUFFICES ASSUME Timed, Alone(r) PROVE OwnHold(r)'
        OBVIOUS
      <3>1. pc[r] = "new" /\ hold[KeyOf(r)].status = "none"
        BY <1>0, <1>3 DEF OwnHolds, OwnHold, ReserveShared, ReserveRefused
      <3>2. at = "refused"
        BY <1>0, <1>3, <2>1, <3>1 DEF ReserveShared, ReserveRefused, To, HandlersOK
      <3> QED
        BY <2>2, <3>2 DEF OwnHold
    <2> QED
      BY <1>0, <1>2, <2>1, <2>2, <2>3, <2>4 DEF HandlersOK
  <1>4. ASSUME NEW r \in Requests, Answered(r) PROVE QuotaInv'
    <2>1. bill' \in [Requests -> Nat] /\ \A s \in Requests \ {r} : bill'[s] = bill[s]
      BY <1>0, <1>4, MicroNat, QuotaAssumption DEF Answered, HandlersOK
    <2>2. To(r, "settle") /\ pc'[r] = "settle" /\ UNCHANGED <<account, hold>>
      BY <1>0, <1>4 DEF Answered, To, HandlersOK
    <2>3. Timed /\ Alone(r) => OwnHold(r)'
      BY <1>0, <1>4, <2>2 DEF OwnHolds, OwnHold, Answered, KeyOf
    <2>4. "settle" \in Serving \cup Ended
      BY DEF Serving
    <2> QED
      BY <1>2, <2>1, <2>2, <2>3, <2>4
  <1>5. ASSUME NEW r \in Requests, Failed(r) \/ Note(r) \/ SettleFails(r)
        PROVE  QuotaInv'
    <2>1. PICK at \in {"release", "drop", "returned", "unsure"} : To(r, at)
      BY <1>5 DEF Failed, Note, SettleFails
    <2>2. pc'[r] = at /\ at \in Serving \cup Ended
      BY <1>0, <2>1 DEF To, HandlersOK, Serving, Ended
    <2>3. UNCHANGED <<account, hold>> /\ bill' = bill
      BY <1>5 DEF Failed, Note, SettleFails, Settling
    <2>4. OwnHold(r)'
      BY <2>1, <2>2 DEF OwnHold
    <2> QED
      BY <1>0, <1>2, <2>1, <2>2, <2>3, <2>4 DEF HandlersOK
  <1>6. ASSUME NEW r \in Requests, SettleAgain(r) \/ SettleConflict(r) PROVE QuotaInv'
    <2>1. PICK at \in {"record", "lost"} : To(r, at)
      BY <1>6 DEF SettleAgain, SettleConflict
    <2>2. pc'[r] = at /\ at \in Serving \cup Ended
      BY <1>0, <2>1 DEF To, HandlersOK, Serving, Ended
    <2>3. UNCHANGED <<account, hold>> /\ bill' = bill
      BY <1>6 DEF SettleAgain, SettleConflict, Settling
    <2>4. ~(Timed /\ Alone(r))
      BY <1>0, <1>6 DEF OwnHolds, OwnHold, SettleAgain, SettleConflict, Settling
    <2> QED
      BY <1>0, <1>2, <2>1, <2>2, <2>3, <2>4 DEF HandlersOK
  <1>7. ASSUME NEW r \in Requests, SettleHeld(r) PROVE QuotaInv'
    <2>1. KeyOf(r) \in Keys /\ hold[KeyOf(r)].status = "held" /\ bill[r] \in Nat
      BY <1>0, <1>7, KeyIsKey DEF SettleHeld, HandlersOK
    <2>2. Charge(KeyOf(r), bill[r]) /\ bill' = bill
      BY <1>7 DEF SettleHeld, Settling
    <2>3. /\ BooksOK'
          /\ hold'[KeyOf(r)] = [hold[KeyOf(r)] EXCEPT !.status = "settled", !.settled = bill[r]]
          /\ \A j \in Keys \ {KeyOf(r)} : hold'[j] = hold[j]
      BY <1>0, <2>1, <2>2, ChargeKeepsBooks
    <2>4. hold[KeyOf(r)] \in HoldRow
      BY <1>0, <2>1, HeldIsRow
    <2>5. hold'[KeyOf(r)].status = "settled" /\ hold'[KeyOf(r)].settled = bill'[r]
      BY <2>2, <2>3, <2>4 DEF HoldRow
    <2>6. PICK at \in {"record", "unsure"} : To(r, at)
      BY <1>7 DEF SettleHeld
    <2>7. pc'[r] = at /\ at \in {"new"} \cup Serving \cup Ended
      BY <1>0, <2>6 DEF To, HandlersOK, Serving, Ended
    <2>8. OwnHold(r)'
      BY <2>5, <2>7 DEF OwnHold, KeyOf
    <2> QED
      BY <1>0, <2>2, <2>3, <2>6, <2>7, <2>8, HandlerStepKeeps DEF HandlersOK
  <1>8. ASSUME NEW r \in Requests, Record(r) PROVE QuotaInv'
    <2>1. PICK at \in {"charged", "unsure"} : To(r, at)
      BY <1>8 DEF Record
    <2>2. pc'[r] = at /\ at \in Serving \cup Ended
      BY <1>0, <2>1 DEF To, HandlersOK, Serving, Ended
    <2>3. UNCHANGED <<account, hold>> /\ bill' = bill
      BY <1>8 DEF Record
    <2>4. Timed /\ Alone(r) => OwnHold(r)'
      BY <1>0, <1>8, <2>2, <2>3 DEF OwnHolds, OwnHold, Record, KeyOf
    <2> QED
      BY <1>0, <1>2, <2>1, <2>2, <2>3, <2>4 DEF HandlersOK
  <1>9. ASSUME NEW r \in Requests, Release(r) PROVE QuotaInv'
    <2>1. PICK at \in {"note", "returned"} : To(r, at)
      BY <1>9 DEF Release
    <2>2. pc'[r] = at /\ at \in {"new"} \cup Serving \cup Ended
      BY <1>0, <2>1 DEF To, HandlersOK, Serving, Ended
    <2>3. KeyOf(r) \in Keys
      BY KeyIsKey
    <2>4. BooksOK' /\ \A j \in Keys \ {KeyOf(r)} : hold'[j] = hold[j]
      <3>1. CASE GiveBack(KeyOf(r), "released")
        BY <1>0, <2>3, <3>1, GiveBackKeepsBooks
      <3>2. CASE UNCHANGED <<account, hold>>
        BY <1>0, <3>2, SameBooks
      <3> QED
        BY <1>9, <3>1, <3>2 DEF Release
    <2>5. OwnHold(r)'
      BY <2>1, <2>2 DEF OwnHold
    <2> QED
      BY <1>0, <1>9, <2>1, <2>2, <2>4, <2>5, HandlerStepKeeps DEF Release, HandlersOK
  <1>10. ASSUME NEW k \in Keys, Expire(k) PROVE QuotaInv'
    <2>1. /\ BooksOK'
          /\ \A j \in Keys \ {k} : hold'[j] = hold[j]
      BY <1>0, <1>10, GiveBackKeepsBooks DEF Expire
    <2>2. UNCHANGED <<pc, bill>> /\ hold[k].status = "held"
      BY <1>10 DEF Expire
    <2>3. ASSUME NEW r \in Requests, Timed, Alone(r) PROVE OwnHold(r)'
      <3>1. OwnHold(r) /\ KeyOf(r) \in Keys
        BY <1>0, <2>3, KeyIsKey DEF OwnHolds
      <3>2. CASE KeyOf(r) # k
        BY <2>1, <2>2, <3>1, <3>2 DEF OwnHold, KeyOf
      <3>3. CASE KeyOf(r) = k
        <4>1. hold[k].maker \in Requests /\ KeyOf(hold[k].maker) = k
          BY <1>0, <2>2, HeldIsRow DEF BooksOK, MakerExact, HoldRow
        <4>2. hold[k].maker = r
          BY <3>3, <4>1, <2>3 DEF Alone
        <4>3. pc[r] \in Ended
          BY <1>10, <2>3, <4>2 DEF Expire, Overdue
        <4>4. pc[r] # "charged" /\ pc[r] # "lost"
          BY <2>2, <3>1, <3>3 DEF OwnHold
        <4> QED
          BY <2>2, <4>3, <4>4 DEF OwnHold, Ended
      <3> QED
        BY <3>2, <3>3
    <2>4. OwnHolds'
      BY <2>3 DEF OwnHolds, Alone, KeyOf
    <2>5. HandlersOK'
      BY <1>0, <2>2 DEF HandlersOK
    <2> QED
      BY <2>1, <2>4, <2>5 DEF QuotaInv, TypeOK, BooksOK, HandlersOK, HoldRow
  <1>11. ASSUME NEW a \in Adjustments, Adjust(a) PROVE QuotaInv'
    <2>1. BooksOK'
      BY <1>0, <1>11, AdjustKeepsBooks
    <2>2. UNCHANGED <<hold, pc, bill>>
      BY <1>11 DEF Adjust
    <2>3. HandlersOK' /\ OwnHolds'
      BY <1>0, <2>2 DEF HandlersOK, OwnHolds, OwnHold, Alone, KeyOf
    <2> QED
      BY <2>1, <2>3 DEF QuotaInv, TypeOK, BooksOK, HandlersOK, HoldRow
  <1>12. CASE Crash
    <2>1. BooksOK'
      BY <1>0, <1>12, SameBooks DEF Crash
    <2>2. /\ pc' = [r \in Requests |-> IF pc[r] \in Serving THEN "gone" ELSE pc[r]]
          /\ UNCHANGED <<hold, bill>>
      BY <1>12 DEF Crash
    <2>3. HandlersOK'
      BY <1>0, <2>2 DEF HandlersOK, Ended
    <2>4. \A r \in Requests : pc'[r] = pc[r] \/ pc'[r] = "gone"
      BY <2>2
    <2>5. OwnHolds'
      BY <1>0, <2>2, <2>4 DEF OwnHolds, OwnHold, Alone, KeyOf
    <2> QED
      BY <2>1, <2>3, <2>5 DEF QuotaInv, TypeOK, BooksOK, HandlersOK, HoldRow
  <1>13. CASE UNCHANGED vars
    <2>1. BooksOK'
      BY <1>0, <1>13, SameBooks DEF vars
    <2>2. HandlersOK' /\ OwnHolds'
      BY <1>0, <1>13 DEF vars, HandlersOK, OwnHolds, OwnHold, Alone, KeyOf
    <2> QED
      BY <2>1, <2>2 DEF QuotaInv, TypeOK, BooksOK, HandlersOK, HoldRow
  <1> QED
    BY <1>1, <1>3, <1>4, <1>5, <1>6, <1>7, <1>8, <1>9, <1>10, <1>11, <1>12, <1>13
    DEF Next, Handle

-----------------------------------------------------------------------------
(* The inductive invariant holds throughout: accounts, holds, ledger and   *)
(* handlers keep their types and their relations (gateway/store/quota.go). *)
THEOREM QuotaInvariant == Spec => []QuotaInv
  <1>1. Init => QuotaInv
    BY QuotaInit
  <1>2. QuotaInv /\ [Next]_vars => QuotaInv'
    BY QuotaStep
  <1> QED
    BY <1>1, <1>2, PTL DEF Spec

(* For any users, requests and costs: no reserved sum is ever negative.    *)
THEOREM QuotaTypeCorrect == Spec => []TypeOK
  BY QuotaInvariant, PTL DEF QuotaInv

(* For any users, requests and costs: the ledger adds up to the available  *)
(* amount (the store's reconciliation invariant).                          *)
THEOREM QuotaLedgerExact == Spec => []LedgerExact
  BY QuotaInvariant, PTL DEF QuotaInv

(* For any users, requests and costs: a request that was answered is       *)
(* charged in full, or its own store call failed.                          *)
THEOREM QuotaServedIsCharged == Spec => []ServedIsCharged
  <1>1. QuotaInv => ServedIsCharged
    BY DEF QuotaInv, OwnHolds, OwnHold, ServedIsCharged
  <1> QED
    BY <1>1, QuotaInvariant, PTL

(* For any users, requests and costs: what ended a hold is final.          *)
THEOREM QuotaHoldEndsOnce == Spec => HoldEndsOnce
  <1> DEFINE Final(k) == hold[k].status \notin {"none", "held"}
  <1>1. ASSUME QuotaInv, [Next]_vars PROVE \A k \in Keys : Final(k) => hold'[k] = hold[k]
    <2>0. BooksOK
      BY <1>1, QuotaInvParts
    <2> SUFFICES ASSUME NEW k \in Keys, Final(k) PROVE hold'[k] = hold[k]
      OBVIOUS
    <2>1. ASSUME NEW r \in Requests, TakeHold(r) PROVE hold'[k] = hold[k]
      BY <2>0, <2>1 DEF TakeHold, BooksOK
    <2>2. ASSUME NEW r \in Requests, SettleHeld(r) PROVE hold'[k] = hold[k]
      BY <2>0, <2>2 DEF SettleHeld, Charge, BooksOK
    <2>3. ASSUME NEW j \in Keys, NEW end, GiveBack(j, end) PROVE hold'[k] = hold[k]
      BY <2>0, <2>3 DEF GiveBack, BooksOK
    <2>4. ASSUME NEW r \in Requests, Release(r) PROVE hold'[k] = hold[k]
      BY <2>3, <2>4, KeyIsKey DEF Release
    <2>5. CASE hold' = hold
      BY <2>5
    <2>6. ASSUME NEW r \in Requests, Handle(r) PROVE hold'[k] = hold[k]
      BY <2>2, <2>4, <2>6 DEF Handle, Answered, Failed, Record, Note, SettleAgain, SettleConflict,
                              SettleFails
    <2> QED
      BY <1>1, <2>1, <2>3, <2>5, <2>6 DEF Next, Reserve, ReserveShared, ReserveRefused, Expire,
                                         Adjust, Crash, vars
  <1>2. QuotaInv /\ [Next]_vars
          => [\A k \in Keys : Final(k) => hold'[k] = hold[k]]_vars
    BY <1>1
  <1> QED
    BY <1>2, QuotaInvariant, PTL DEF Spec, HoldEndsOnce

-----------------------------------------------------------------------------
(* The usage rows.  A request whose id nobody repeats writes its row       *)
(* alone: the settled row after its own charge, the failed row when it has *)
(* given up on charging; and a charge is final.                            *)
Sole(r) == \A s \in Requests \ {r} : IdOf[s] # IdOf[r]
Uncharged == {"new", "upstream", "settle", "release", "drop", "note"}
UsageRow == [status : {"settled", "failed"}, user : Users, cost : Nat]

Charged(r, cost) == hold[KeyOf(r)].status = "settled" /\ hold[KeyOf(r)].settled = cost
RowTrue(r) ==
  /\ pc[r] \in Uncharged => hold[KeyOf(r)].status # "settled"
  /\ pc[r] = "record" => Charged(r, bill[r])
  /\ usage[IdOf[r]].status = "settled" => Charged(r, usage[IdOf[r]].cost)
  /\ usage[IdOf[r]].status = "failed" =>
       hold[KeyOf(r)].status # "settled" /\ pc[r] \in Ended
UsageInv ==
  /\ usage \in [Ids -> {NoUsage} \cup UsageRow]
  /\ \A r \in Requests : Sole(r) => RowTrue(r)

(* What becomes of a hold that its request does not touch in this step: it *)
(* stays as it is, or an open one is given back.                           *)
Untouched(k) ==
  \/ hold'[k] = hold[k]
  \/ hold[k].status = "held" /\ hold'[k].status \in {"released", "expired"}

(* A step that is not the request's own leaves its row true, a crash too.  *)
LEMMA AsideKeepsRow ==
  ASSUME NEW r \in Requests, RowTrue(r), pc'[r] = pc[r] \/ pc'[r] = "gone",
         bill'[r] = bill[r], usage'[IdOf[r]] = usage[IdOf[r]], Untouched(KeyOf(r))
  PROVE  RowTrue(r)'
  <1>1. KeyOf(r)' = KeyOf(r)
    BY DEF KeyOf
  <1>2. "gone" \in Ended /\ "gone" \notin Uncharged
    BY DEF Ended, Uncharged
  <1> QED
    BY <1>1, <1>2 DEF RowTrue, Charged, Untouched

(* A step of the request itself that leaves its row and does not charge.   *)
LEMMA OwnStepKeepsRow ==
  ASSUME NEW r \in Requests, RowTrue(r), HandlersOK,
         pc[r] \in Uncharged, NEW at \in Uncharged \cup Ended, pc'[r] = at,
         usage' = usage, hold'[KeyOf(r)].status # "settled"
  PROVE  RowTrue(r)'
  <1>1. KeyOf(r)' = KeyOf(r)
    BY DEF KeyOf
  <1>2. pc[r] \notin Ended /\ at # "record"
    BY DEF Ended, Uncharged
  <1> QED
    BY <1>1, <1>2 DEF RowTrue, Charged

(* Two requests with ids of their own have holds of their own.             *)
LEMMA SoleHold ==
  ASSUME NEW r \in Requests, Sole(r), NEW s \in Requests \ {r}
  PROVE  IdOf[r] # IdOf[s] /\ KeyOf(r) \in Keys \ {KeyOf(s)}
  BY KeyIsKey DEF Sole, KeyOf

(* What a step of handler s shows about s is enough.                       *)
LEMMA HandlerKeepsRows ==
  ASSUME HandlersOK, UsageInv, NEW s \in Requests, NEW at, To(s, at),
         \A r \in Requests \ {s} : bill'[r] = bill[r],
         \A j \in Keys \ {KeyOf(s)} : hold'[j] = hold[j],
         usage' \in [Ids -> {NoUsage} \cup UsageRow],
         \A i \in Ids \ {IdOf[s]} : usage'[i] = usage[i],
         Sole(s) => RowTrue(s)'
  PROVE  UsageInv'
  <1>1. ASSUME NEW r \in Requests, Sole(r) PROVE RowTrue(r)'
    <2>1. CASE r = s
      BY <1>1, <2>1
    <2>2. CASE r # s
      <3>1. IdOf[r] \in Ids \ {IdOf[s]} /\ KeyOf(r) \in Keys \ {KeyOf(s)}
        BY <1>1, <2>2, SoleHold, QuotaAssumption
      <3>2. Untouched(KeyOf(r))
        BY <3>1 DEF Untouched
      <3>3. pc'[r] = pc[r]
        BY <2>2 DEF To, HandlersOK
      <3> QED
        BY <1>1, <2>2, <3>1, <3>2, <3>3, AsideKeepsRow DEF UsageInv
    <2> QED
      BY <2>1, <2>2
  <1> QED
    BY <1>1 DEF UsageInv, Sole

LEMMA UsageInit == Init => UsageInv
  <1> SUFFICES ASSUME Init PROVE UsageInv
    OBVIOUS
  <1>1. usage \in [Ids -> {NoUsage} \cup UsageRow]
    BY DEF Init
  <1>2. \A i \in Ids : usage[i].status = "none"
    BY DEF Init, NoUsage
  <1>3. \A k \in Keys : hold[k].status = "none"
    BY DEF Init, NoHold
  <1>4. \A r \in Requests : RowTrue(r)
    BY <1>2, <1>3, KeyIsKey, QuotaAssumption DEF Init, RowTrue
  <1> QED
    BY <1>1, <1>4 DEF UsageInv

(* Putting a row: the one that is there stays, and no other changes.       *)
LEMMA PutUsageRows ==
  ASSUME usage \in [Ids -> {NoUsage} \cup UsageRow], NEW r \in Requests,
         NEW row \in UsageRow, PutUsage(r, row)
  PROVE  /\ usage' \in [Ids -> {NoUsage} \cup UsageRow]
         /\ \A i \in Ids \ {IdOf[r]} : usage'[i] = usage[i]
         /\ usage'[IdOf[r]] = row \/ usage'[IdOf[r]] = usage[IdOf[r]]
  <1>1. IdOf[r] \in Ids
    BY QuotaAssumption
  <1>2. usage' = [usage EXCEPT ![IdOf[r]] = IF @ = NoUsage THEN row ELSE @]
    BY DEF PutUsage
  <1> QED
    BY <1>1, <1>2

LEMMA UsageStep == QuotaInv /\ UsageInv /\ [Next]_vars => UsageInv'
  <1> SUFFICES ASSUME QuotaInv, UsageInv, [Next]_vars PROVE UsageInv'
    OBVIOUS
  <1>0. /\ BooksOK /\ HandlersOK /\ usage \in [Ids -> {NoUsage} \cup UsageRow]
        /\ hold \in [Keys -> {NoHold} \cup HoldRow]
        /\ \A r \in Requests : Sole(r) => RowTrue(r)
    BY QuotaInvParts DEF UsageInv, BooksOK
  <1>1. ASSUME NEW s \in Requests, pc[s] \in Uncharged, NEW at \in Uncharged \cup Ended,
               To(s, at), usage' = usage, \A r \in Requests \ {s} : bill'[r] = bill[r],
               \A j \in Keys \ {KeyOf(s)} : hold'[j] = hold[j],
               hold' = hold \/ hold'[KeyOf(s)].status # "settled"
        PROVE  UsageInv'
    <2>1. pc'[s] = at
      BY <1>0, <1>1 DEF To, HandlersOK
    <2>2. ASSUME Sole(s) PROVE RowTrue(s)'
      <3>1. RowTrue(s) /\ hold[KeyOf(s)].status # "settled"
        BY <1>0, <1>1, <2>2 DEF RowTrue
      <3>2. hold'[KeyOf(s)].status # "settled"
        BY <1>1, <3>1
      <3> QED
        BY <1>0, <1>1, <2>1, <3>1, <3>2, OwnStepKeepsRow
    <2> QED
      BY <1>0, <1>1, <2>2, HandlerKeepsRows
  <1>2. ASSUME NEW s \in Requests, Reserve(s) PROVE UsageInv'
    <2>1. PICK at \in {"upstream", "refused"} : To(s, at)
      BY <1>2 DEF Reserve
    <2>2. at \in Uncharged \cup Ended /\ pc[s] \in Uncharged /\ usage' = usage /\ bill' = bill
      BY <1>2 DEF Reserve, Uncharged, Ended
    <2>3. KeyOf(s) \in Keys
      BY KeyIsKey
    <2>4. /\ \A j \in Keys \ {KeyOf(s)} : hold'[j] = hold[j]
          /\ hold'[KeyOf(s)].status = "held"
      BY <1>0, <1>2, <2>3 DEF Reserve, TakeHold
    <2> QED
      BY <1>1, <2>1, <2>2, <2>4
  <1>3. ASSUME NEW s \in Requests,
               \/ ReserveShared(s) \/ ReserveRefused(s) \/ Failed(s) \/ SettleConflict(s)
               \/ SettleFails(s)
        PROVE  UsageInv'
    <2>1. PICK at \in {"upstream", "refused", "release", "drop", "lost", "unsure"} : To(s, at)
      BY <1>3 DEF ReserveShared, ReserveRefused, Failed, SettleConflict, SettleFails
    <2>2. /\ at \in Uncharged \cup Ended /\ pc[s] \in Uncharged
          /\ usage' = usage /\ bill' = bill /\ hold' = hold
      BY <1>3, <2>1 DEF ReserveShared, ReserveRefused, Failed, SettleConflict, SettleFails,
                       Settling, Uncharged, Ended
    <2> QED
      BY <1>1, <2>1, <2>2
  <1>4. ASSUME NEW s \in Requests, Answered(s) PROVE UsageInv'
    <2>1. /\ To(s, "settle") /\ "settle" \in Uncharged /\ pc[s] \in Uncharged
          /\ usage' = usage /\ hold' = hold
      BY <1>4 DEF Answered, Uncharged
    <2>2. \A r \in Requests \ {s} : bill'[r] = bill[r]
      BY <1>0, <1>4 DEF Answered, HandlersOK
    <2> QED
      BY <1>1, <2>1, <2>2
  <1>5. ASSUME NEW s \in Requests, SettleHeld(s) PROVE UsageInv'
    <2>1. KeyOf(s) \in Keys /\ bill[s] \in Nat /\ hold[KeyOf(s)].status = "held"
      BY <1>0, <1>5, KeyIsKey DEF SettleHeld, HandlersOK
    <2>2. Charge(KeyOf(s), bill[s]) /\ usage' = usage /\ bill' = bill /\ pc[s] = "settle"
      BY <1>5 DEF SettleHeld, Settling
    <2>3. /\ hold'[KeyOf(s)] = [hold[KeyOf(s)] EXCEPT !.status = "settled", !.settled = bill[s]]
          /\ \A j \in Keys \ {KeyOf(s)} : hold'[j] = hold[j]
      BY <1>0, <2>1, <2>2, ChargeKeepsBooks
    <2>4. hold[KeyOf(s)] \in HoldRow
      BY <1>0, <2>1, HeldIsRow
    <2>5. hold'[KeyOf(s)].status = "settled" /\ hold'[KeyOf(s)].settled = bill[s]
      BY <2>3, <2>4 DEF HoldRow
    <2>6. PICK at \in {"record", "unsure"} : To(s, at)
      BY <1>5 DEF SettleHeld
    <2>7. pc'[s] = at /\ at \notin Uncharged
      BY <1>0, <2>6 DEF To, HandlersOK, Uncharged
    <2>8. ASSUME Sole(s) PROVE RowTrue(s)'
      <3>1. RowTrue(s) /\ pc[s] \notin Ended
        BY <1>0, <2>2, <2>8 DEF Ended
      <3>2. usage[IdOf[s]].status # "settled" /\ usage[IdOf[s]].status # "failed"
        BY <2>1, <3>1 DEF RowTrue, Charged
      <3> QED
        BY <2>2, <2>5, <2>7, <3>2 DEF RowTrue, Charged, KeyOf
    <2> QED
      BY <1>0, <2>2, <2>3, <2>6, <2>8, HandlerKeepsRows
  <1>6. ASSUME NEW s \in Requests, SettleAgain(s) PROVE UsageInv'
    <2>1. /\ To(s, "record") /\ usage' = usage /\ bill' = bill /\ hold' = hold
          /\ pc[s] = "settle" /\ hold[KeyOf(s)].status = "settled"
      BY <1>6 DEF SettleAgain, Settling
    <2>2. ~Sole(s)
      BY <1>0, <2>1 DEF RowTrue, Uncharged
    <2> QED
      BY <1>0, <2>1, <2>2, HandlerKeepsRows
  <1>7. ASSUME NEW s \in Requests, Record(s) PROVE UsageInv'
    <2> DEFINE row == [status |-> "settled", user |-> UserOf[s], cost |-> bill[s]]
    <2>1. row \in UsageRow /\ row.status = "settled" /\ row.cost = bill[s]
      BY <1>0, QuotaAssumption DEF UsageRow, HandlersOK
    <2>2. /\ pc[s] = "record" /\ hold' = hold /\ bill' = bill
          /\ PutUsage(s, row) \/ usage' = usage
      BY <1>7 DEF Record
    <2> HIDE DEF row
    <2>3. /\ usage' \in [Ids -> {NoUsage} \cup UsageRow]
          /\ \A i \in Ids \ {IdOf[s]} : usage'[i] = usage[i]
          /\ usage'[IdOf[s]] = row \/ usage'[IdOf[s]] = usage[IdOf[s]]
      BY <1>0, <2>1, <2>2, PutUsageRows
    <2>4. PICK at \in {"charged", "unsure"} : To(s, at)
      BY <1>7 DEF Record
    <2>5. pc'[s] = at /\ at \notin Uncharged /\ at # "record" /\ at \in Ended
      BY <1>0, <2>4 DEF To, HandlersOK, Uncharged, Ended
    <2>6. ASSUME Sole(s) PROVE RowTrue(s)'
      <3>1. RowTrue(s) /\ Charged(s, bill[s])
        BY <1>0, <2>2, <2>6 DEF RowTrue
      <3>2. usage'[IdOf[s]].status = "settled" => Charged(s, usage'[IdOf[s]].cost)
        BY <2>1, <2>3, <3>1 DEF RowTrue
      <3>3. usage'[IdOf[s]].status # "failed"
        BY <2>1, <2>3, <3>1 DEF RowTrue, Charged
      <3> QED
        BY <2>2, <2>5, <3>2, <3>3 DEF RowTrue, Charged, KeyOf
    <2> QED
      BY <1>0, <2>2, <2>3, <2>4, <2>6, HandlerKeepsRows
  <1>8. ASSUME NEW s \in Requests, Release(s) PROVE UsageInv'
    <2>1. PICK at \in {"note", "returned"} : To(s, at)
      BY <1>8 DEF Release
    <2>2. at \in Uncharged \cup Ended /\ pc[s] \in Uncharged /\ usage' = usage /\ bill' = bill
      BY <1>8 DEF Release, Uncharged, Ended
    <2>3. KeyOf(s) \in Keys
      BY KeyIsKey
    <2>4. CASE GiveBack(KeyOf(s), "released")
      <3>1. /\ hold'[KeyOf(s)] = [hold[KeyOf(s)] EXCEPT !.status = "released"]
            /\ \A j \in Keys \ {KeyOf(s)} : hold'[j] = hold[j]
        BY <1>0, <2>3, <2>4, GiveBackKeepsBooks
      <3>2. hold[KeyOf(s)] \in HoldRow
        BY <1>0, <2>3, <2>4, HeldIsRow DEF GiveBack
      <3>3. hold'[KeyOf(s)].status # "settled"
        BY <3>1, <3>2 DEF HoldRow
      <3> QED
        BY <1>1, <2>1, <2>2, <3>1, <3>3
    <2>5. CASE hold' = hold
      BY <1>1, <2>1, <2>2, <2>5
    <2> QED
      BY <1>8, <2>4, <2>5 DEF Release
  <1>9. ASSUME NEW s \in Requests, Note(s) PROVE UsageInv'
    <2> DEFINE row == [status |-> "failed", user |-> UserOf[s], cost |-> 0]
    <2>1. row \in UsageRow /\ row.status = "failed"
      BY QuotaAssumption DEF UsageRow
    <2>2. /\ pc[s] = "note" /\ hold' = hold /\ bill' = bill /\ To(s, "returned")
          /\ PutUsage(s, row) \/ usage' = usage
      BY <1>9 DEF Note
    <2> HIDE DEF row
    <2>3. /\ usage' \in [Ids -> {NoUsage} \cup UsageRow]
          /\ \A i \in Ids \ {IdOf[s]} : usage'[i] = usage[i]
          /\ usage'[IdOf[s]] = row \/ usage'[IdOf[s]] = usage[IdOf[s]]
      BY <1>0, <2>1, <2>2, PutUsageRows
    <2>4. pc'[s] = "returned"
      BY <1>0, <2>2 DEF To, HandlersOK
    <2>5. "returned" \in Ended /\ "returned" \notin Uncharged /\ "note" \in Uncharged
      BY DEF Ended, Uncharged
    <2>6. ASSUME Sole(s) PROVE RowTrue(s)'
      <3>1. RowTrue(s) /\ hold[KeyOf(s)].status # "settled"
        BY <1>0, <2>2, <2>5, <2>6 DEF RowTrue
      <3>2. usage'[IdOf[s]].status # "settled"
        BY <2>1, <2>3, <3>1 DEF RowTrue, Charged
      <3> QED
        BY <2>2, <2>4, <2>5, <3>1, <3>2 DEF RowTrue, KeyOf
    <2> QED
      BY <1>0, <2>2, <2>3, <2>6, HandlerKeepsRows
  <1>10. ASSUME NEW k \in Keys, Expire(k) PROVE UsageInv'
    <2>1. /\ hold'[k] = [hold[k] EXCEPT !.status = "expired"]
          /\ \A j \in Keys \ {k} : hold'[j] = hold[j]
      BY <1>0, <1>10, GiveBackKeepsBooks DEF Expire
    <2>2. UNCHANGED <<usage, pc, bill>> /\ hold[k].status = "held"
      BY <1>10 DEF Expire
    <2>3. hold[k] \in HoldRow
      BY <1>0, <2>2, HeldIsRow
    <2>4. hold'[k].status = "expired"
      BY <2>1, <2>3 DEF HoldRow
    <2>5. \A r \in Requests : Untouched(KeyOf(r))
      BY <2>1, <2>2, <2>4, KeyIsKey DEF Untouched
    <2>6. \A r \in Requests : Sole(r) => RowTrue(r)'
      BY <1>0, <2>2, <2>5, AsideKeepsRow
    <2> QED
      BY <1>0, <2>2, <2>6 DEF UsageInv, Sole
  <1>11. CASE UNCHANGED <<hold, usage, bill>> /\ \A r \in Requests : pc'[r] \in {pc[r], "gone"}
    <2>1. \A r \in Requests : Untouched(KeyOf(r))
      BY <1>11 DEF Untouched
    <2>2. \A r \in Requests : Sole(r) => RowTrue(r)'
      BY <1>0, <1>11, <2>1, AsideKeepsRow
    <2> QED
      BY <1>0, <1>11, <2>2 DEF UsageInv, Sole
  <1>12. ASSUME NEW a \in Adjustments, Adjust(a) PROVE UsageInv'
    BY <1>11, <1>12 DEF Adjust
  <1>13. ASSUME Crash PROVE UsageInv'
    BY <1>11, <1>13 DEF Crash
  <1>14. CASE UNCHANGED vars
    BY <1>11, <1>14 DEF vars
  <1> QED
    BY <1>2, <1>3, <1>4, <1>5, <1>6, <1>7, <1>8, <1>9, <1>10, <1>12, <1>13, <1>14
    DEF Next, Handle

(* For any users, requests and costs, with holds that may expire at any    *)
(* time: a usage row tells what the account was charged, where no other    *)
(* request carries the same id (gateway/api/openai/charge.go).             *)
THEOREM QuotaUsageIsTrue == Spec => []UsageIsTrue
  <1>1. Init => UsageInv
    BY UsageInit
  <1>2. QuotaInv /\ UsageInv /\ [Next]_vars => UsageInv'
    BY UsageStep
  <1>3. UsageInv => UsageIsTrue
    BY DEF UsageInv, Sole, RowTrue, Charged, UsageIsTrue
  <1> QED
    BY <1>1, <1>2, <1>3, QuotaInvariant, PTL DEF Spec

-----------------------------------------------------------------------------
(* Induction over the subsets of a finite set, from its smallest exception.   *)
LEMMA SubsetInduction ==
  ASSUME NEW S, IsFiniteSet(S), NEW G,
         \A T \in SUBSET S : (\A x \in T : T \ {x} \in G) => T \in G
  PROVE  SUBSET S \subseteq G
  <1> DEFINE Bad == (SUBSET S) \ G
             R == StrictSubsetOrdering(S)
             D == SUBSET S
  <1> SUFFICES ASSUME Bad # {} PROVE FALSE
    OBVIOUS
  <1>1. IsWellFoundedOn(R, D)
    <2>1. FiniteSubsetsOf(S) = D
      BY FS_FiniteSubsetsOfFinite
    <2>2. IsWellFoundedOn(R, FiniteSubsetsOf(S))
      BY FS_StrictSubsetOrderingWellFounded
    <2> HIDE DEF D, R
    <2> QED
      BY <2>1, <2>2
  <1>2. \E T \in Bad : \A U \in Bad : ~(<<U, T>> \in R)
    <2>1. Bad \subseteq D
      OBVIOUS
    <2> HIDE DEF Bad, R, D
    <2> QED
      BY <1>1, <2>1, WFMin
  <1>3. PICK T \in Bad : \A U \in Bad : ~(<<U, T>> \in R)
    BY <1>2
  <1>4. ASSUME NEW x \in T PROVE T \ {x} \in G
    <2>1. <<T \ {x}, T>> \in R
      BY <1>4 DEF StrictSubsetOrdering
    <2> QED
      BY <1>3, <2>1
  <1> QED
    BY <1>3, <1>4

(* As many things as w says for the elements of s: their number is the sum.   *)
Units(w, s) == UNION {{x} \X (1 .. w[x]) : x \in s}

LEMMA UnitsOfOne ==
  ASSUME NEW x, NEW n \in Nat
  PROVE  IsFiniteSet({x} \X (1 .. n)) /\ Cardinality({x} \X (1 .. n)) = n
  <1>1. IsFiniteSet(1 .. n) /\ Cardinality(1 .. n) = n
    BY FS_Interval
  <1>2. IsFiniteSet({x}) /\ Cardinality({x}) = 1
    BY FS_Singleton
  <1> QED
    BY <1>1, <1>2, FS_Product

LEMMA UnitsOfMore ==
  ASSUME NEW w, NEW s, NEW x, x \notin s, w[x] \in Nat, IsFiniteSet(Units(w, s))
  PROVE  /\ IsFiniteSet(Units(w, s \cup {x}))
         /\ Cardinality(Units(w, s \cup {x})) = w[x] + Cardinality(Units(w, s))
  <1> DEFINE A == {x} \X (1 .. w[x])
             B == Units(w, s)
  <1>1. Units(w, s \cup {x}) = A \cup B
    BY DEF Units
  <1>2. A \cap B = {}
    BY DEF Units
  <1>3. IsFiniteSet(A) /\ Cardinality(A) = w[x]
    BY UnitsOfOne
  <1> HIDE DEF A, B
  <1>4. IsFiniteSet(A \cup B) /\ Cardinality(A \cup B) = Cardinality(A) + Cardinality(B) - 0
    BY <1>2, <1>3, FS_Union, FS_EmptySet DEF B
  <1>5. Cardinality(B) \in Nat
    BY FS_CardinalityType DEF B
  <1>6. Cardinality(A \cup B) = w[x] + Cardinality(B)
    BY <1>3, <1>4, <1>5
  <1> QED
    BY <1>1, <1>4, <1>6 DEF B

LEMMA UnitsFinite ==
  ASSUME NEW S, IsFiniteSet(S), NEW w, \A x \in S : w[x] \in Nat
  PROVE  \A s \in SUBSET S : IsFiniteSet(Units(w, s))
  <1> DEFINE G == {s \in SUBSET S : IsFiniteSet(Units(w, s))}
  <1>1. ASSUME NEW T \in SUBSET S, \A x \in T : T \ {x} \in G PROVE T \in G
    <2>1. CASE T = {}
      <3>1. Units(w, {}) = {}
        BY DEF Units
      <3> QED
        BY <2>1, <3>1, FS_EmptySet
    <2>2. CASE T # {}
      <3>1. PICK x \in T : TRUE
        BY <2>2
      <3>2. IsFiniteSet(Units(w, T \ {x})) /\ w[x] \in Nat
        BY <1>1
      <3>3. IsFiniteSet(Units(w, (T \ {x}) \cup {x}))
        BY <3>2, UnitsOfMore
      <3>4. (T \ {x}) \cup {x} = T
        OBVIOUS
      <3> QED
        BY <3>3, <3>4
    <2> QED
      BY <2>1, <2>2
  <1> HIDE DEF G
  <1>2. SUBSET S \subseteq G
    BY <1>1, SubsetInduction
  <1> QED
    BY <1>2 DEF G

(* A function that adds w up, element by element, in some order.              *)
IsSum(g, S, w) ==
  g = [s \in SUBSET S |-> IF s = {} THEN 0
         ELSE w[CHOOSE x \in s : TRUE] + g[s \ {CHOOSE x \in s : TRUE}]]

(* What it computes.                                                          *)
LEMMA SumIsCount ==
  ASSUME NEW S, IsFiniteSet(S), NEW w, \A x \in S : w[x] \in Nat,
         NEW g, IsSum(g, S, w)
  PROVE  g[S] = Cardinality(Units(w, S))
  <1> DEFINE G == {s \in SUBSET S : g[s] = Cardinality(Units(w, s))}
  <1>1. ASSUME NEW T \in SUBSET S, \A x \in T : T \ {x} \in G PROVE T \in G
    <2>1. CASE T = {}
      <3>1. Units(w, {}) = {}
        BY DEF Units
      <3>2. g[{}] = 0
        BY DEF IsSum
      <3> QED
        BY <2>1, <3>1, <3>2, FS_EmptySet
    <2>2. CASE T # {}
      <3> DEFINE x == CHOOSE x \in T : TRUE
      <3>1. x \in T
        BY <2>2
      <3>2. g[T] = w[x] + g[T \ {x}]
        BY <2>2 DEF IsSum
      <3> HIDE DEF x
      <3>3. g[T \ {x}] = Cardinality(Units(w, T \ {x}))
        BY <1>1, <3>1
      <3>4. IsFiniteSet(Units(w, T \ {x}))
        BY UnitsFinite
      <3>5. Cardinality(Units(w, (T \ {x}) \cup {x})) = w[x] + Cardinality(Units(w, T \ {x}))
        BY <3>1, <3>4, UnitsOfMore
      <3>6. (T \ {x}) \cup {x} = T
        BY <3>1
      <3> QED
        BY <3>2, <3>3, <3>5, <3>6
    <2> QED
      BY <2>1, <2>2
  <1> HIDE DEF G
  <1>2. SUBSET S \subseteq G
    BY <1>1, SubsetInduction
  <1> QED
    BY <1>2 DEF G

(* There is such a function, so a recursive definition means it.              *)
LEMMA SumExists ==
  ASSUME NEW S, IsFiniteSet(S), NEW w, \A x \in S : w[x] \in Nat
  PROVE  \E g : IsSum(g, S, w)
  <1> DEFINE g == [s \in SUBSET S |-> Cardinality(Units(w, s))]
             h == [s \in SUBSET S |-> IF s = {} THEN 0
                     ELSE w[CHOOSE x \in s : TRUE] + g[s \ {CHOOSE x \in s : TRUE}]]
  <1>1. ASSUME NEW T \in SUBSET S PROVE g[T] = h[T]
    <2>1. CASE T = {}
      <3>1. Units(w, {}) = {}
        BY DEF Units
      <3> QED
        BY <2>1, <3>1, FS_EmptySet
    <2>2. CASE T # {}
      <3> DEFINE x == CHOOSE x \in T : TRUE
      <3>1. x \in T
        BY <2>2
      <3>2. h[T] = w[x] + g[T \ {x}]
        BY <2>2
      <3>3. g[T] = Cardinality(Units(w, T)) /\ g[T \ {x}] = Cardinality(Units(w, T \ {x}))
        OBVIOUS
      <3> HIDE DEF x, g, h
      <3>4. IsFiniteSet(Units(w, T \ {x}))
        BY UnitsFinite
      <3>5. Cardinality(Units(w, (T \ {x}) \cup {x})) = w[x] + Cardinality(Units(w, T \ {x}))
        BY <3>1, <3>4, UnitsOfMore
      <3>6. (T \ {x}) \cup {x} = T
        BY <3>1
      <3> QED
        BY <3>2, <3>3, <3>5, <3>6
    <2> QED
      BY <2>1, <2>2
  <1>2. g = h
    BY <1>1
  <1> QED
    BY <1>2 DEF IsSum

(* What the answers of a user cost beyond their holds, one by one.            *)
Settled(u) == Holds(u, "settled")
Beyond(u) == Units([k \in Keys |-> Excess(k)], Settled(u))

LEMMA ExcessIsCounted ==
  ASSUME NEW u, IsFiniteSet(Settled(u)), \A k \in Settled(u) : Excess(k) \in Nat
  PROVE  MapThenSumSet(Excess, Settled(u)) = Cardinality(Beyond(u))
  <1> DEFINE S == Settled(u)
             w == [k \in Keys |-> Excess(k)]
             iter[s \in SUBSET S] == IF s = {} THEN 0
               ELSE Excess(CHOOSE x \in s : TRUE) + iter[s \ {CHOOSE x \in s : TRUE}]
  <1>1. MapThenSumSet(Excess, S) = iter[S]
    BY DEF MapThenSumSet, MapThenFoldSet
  <1>2. \A x \in S : x \in Keys /\ w[x] = Excess(x) /\ w[x] \in Nat
    BY DEF Settled, Holds, KeysOf
  <1>3. \A s \in SUBSET S : s # {} => (CHOOSE x \in s : TRUE) \in S
    OBVIOUS
  <1>0. IsFiniteSet(S)
    OBVIOUS
  <1> HIDE DEF S, w
  <1>4. PICK g : IsSum(g, S, w)
    <2>1. \A x \in S : w[x] \in Nat
      BY <1>2
    <2> QED
      BY <1>0, <2>1, SumExists
  <1>5. g = [s \in SUBSET S |-> IF s = {} THEN 0
                    ELSE Excess(CHOOSE x \in s : TRUE) + g[s \ {CHOOSE x \in s : TRUE}]]
    BY <1>2, <1>3, <1>4 DEF IsSum
  <1>6. iter = [s \in SUBSET S |-> IF s = {} THEN 0
                    ELSE Excess(CHOOSE x \in s : TRUE) + iter[s \ {CHOOSE x \in s : TRUE}]]
    BY <1>5
  <1> HIDE DEF iter
  <1>7. IsSum(iter, S, w)
    BY <1>2, <1>3, <1>6 DEF IsSum
  <1>8. iter[S] = Cardinality(Units(w, S))
    BY <1>0, <1>2, <1>7, SumIsCount
  <1> QED
    BY <1>1, <1>8 DEF Beyond, S, w

-----------------------------------------------------------------------------
(* What the answers cost beyond their holds bounds the overdraft.             *)
OverInv == \A u \in Users :
  IsFiniteSet(Settled(u)) /\ Available(u) + Cardinality(Beyond(u)) >= 0

LEMMA SettledRow ==
  ASSUME BooksOK, NEW u \in Users, NEW k \in Settled(u)
  PROVE  k \in Keys /\ Owner(k) = u /\ hold[k] \in HoldRow /\ Excess(k) \in Nat
  <1>1. k \in Keys /\ Owner(k) = u /\ hold[k].status = "settled"
    BY DEF Settled, Holds, KeysOf
  <1>2. hold[k] \in HoldRow
    BY <1>1, HeldIsRow
  <1>3. hold[k].settled \in Nat /\ hold[k].amount \in Nat
    BY <1>2 DEF HoldRow
  <1> QED
    BY <1>1, <1>2, <1>3 DEF Excess

LEMMA BeyondCounts ==
  ASSUME BooksOK, NEW u \in Users, IsFiniteSet(Settled(u))
  PROVE  IsFiniteSet(Beyond(u)) /\ Cardinality(Beyond(u)) \in Nat
  <1> DEFINE w == [k \in Keys |-> Excess(k)]
             S == Settled(u)
  <1>1. \A k \in S : w[k] \in Nat
    BY SettledRow
  <1>2. IsFiniteSet(S)
    OBVIOUS
  <1>3. Beyond(u) = Units(w, S)
    BY DEF Beyond
  <1> HIDE DEF w, S
  <1>4. \A s \in SUBSET S : IsFiniteSet(Units(w, s))
    BY <1>1, <1>2, UnitsFinite
  <1>5. IsFiniteSet(Beyond(u))
    BY <1>3, <1>4
  <1> QED
    BY <1>5, FS_CardinalityType

(* The settled holds of a user are what they were.                            *)
LEMMA BeyondStays ==
  ASSUME NEW u \in Users,
         \A k \in Keys : Owner(k) = u =>
           \/ hold'[k] = hold[k]
           \/ hold[k].status # "settled" /\ hold'[k].status # "settled"
  PROVE  Settled(u)' = Settled(u) /\ Beyond(u)' = Beyond(u)
  <1>1. Settled(u)' = Settled(u)
    BY DEF Settled, Holds, KeysOf
  <1>2. \A k \in Settled(u) : k \in Keys /\ hold'[k] = hold[k]
    BY DEF Settled, Holds, KeysOf
  <1>3. \A k \in Settled(u) :
          [j \in Keys |-> Excess(j)]'[k] = [j \in Keys |-> Excess(j)][k]
    BY <1>2 DEF Excess
  <1>4. Units([j \in Keys |-> Excess(j)]', Settled(u))
          = Units([j \in Keys |-> Excess(j)], Settled(u))
    BY <1>3 DEF Units
  <1> QED
    BY <1>1, <1>4 DEF Beyond

LEMMA OverPosting ==
  ASSUME BooksOK, BooksOK', OverInv,
         \A u \in Users : Settled(u)' = Settled(u) /\ Beyond(u)' = Beyond(u)
                          /\ (Available(u)' >= Available(u) \/ Available(u)' >= 0)
  PROVE  OverInv'
  <1> SUFFICES ASSUME NEW u \in Users
      PROVE  IsFiniteSet(Settled(u))' /\ (Available(u) + Cardinality(Beyond(u)) >= 0)'
    BY DEF OverInv
  <1>1. IsFiniteSet(Settled(u)) /\ Available(u) + Cardinality(Beyond(u)) >= 0
    BY DEF OverInv
  <1>2. Cardinality(Beyond(u)) \in Nat
    BY <1>1, BeyondCounts
  <1>3. Available(u) \in Int /\ Available(u)' \in Int
    BY DEF Available, BooksOK
  <1>4. Settled(u)' = Settled(u) /\ Beyond(u)' = Beyond(u)
        /\ (Available(u)' >= Available(u) \/ Available(u)' >= 0)
    OBVIOUS
  <1>5. Available(u)' + Cardinality(Beyond(u)) >= 0
    BY <1>1, <1>2, <1>3, <1>4
  <1> QED
    BY <1>1, <1>4, <1>5

LEMMA TakeHoldOver ==
  ASSUME BooksOK, OverInv, NEW r \in Requests, TakeHold(r)
  PROVE  OverInv'
  <1> DEFINE q == UserOf[r]
             n == Micro(Estimated[r])
  <1>1. BooksOK'
    BY TakeHoldKeepsBooks
  <1>2. q \in Users /\ n \in Nat /\ KeyOf(r) \in Keys /\ Owner(KeyOf(r)) = q
    BY QuotaAssumption, MicroNat, KeyIsKey
  <1>3. hold[KeyOf(r)].status # "settled" /\ hold'[KeyOf(r)].status # "settled"
        /\ \A k \in Keys \ {KeyOf(r)} : hold'[k] = hold[k]
    BY <1>2 DEF TakeHold, BooksOK
  <1> HIDE DEF q, n
  <1>4. Available(q) >= n /\ reserved' = [reserved EXCEPT ![q] = @ + n]
        /\ UNCHANGED <<total, used>>
    BY DEF TakeHold, Covered, Add, q, n
  <1>5. ASSUME NEW u \in Users
        PROVE  Settled(u)' = Settled(u) /\ Beyond(u)' = Beyond(u)
               /\ (Available(u)' >= Available(u) \/ Available(u)' >= 0)
    <2>1. Settled(u)' = Settled(u) /\ Beyond(u)' = Beyond(u)
      BY <1>3, BeyondStays
    <2>2. Available(u)' >= Available(u) \/ Available(u)' >= 0
      BY <1>2, <1>4 DEF Available, BooksOK
    <2> QED
      BY <2>1, <2>2
  <1> QED
    BY <1>1, <1>5, OverPosting

LEMMA GiveBackOver ==
  ASSUME BooksOK, OverInv, NEW k \in Keys, NEW end \in {"released", "expired"}, GiveBack(k, end)
  PROVE  OverInv'
  <1> DEFINE n == hold[k].amount
             q == Owner(k)
  <1>1. BooksOK' /\ hold'[k] = [hold[k] EXCEPT !.status = end]
        /\ \A j \in Keys \ {k} : hold'[j] = hold[j]
    BY GiveBackKeepsBooks
  <1>2. q \in Users /\ hold[k] \in HoldRow /\ hold[k].status = "held"
    BY OwnerIsUser, HeldIsRow DEF GiveBack
  <1>3. n \in Nat /\ hold'[k].status # "settled"
    BY <1>1, <1>2 DEF HoldRow
  <1> HIDE DEF q, n
  <1>4. reserved' = [reserved EXCEPT ![q] = @ + (-n)] /\ UNCHANGED <<total, used>>
    BY DEF GiveBack, Add, q, n
  <1>5. ASSUME NEW u \in Users
        PROVE  Settled(u)' = Settled(u) /\ Beyond(u)' = Beyond(u)
               /\ (Available(u)' >= Available(u) \/ Available(u)' >= 0)
    <2>1. Settled(u)' = Settled(u) /\ Beyond(u)' = Beyond(u)
      BY <1>1, <1>2, <1>3, BeyondStays
    <2>2. Available(u)' >= Available(u)
      BY <1>2, <1>3, <1>4 DEF Available, BooksOK
    <2> QED
      BY <2>1, <2>2
  <1> QED
    BY <1>1, <1>5, OverPosting

LEMMA AdjustOver ==
  ASSUME BooksOK, OverInv, NEW a \in Adjustments, Adjust(a)
  PROVE  OverInv'
  <1> DEFINE q == TargetOf[a]
             delta == CASE KindOf[a] = "topup" -> AmountOf[a]
                        [] KindOf[a] \in {"debit", "expire"} -> -AmountOf[a]
                        [] OTHER -> 0
  <1>1. BooksOK'
    BY AdjustKeepsBooks
  <1>2. q \in Users /\ AmountOf[a] \in Nat
    BY QuotaAssumption
  <1>3. delta \in Int
    BY <1>2
  <1> HIDE DEF delta, q
  <1>4. total' = [total EXCEPT ![q] = @ + delta] /\ UNCHANGED <<used, reserved, hold>>
        /\ (delta < 0 => Available(q) + delta >= 0)
    BY DEF Adjust, Add, delta, q
  <1>5. ASSUME NEW u \in Users
        PROVE  Settled(u)' = Settled(u) /\ Beyond(u)' = Beyond(u)
               /\ (Available(u)' >= Available(u) \/ Available(u)' >= 0)
    <2>1. Settled(u)' = Settled(u) /\ Beyond(u)' = Beyond(u)
      BY <1>4, BeyondStays
    <2>2. Available(u)' >= Available(u) \/ Available(u)' >= 0
      BY <1>2, <1>3, <1>4 DEF Available, BooksOK
    <2> QED
      BY <2>1, <2>2
  <1> QED
    BY <1>1, <1>5, OverPosting

(* Of the cost, what was held is covered and the rest is the new excess.      *)
LEMMA ChargeOver ==
  ASSUME BooksOK, OverInv, NEW k \in Keys, hold[k].status = "held", NEW cost \in Nat,
         Charge(k, cost)
  PROVE  OverInv'
  <1> DEFINE n == hold[k].amount
             q == Owner(k)
             e == IF cost > n THEN cost - n ELSE 0
  <1>1. BooksOK' /\ hold'[k] = [hold[k] EXCEPT !.status = "settled", !.settled = cost]
        /\ \A j \in Keys \ {k} : hold'[j] = hold[j]
    BY ChargeKeepsBooks
  <1>2. q \in Users /\ hold[k] \in HoldRow
    BY OwnerIsUser, HeldIsRow
  <1>3. n \in Nat /\ hold'[k].status = "settled" /\ hold'[k].settled = cost
        /\ hold'[k].amount = n
    BY <1>1, <1>2 DEF HoldRow
  <1>4. Excess(k)' = e /\ e \in Nat /\ n - cost >= -e
    BY <1>3 DEF Excess
  <1> HIDE DEF e
  <1>5. reserved' = [reserved EXCEPT ![q] = @ + (-n)] /\ used' = [used EXCEPT ![q] = @ + cost]
        /\ UNCHANGED total
    BY DEF Charge, Add
  <1> SUFFICES ASSUME NEW u \in Users
      PROVE  IsFiniteSet(Settled(u))' /\ (Available(u) + Cardinality(Beyond(u)) >= 0)'
    BY DEF OverInv
  <1>6. IsFiniteSet(Settled(u)) /\ Available(u) + Cardinality(Beyond(u)) >= 0
        /\ IsFiniteSet(Beyond(u)) /\ Cardinality(Beyond(u)) \in Nat
    BY BeyondCounts DEF OverInv
  <1>7. Available(u) \in Int
    BY DEF Available, BooksOK
  <1>8. CASE u = q
    <2>1. k \notin Settled(u) /\ Settled(u)' = Settled(u) \cup {k}
      BY <1>1, <1>3, <1>8 DEF Settled, Holds, KeysOf
    <2> DEFINE w == [j \in Keys |-> Excess(j)]'
    <2>2. w[k] = e
      BY <1>4
    <2>3. \A j \in Settled(u) : j \in Keys \ {k}
      BY <2>1 DEF Settled, Holds, KeysOf
    <2>4. \A j \in Settled(u) : w[j] = [i \in Keys |-> Excess(i)][j]
      BY <1>1, <2>3 DEF Excess
    <2>5. Units(w, Settled(u)) = Beyond(u)
      BY <2>4 DEF Units, Beyond
    <2>6. Beyond(u)' = Units(w, Settled(u) \cup {k})
      BY <2>1 DEF Beyond
    <2> HIDE DEF w
    <2>7. Cardinality(Beyond(u)') = e + Cardinality(Beyond(u))
      BY <1>4, <1>6, <2>1, <2>2, <2>5, <2>6, UnitsOfMore
    <2>8. Available(u)' = Available(u) + (n - cost)
      BY <1>2, <1>3, <1>5, <1>8 DEF Available, BooksOK
    <2>9. IsFiniteSet(Settled(u)')
      BY <1>6, <2>1, FS_AddElement
    <2>10. Available(u)' + Cardinality(Beyond(u)') >= 0
      BY <1>3, <1>4, <1>6, <1>7, <2>7, <2>8
    <2> QED
      BY <2>9, <2>10
  <1>9. CASE u # q
    <2>1. \A j \in Keys : Owner(j) = u => hold'[j] = hold[j]
      BY <1>1, <1>9
    <2>2. Settled(u)' = Settled(u) /\ Beyond(u)' = Beyond(u)
      BY <2>1, BeyondStays
    <2>3. Available(u)' = Available(u)
      BY <1>2, <1>5, <1>9 DEF Available, BooksOK
    <2> QED
      BY <1>6, <2>2, <2>3
  <1> QED
    BY <1>8, <1>9

LEMMA OverStarts == Init => OverInv
  <1> SUFFICES ASSUME Init, NEW u \in Users
      PROVE  IsFiniteSet(Settled(u)) /\ Available(u) + Cardinality(Beyond(u)) >= 0
    BY DEF OverInv
  <1>1. Settled(u) = {}
    BY DEF Init, Settled, Holds, KeysOf, NoHold
  <1>2. Beyond(u) = {}
    BY <1>1 DEF Beyond, Units
  <1>3. Available(u) \in Nat
    BY QuotaAssumption DEF Init, Available
  <1> QED
    BY <1>1, <1>2, <1>3, FS_EmptySet

LEMMA OverStep == QuotaInv /\ OverInv /\ [Next]_vars => OverInv'
  <1> SUFFICES ASSUME QuotaInv, OverInv, [Next]_vars PROVE OverInv'
    OBVIOUS
  <1>1. BooksOK /\ HandlersOK
    BY QuotaInvParts
  <1>2. ASSUME UNCHANGED <<account, hold>> PROVE OverInv'
    <2>1. BooksOK'
      BY <1>1, <1>2, SameBooks
    <2>2. ASSUME NEW u \in Users
          PROVE  Settled(u)' = Settled(u) /\ Beyond(u)' = Beyond(u)
                 /\ Available(u)' = Available(u)
      BY <1>2, BeyondStays DEF account, Available
    <2>3. \A u \in Users : Available(u) \in Int
      BY <1>1 DEF Available, BooksOK
    <2> QED
      BY <1>1, <2>1, <2>2, <2>3, OverPosting
  <1>3. ASSUME NEW r \in Requests, Reserve(r) PROVE OverInv'
    BY <1>1, <1>3, TakeHoldOver DEF Reserve
  <1>4. ASSUME NEW r \in Requests, SettleHeld(r) PROVE OverInv'
    <2>1. KeyOf(r) \in Keys /\ bill[r] \in Nat
      BY <1>1, KeyIsKey DEF HandlersOK
    <2> QED
      BY <1>1, <1>4, <2>1, ChargeOver DEF SettleHeld
  <1>5. ASSUME NEW r \in Requests, Release(r) PROVE OverInv'
    BY <1>1, <1>2, <1>5, KeyIsKey, GiveBackOver DEF Release
  <1>6. ASSUME NEW k \in Keys, Expire(k) PROVE OverInv'
    BY <1>1, <1>6, GiveBackOver DEF Expire
  <1>7. ASSUME NEW a \in Adjustments, Adjust(a) PROVE OverInv'
    BY <1>1, <1>7, AdjustOver
  <1>8. ASSUME NEW r \in Requests,
               \/ ReserveShared(r) \/ ReserveRefused(r) \/ Answered(r) \/ Failed(r)
               \/ Record(r) \/ Note(r) \/ SettleAgain(r) \/ SettleConflict(r) \/ SettleFails(r)
        PROVE  OverInv'
    BY <1>2, <1>8 DEF ReserveShared, ReserveRefused, Answered, Failed, Record, Note,
                      SettleAgain, SettleConflict, SettleFails
  <1>9. ASSUME Crash \/ UNCHANGED vars PROVE OverInv'
    BY <1>2, <1>9 DEF Crash, vars
  <1> QED
    BY <1>3, <1>4, <1>5, <1>6, <1>7, <1>8, <1>9 DEF Next, Handle

(* The overdraft of an account, in every state: the number of micro credits   *)
(* that its answers have cost beyond their holds.                             *)
THEOREM OverInvariant == Spec => []OverInv
  BY OverStarts, OverStep, QuotaInvariant, PTL DEF Spec

(* Neither concurrent requests nor a debit overdraw an account; only answers  *)
(* that cost more than was held for them do (ReserveTx, SettleTx, AdjustTx).  *)
THEOREM QuotaNoOverdraft == Spec => []NoOverdraft
  <1>1. ASSUME QuotaInv, OverInv, NEW u \in Users
        PROVE  Available(u) >= -MapThenSumSet(Excess, Holds(u, "settled"))
    <2>1. BooksOK
      BY <1>1, QuotaInvParts
    <2>2. IsFiniteSet(Settled(u)) /\ Available(u) + Cardinality(Beyond(u)) >= 0
      BY <1>1 DEF OverInv
    <2>3. \A k \in Settled(u) : Excess(k) \in Nat
      BY <2>1, SettledRow
    <2>4. MapThenSumSet(Excess, Settled(u)) = Cardinality(Beyond(u))
      BY <2>2, <2>3, ExcessIsCounted
    <2>5. MapThenSumSet(Excess, Holds(u, "settled")) = Cardinality(Beyond(u))
      BY <2>4 DEF Settled
    <2>6. Cardinality(Beyond(u)) \in Nat /\ Available(u) \in Int
      BY <2>1, <2>2, BeyondCounts DEF Available, BooksOK
    <2> QED
      BY <2>2, <2>5, <2>6
  <1>2. QuotaInv /\ OverInv => NoOverdraft
    BY <1>1 DEF NoOverdraft
  <1> QED
    BY <1>2, QuotaInvariant, OverInvariant, PTL

-----------------------------------------------------------------------------
(* What the account says of the holds: the reserved amount is the number of   *)
(* micro credits of the open ones, the used amount of the settled ones.       *)
Open(u) == Holds(u, "held")
Reserved(u) == Units([k \in Keys |-> hold[k].amount], Open(u))
Used(u) == Units([k \in Keys |-> hold[k].settled], Settled(u))
SumInv == \A u \in Users :
  /\ IsFiniteSet(Open(u)) /\ reserved[u] = Cardinality(Reserved(u))
  /\ IsFiniteSet(Settled(u)) /\ used[u] = Cardinality(Used(u))

LEMMA UnitsOfLess ==
  ASSUME NEW w, NEW s, NEW x \in s, w[x] \in Nat, IsFiniteSet(Units(w, s))
  PROVE  /\ IsFiniteSet(Units(w, s \ {x}))
         /\ Cardinality(Units(w, s \ {x})) \in Nat
         /\ Cardinality(Units(w, s)) = w[x] + Cardinality(Units(w, s \ {x}))
  <1>1. Units(w, s \ {x}) \subseteq Units(w, s)
    BY DEF Units
  <1>2. IsFiniteSet(Units(w, s \ {x}))
    BY <1>1, FS_Subset
  <1>3. (s \ {x}) \cup {x} = s
    OBVIOUS
  <1>4. Cardinality(Units(w, (s \ {x}) \cup {x})) = w[x] + Cardinality(Units(w, s \ {x}))
    BY <1>2, UnitsOfMore
  <1> QED
    BY <1>2, <1>3, <1>4, FS_CardinalityType

LEMMA SameUnits ==
  ASSUME NEW w, NEW v, NEW s, \A x \in s : v[x] = w[x]
  PROVE  Units(v, s) = Units(w, s)
  BY DEF Units

LEMMA HoldsRow ==
  ASSUME BooksOK, NEW u \in Users, NEW st \in {"held", "settled"}, NEW k \in Holds(u, st)
  PROVE  /\ k \in Keys /\ Owner(k) = u /\ hold[k].status = st
         /\ hold[k].amount \in Nat /\ hold[k].settled \in Nat
  <1>1. k \in Keys /\ Owner(k) = u /\ hold[k].status = st
    BY DEF Holds, KeysOf
  <1>2. hold[k] \in HoldRow
    BY <1>1, HeldIsRow
  <1> QED
    BY <1>1, <1>2 DEF HoldRow

LEMMA SumsAreFinite ==
  ASSUME BooksOK, SumInv, NEW u \in Users
  PROVE  /\ IsFiniteSet(Reserved(u)) /\ Cardinality(Reserved(u)) \in Nat
         /\ IsFiniteSet(Used(u)) /\ Cardinality(Used(u)) \in Nat
  <1> DEFINE a == [k \in Keys |-> hold[k].amount]
             c == [k \in Keys |-> hold[k].settled]
             S == Open(u)
             T == Settled(u)
  <1>1. (\A k \in S : a[k] \in Nat) /\ (\A k \in T : c[k] \in Nat)
    BY HoldsRow DEF Open, Settled
  <1>2. IsFiniteSet(S) /\ IsFiniteSet(T)
    BY DEF SumInv
  <1>3. Reserved(u) = Units(a, S) /\ Used(u) = Units(c, T)
    BY DEF Reserved, Used
  <1> HIDE DEF a, c, S, T
  <1>4. \A s \in SUBSET S : IsFiniteSet(Units(a, s))
    BY <1>1, <1>2, UnitsFinite
  <1>5. \A s \in SUBSET T : IsFiniteSet(Units(c, s))
    BY <1>1, <1>2, UnitsFinite
  <1>6. IsFiniteSet(Reserved(u)) /\ IsFiniteSet(Used(u))
    BY <1>3, <1>4, <1>5
  <1> QED
    BY <1>6, FS_CardinalityType

(* The holds of another user, or the holds of a step that makes none.         *)
LEMMA SumsStay ==
  ASSUME NEW u \in Users, \A k \in Keys : Owner(k) = u => hold'[k] = hold[k]
  PROVE  /\ Open(u)' = Open(u) /\ Reserved(u)' = Reserved(u)
         /\ Settled(u)' = Settled(u) /\ Used(u)' = Used(u)
  <1>1. Open(u)' = Open(u) /\ Settled(u)' = Settled(u)
    BY DEF Open, Settled, Holds, KeysOf
  <1>2. \A k \in Open(u) \cup Settled(u) : k \in Keys /\ hold'[k] = hold[k]
    BY DEF Open, Settled, Holds, KeysOf
  <1>3. Units([j \in Keys |-> hold[j].amount]', Open(u))
          = Units([j \in Keys |-> hold[j].amount], Open(u))
    BY <1>2, SameUnits
  <1>4. Units([j \in Keys |-> hold[j].settled]', Settled(u))
          = Units([j \in Keys |-> hold[j].settled], Settled(u))
    BY <1>2, SameUnits
  <1> QED
    BY <1>1, <1>3, <1>4 DEF Reserved, Used

(* An open hold comes, with its amount.                                       *)
LEMMA OpenGrows ==
  ASSUME BooksOK, SumInv, NEW k \in Keys, hold[k].status = "none", NEW n \in Nat,
         hold'[k].status = "held", hold'[k].amount = n,
         \A j \in Keys \ {k} : hold'[j] = hold[j]
  PROVE  /\ IsFiniteSet(Open(Owner(k))')
         /\ Cardinality(Reserved(Owner(k))') = Cardinality(Reserved(Owner(k))) + n
         /\ Settled(Owner(k))' = Settled(Owner(k)) /\ Used(Owner(k))' = Used(Owner(k))
  <1> DEFINE u == Owner(k)
             v == [j \in Keys |-> hold[j].amount]'
             c == [j \in Keys |-> hold[j].settled]'
  <1>1. u \in Users
    BY OwnerIsUser
  <1>2. k \notin Open(u) /\ Open(u)' = Open(u) \cup {k} /\ Settled(u)' = Settled(u)
        /\ k \notin Settled(u)
    BY DEF Open, Settled, Holds, KeysOf
  <1>3. \A j \in Open(u) \cup Settled(u) : j \in Keys \ {k}
    BY <1>2 DEF Open, Settled, Holds, KeysOf
  <1>4. Units(v, Open(u)) = Reserved(u)
    <2>1. \A j \in Open(u) : v[j] = [i \in Keys |-> hold[i].amount][j]
      BY <1>3
    <2> QED
      BY <2>1, SameUnits DEF Reserved
  <1>5. Used(u)' = Used(u)
    <2>1. \A j \in Settled(u) : c[j] = [i \in Keys |-> hold[i].settled][j]
      BY <1>3
    <2>2. Units(c, Settled(u)) = Units([i \in Keys |-> hold[i].settled], Settled(u))
      BY <2>1, SameUnits
    <2> QED
      BY <1>2, <2>2 DEF Used
  <1>6. v[k] = n
    OBVIOUS
  <1>7. Reserved(u)' = Units(v, Open(u) \cup {k})
    BY <1>2 DEF Reserved
  <1> HIDE DEF u, v, c
  <1>8. IsFiniteSet(Reserved(u)) /\ Cardinality(Reserved(u)) \in Nat /\ IsFiniteSet(Open(u))
    BY <1>1, SumsAreFinite DEF SumInv
  <1>9. Cardinality(Reserved(u)') = n + Cardinality(Reserved(u))
    <2>1. IsFiniteSet(Units(v, Open(u))) /\ k \notin Open(u) /\ v[k] \in Nat
      BY <1>2, <1>4, <1>6, <1>8
    <2>2. Cardinality(Units(v, Open(u) \cup {k})) = v[k] + Cardinality(Units(v, Open(u)))
      BY <2>1, UnitsOfMore
    <2> QED
      BY <1>4, <1>6, <1>7, <2>2
  <1>10. IsFiniteSet(Open(u)')
    BY <1>2, <1>8, FS_AddElement
  <1>11. Cardinality(Reserved(u)') = Cardinality(Reserved(u)) + n
    BY <1>8, <1>9
  <1> QED
    BY <1>2, <1>5, <1>10, <1>11 DEF u

(* An open hold ends, and its amount is not reserved any more.                *)
LEMMA OpenShrinks ==
  ASSUME BooksOK, SumInv, NEW k \in Keys, hold[k].status = "held", hold'[k].status # "held",
         \A j \in Keys \ {k} : hold'[j] = hold[j]
  PROVE  /\ IsFiniteSet(Open(Owner(k))')
         /\ Cardinality(Reserved(Owner(k))') = Cardinality(Reserved(Owner(k))) - hold[k].amount
  <1> DEFINE u == Owner(k)
             w == [j \in Keys |-> hold[j].amount]
             v == [j \in Keys |-> hold[j].amount]'
  <1>1. u \in Users
    BY OwnerIsUser
  <1>2. k \in Open(u) /\ Open(u)' = Open(u) \ {k}
    BY DEF Open, Holds, KeysOf
  <1>3. \A j \in Open(u) \ {k} : j \in Keys \ {k}
    BY DEF Open, Holds, KeysOf
  <1>4. Units(v, Open(u) \ {k}) = Units(w, Open(u) \ {k})
    <2>1. \A j \in Open(u) \ {k} : v[j] = w[j]
      BY <1>3
    <2> QED
      BY <2>1, SameUnits
  <1>5. Reserved(u) = Units(w, Open(u)) /\ Reserved(u)' = Units(v, Open(u) \ {k})
    BY <1>2 DEF Reserved
  <1>6. w[k] = hold[k].amount /\ w[k] \in Nat
    BY <1>1, <1>2, HoldsRow DEF Open
  <1> HIDE DEF u, v, w
  <1>7. IsFiniteSet(Reserved(u)) /\ IsFiniteSet(Open(u))
    BY <1>1, SumsAreFinite DEF SumInv
  <1>8. /\ Cardinality(Units(w, Open(u) \ {k})) \in Nat
        /\ Cardinality(Units(w, Open(u))) = w[k] + Cardinality(Units(w, Open(u) \ {k}))
    BY <1>2, <1>5, <1>6, <1>7, UnitsOfLess
  <1>9. Cardinality(Units(w, Open(u) \ {k})) = Cardinality(Units(w, Open(u))) - w[k]
    BY <1>6, <1>8
  <1>10. Cardinality(Reserved(u)') = Cardinality(Reserved(u)) - hold[k].amount
    BY <1>4, <1>5, <1>6, <1>9
  <1>11. IsFiniteSet(Open(u)')
    BY <1>2, <1>7, FS_RemoveElement
  <1> QED
    BY <1>10, <1>11 DEF u

(* A settled hold comes, with what it was charged.                            *)
LEMMA SettledGrows ==
  ASSUME BooksOK, SumInv, NEW k \in Keys, hold[k].status = "held", NEW n \in Nat,
         hold'[k].status = "settled", hold'[k].settled = n,
         \A j \in Keys \ {k} : hold'[j] = hold[j]
  PROVE  /\ IsFiniteSet(Settled(Owner(k))')
         /\ Cardinality(Used(Owner(k))') = Cardinality(Used(Owner(k))) + n
  <1> DEFINE u == Owner(k)
             v == [j \in Keys |-> hold[j].settled]'
  <1>1. u \in Users
    BY OwnerIsUser
  <1>2. k \notin Settled(u) /\ Settled(u)' = Settled(u) \cup {k}
    BY DEF Settled, Holds, KeysOf
  <1>3. \A j \in Settled(u) : j \in Keys \ {k}
    BY <1>2 DEF Settled, Holds, KeysOf
  <1>4. Units(v, Settled(u)) = Used(u)
    <2>1. \A j \in Settled(u) : v[j] = [i \in Keys |-> hold[i].settled][j]
      BY <1>3
    <2> QED
      BY <2>1, SameUnits DEF Used
  <1>5. v[k] = n
    OBVIOUS
  <1>6. Used(u)' = Units(v, Settled(u) \cup {k})
    BY <1>2 DEF Used
  <1> HIDE DEF u, v
  <1>7. IsFiniteSet(Used(u)) /\ Cardinality(Used(u)) \in Nat /\ IsFiniteSet(Settled(u))
    BY <1>1, SumsAreFinite DEF SumInv
  <1>8. Cardinality(Used(u)') = n + Cardinality(Used(u))
    <2>1. IsFiniteSet(Units(v, Settled(u))) /\ k \notin Settled(u) /\ v[k] \in Nat
      BY <1>2, <1>4, <1>5, <1>7
    <2>2. Cardinality(Units(v, Settled(u) \cup {k})) = v[k] + Cardinality(Units(v, Settled(u)))
      BY <2>1, UnitsOfMore
    <2> QED
      BY <1>4, <1>5, <1>6, <2>2
  <1>9. IsFiniteSet(Settled(u)')
    BY <1>2, <1>7, FS_AddElement
  <1>10. Cardinality(Used(u)') = Cardinality(Used(u)) + n
    BY <1>7, <1>8
  <1> QED
    BY <1>9, <1>10 DEF u

(* A posting to the account of the hold k leaves the other accounts alone.    *)
LEMMA OneAccount ==
  ASSUME BooksOK, SumInv, NEW k \in Keys, \A j \in Keys \ {k} : hold'[j] = hold[j],
         \A u \in Users \ {Owner(k)} : reserved'[u] = reserved[u] /\ used'[u] = used[u],
         LET u == Owner(k)
         IN  /\ IsFiniteSet(Open(u)') /\ reserved'[u] = Cardinality(Reserved(u)')
             /\ IsFiniteSet(Settled(u)') /\ used'[u] = Cardinality(Used(u)')
  PROVE  SumInv'
  <1> SUFFICES ASSUME NEW u \in Users
      PROVE  /\ IsFiniteSet(Open(u)') /\ reserved'[u] = Cardinality(Reserved(u)')
             /\ IsFiniteSet(Settled(u)') /\ used'[u] = Cardinality(Used(u)')
    BY DEF SumInv
  <1>1. CASE u = Owner(k)
    BY <1>1
  <1>2. CASE u # Owner(k)
    <2>1. \A j \in Keys : Owner(j) = u => hold'[j] = hold[j]
      BY <1>2
    <2>2. /\ Open(u)' = Open(u) /\ Reserved(u)' = Reserved(u)
          /\ Settled(u)' = Settled(u) /\ Used(u)' = Used(u)
      BY <2>1, SumsStay
    <2> QED
      BY <1>2, <2>2 DEF SumInv
  <1> QED
    BY <1>1, <1>2

LEMMA SameSums ==
  ASSUME SumInv, UNCHANGED <<hold, reserved, used>>
  PROVE  SumInv'
  <1>1. \A u \in Users : /\ Open(u)' = Open(u) /\ Reserved(u)' = Reserved(u)
                         /\ Settled(u)' = Settled(u) /\ Used(u)' = Used(u)
    BY SumsStay
  <1> QED
    BY <1>1 DEF SumInv

LEMMA TakeHoldSums ==
  ASSUME BooksOK, SumInv, NEW r \in Requests, TakeHold(r)
  PROVE  SumInv'
  <1> DEFINE k == KeyOf(r)
             q == Owner(k)
             n == Micro(Estimated[r])
  <1>1. k \in Keys /\ q = UserOf[r] /\ q \in Users /\ n \in Nat
    BY QuotaAssumption, MicroNat, KeyIsKey
  <1>2. hold[k].status = "none" /\ hold'[k].status = "held" /\ hold'[k].amount = n
        /\ \A j \in Keys \ {k} : hold'[j] = hold[j]
    BY <1>1 DEF TakeHold, BooksOK
  <1>3. reserved' = [reserved EXCEPT ![q] = @ + n] /\ used' = used
    BY <1>1 DEF TakeHold, Add
  <1> HIDE DEF k, n
  <1>4. /\ IsFiniteSet(Open(q)') /\ Cardinality(Reserved(q)') = Cardinality(Reserved(q)) + n
        /\ Settled(q)' = Settled(q) /\ Used(q)' = Used(q)
    BY <1>1, <1>2, OpenGrows
  <1> HIDE DEF q
  <1>5. reserved'[q] = Cardinality(Reserved(q)') /\ IsFiniteSet(Settled(q)')
        /\ used'[q] = Cardinality(Used(q)')
    BY <1>1, <1>3, <1>4 DEF SumInv, BooksOK
  <1>6. \A u \in Users \ {q} : reserved'[u] = reserved[u] /\ used'[u] = used[u]
    BY <1>3 DEF BooksOK
  <1> QED
    BY <1>1, <1>2, <1>4, <1>5, <1>6, OneAccount DEF q

LEMMA ChargeSums ==
  ASSUME BooksOK, SumInv, NEW k \in Keys, hold[k].status = "held", NEW cost \in Nat,
         Charge(k, cost)
  PROVE  SumInv'
  <1> DEFINE q == Owner(k)
             n == hold[k].amount
  <1>1. q \in Users /\ hold[k] \in HoldRow
    BY OwnerIsUser, HeldIsRow
  <1>2. hold'[k] = [hold[k] EXCEPT !.status = "settled", !.settled = cost]
        /\ \A j \in Keys \ {k} : hold'[j] = hold[j]
    BY ChargeKeepsBooks
  <1>3. hold'[k].status = "settled" /\ hold'[k].settled = cost /\ n \in Nat
    BY <1>1, <1>2 DEF HoldRow
  <1>4. reserved' = [reserved EXCEPT ![q] = @ + (-n)] /\ used' = [used EXCEPT ![q] = @ + cost]
    BY DEF Charge, Add
  <1>5. IsFiniteSet(Open(q)') /\ Cardinality(Reserved(q)') = Cardinality(Reserved(q)) - n
    BY <1>2, <1>3, OpenShrinks
  <1>6. IsFiniteSet(Settled(q)') /\ Cardinality(Used(q)') = Cardinality(Used(q)) + cost
    BY <1>2, <1>3, SettledGrows
  <1> HIDE DEF q, n
  <1>7. reserved'[q] = Cardinality(Reserved(q)') /\ used'[q] = Cardinality(Used(q)')
    BY <1>1, <1>3, <1>4, <1>5, <1>6 DEF SumInv, BooksOK
  <1>8. \A u \in Users \ {q} : reserved'[u] = reserved[u] /\ used'[u] = used[u]
    BY <1>4 DEF BooksOK
  <1> QED
    BY <1>2, <1>5, <1>6, <1>7, <1>8, OneAccount DEF q

LEMMA GiveBackSums ==
  ASSUME BooksOK, SumInv, NEW k \in Keys, NEW end \in {"released", "expired"}, GiveBack(k, end)
  PROVE  SumInv'
  <1> DEFINE q == Owner(k)
             n == hold[k].amount
  <1>1. q \in Users /\ hold[k] \in HoldRow /\ hold[k].status = "held"
    BY OwnerIsUser, HeldIsRow DEF GiveBack
  <1>2. hold'[k] = [hold[k] EXCEPT !.status = end] /\ \A j \in Keys \ {k} : hold'[j] = hold[j]
    BY GiveBackKeepsBooks
  <1>3. hold'[k].status = end /\ n \in Nat
    BY <1>1, <1>2 DEF HoldRow
  <1>4. reserved' = [reserved EXCEPT ![q] = @ + (-n)] /\ used' = used
    BY DEF GiveBack, Add
  <1>5. IsFiniteSet(Open(q)') /\ Cardinality(Reserved(q)') = Cardinality(Reserved(q)) - n
    BY <1>1, <1>2, <1>3, OpenShrinks
  <1>6. Settled(q)' = Settled(q) /\ Used(q)' = Used(q)
    <2>1. Settled(q)' = Settled(q) /\ k \notin Settled(q)
      BY <1>1, <1>2, <1>3 DEF Settled, Holds, KeysOf
    <2>2. \A j \in Settled(q) : j \in Keys \ {k}
      BY <2>1 DEF Settled, Holds, KeysOf
    <2>3. \A j \in Settled(q) :
            [i \in Keys |-> hold[i].settled]'[j] = [i \in Keys |-> hold[i].settled][j]
      BY <1>2, <2>2
    <2>4. Units([i \in Keys |-> hold[i].settled]', Settled(q))
            = Units([i \in Keys |-> hold[i].settled], Settled(q))
      BY <2>3, SameUnits
    <2> QED
      BY <2>1, <2>4 DEF Used
  <1> HIDE DEF q, n
  <1>7. reserved'[q] = Cardinality(Reserved(q)') /\ IsFiniteSet(Settled(q)')
        /\ used'[q] = Cardinality(Used(q)')
    BY <1>1, <1>3, <1>4, <1>5, <1>6 DEF SumInv, BooksOK
  <1>8. \A u \in Users \ {q} : reserved'[u] = reserved[u] /\ used'[u] = used[u]
    BY <1>4 DEF BooksOK
  <1> QED
    BY <1>2, <1>5, <1>7, <1>8, OneAccount DEF q

LEMMA SumStarts == Init => SumInv
  <1> SUFFICES ASSUME Init, NEW u \in Users
      PROVE  /\ IsFiniteSet(Open(u)) /\ reserved[u] = Cardinality(Reserved(u))
             /\ IsFiniteSet(Settled(u)) /\ used[u] = Cardinality(Used(u))
    BY DEF SumInv
  <1>1. Open(u) = {} /\ Settled(u) = {}
    BY DEF Init, Open, Settled, Holds, KeysOf, NoHold
  <1>2. Reserved(u) = {} /\ Used(u) = {}
    BY <1>1 DEF Reserved, Used, Units
  <1> QED
    BY <1>1, <1>2, FS_EmptySet DEF Init

LEMMA SumStep == QuotaInv /\ SumInv /\ [Next]_vars => SumInv'
  <1> SUFFICES ASSUME QuotaInv, SumInv, [Next]_vars PROVE SumInv'
    OBVIOUS
  <1>1. BooksOK /\ HandlersOK
    BY QuotaInvParts
  <1>2. ASSUME UNCHANGED <<account, hold>> PROVE SumInv'
    BY <1>2, SameSums DEF account
  <1>3. ASSUME NEW r \in Requests, Reserve(r) PROVE SumInv'
    BY <1>1, <1>3, TakeHoldSums DEF Reserve
  <1>4. ASSUME NEW r \in Requests, SettleHeld(r) PROVE SumInv'
    <2>1. KeyOf(r) \in Keys /\ bill[r] \in Nat
      BY <1>1, KeyIsKey DEF HandlersOK
    <2> QED
      BY <1>1, <1>4, <2>1, ChargeSums DEF SettleHeld
  <1>5. ASSUME NEW r \in Requests, Release(r) PROVE SumInv'
    BY <1>1, <1>2, <1>5, KeyIsKey, GiveBackSums DEF Release
  <1>6. ASSUME NEW k \in Keys, Expire(k) PROVE SumInv'
    BY <1>1, <1>6, GiveBackSums DEF Expire
  <1>7. ASSUME NEW a \in Adjustments, Adjust(a) PROVE SumInv'
    BY <1>7, SameSums DEF Adjust
  <1>8. ASSUME NEW r \in Requests,
               \/ ReserveShared(r) \/ ReserveRefused(r) \/ Answered(r) \/ Failed(r)
               \/ Record(r) \/ Note(r) \/ SettleAgain(r) \/ SettleConflict(r) \/ SettleFails(r)
        PROVE  SumInv'
    BY <1>2, <1>8 DEF ReserveShared, ReserveRefused, Answered, Failed, Record, Note,
                      SettleAgain, SettleConflict, SettleFails
  <1>9. ASSUME Crash \/ UNCHANGED vars PROVE SumInv'
    BY <1>2, <1>9 DEF Crash, vars
  <1> QED
    BY <1>3, <1>4, <1>5, <1>6, <1>7, <1>8, <1>9 DEF Next, Handle

(* For any users, requests and costs: the sums of the accounts, counted one   *)
(* micro credit at a time, are those of the holds.                            *)
THEOREM SumInvariant == Spec => []SumInv
  BY SumStarts, SumStep, QuotaInvariant, PTL DEF Spec

(* The sums of ReservedExact and UsedExact.                                   *)
LEMMA ReservedIsCounted ==
  ASSUME NEW u, IsFiniteSet(Open(u)), \A k \in Open(u) : hold[k].amount \in Nat
  PROVE  MapThenSumSet(LAMBDA k : hold[k].amount, Open(u)) = Cardinality(Reserved(u))
  <1> DEFINE S == Open(u)
             w == [k \in Keys |-> hold[k].amount]
             iter[s \in SUBSET S] == IF s = {} THEN 0
               ELSE hold[CHOOSE x \in s : TRUE].amount + iter[s \ {CHOOSE x \in s : TRUE}]
  <1>1. MapThenSumSet(LAMBDA k : hold[k].amount, S) = iter[S]
    BY DEF MapThenSumSet, MapThenFoldSet
  <1>2. \A x \in S : x \in Keys /\ w[x] = hold[x].amount /\ w[x] \in Nat
    BY DEF Open, Holds, KeysOf
  <1>3. \A s \in SUBSET S : s # {} => (CHOOSE x \in s : TRUE) \in S
    OBVIOUS
  <1>4. IsFiniteSet(S)
    OBVIOUS
  <1> HIDE DEF S, w
  <1>5. PICK g : IsSum(g, S, w)
    <2>1. \A x \in S : w[x] \in Nat
      BY <1>2
    <2> QED
      BY <1>4, <2>1, SumExists
  <1>6. g = [s \in SUBSET S |-> IF s = {} THEN 0
                    ELSE hold[CHOOSE x \in s : TRUE].amount + g[s \ {CHOOSE x \in s : TRUE}]]
    BY <1>2, <1>3, <1>5 DEF IsSum
  <1>7. iter = [s \in SUBSET S |-> IF s = {} THEN 0
                  ELSE hold[CHOOSE x \in s : TRUE].amount + iter[s \ {CHOOSE x \in s : TRUE}]]
    BY <1>6
  <1> HIDE DEF iter
  <1>8. IsSum(iter, S, w)
    BY <1>2, <1>3, <1>7 DEF IsSum
  <1>9. iter[S] = Cardinality(Units(w, S))
    BY <1>2, <1>4, <1>8, SumIsCount
  <1> QED
    BY <1>1, <1>9 DEF Reserved, S, w

LEMMA UsedIsCounted ==
  ASSUME NEW u, IsFiniteSet(Settled(u)), \A k \in Settled(u) : hold[k].settled \in Nat
  PROVE  MapThenSumSet(LAMBDA k : hold[k].settled, Settled(u)) = Cardinality(Used(u))
  <1> DEFINE S == Settled(u)
             w == [k \in Keys |-> hold[k].settled]
             iter[s \in SUBSET S] == IF s = {} THEN 0
               ELSE hold[CHOOSE x \in s : TRUE].settled + iter[s \ {CHOOSE x \in s : TRUE}]
  <1>1. MapThenSumSet(LAMBDA k : hold[k].settled, S) = iter[S]
    BY DEF MapThenSumSet, MapThenFoldSet
  <1>2. \A x \in S : x \in Keys /\ w[x] = hold[x].settled /\ w[x] \in Nat
    BY DEF Settled, Holds, KeysOf
  <1>3. \A s \in SUBSET S : s # {} => (CHOOSE x \in s : TRUE) \in S
    OBVIOUS
  <1>4. IsFiniteSet(S)
    OBVIOUS
  <1> HIDE DEF S, w
  <1>5. PICK g : IsSum(g, S, w)
    <2>1. \A x \in S : w[x] \in Nat
      BY <1>2
    <2> QED
      BY <1>4, <2>1, SumExists
  <1>6. g = [s \in SUBSET S |-> IF s = {} THEN 0
                    ELSE hold[CHOOSE x \in s : TRUE].settled + g[s \ {CHOOSE x \in s : TRUE}]]
    BY <1>2, <1>3, <1>5 DEF IsSum
  <1>7. iter = [s \in SUBSET S |-> IF s = {} THEN 0
                  ELSE hold[CHOOSE x \in s : TRUE].settled + iter[s \ {CHOOSE x \in s : TRUE}]]
    BY <1>6
  <1> HIDE DEF iter
  <1>8. IsSum(iter, S, w)
    BY <1>2, <1>3, <1>7 DEF IsSum
  <1>9. iter[S] = Cardinality(Units(w, S))
    BY <1>2, <1>4, <1>8, SumIsCount
  <1> QED
    BY <1>1, <1>9 DEF Used, S, w

(* Whatever the requests, the reaper and the administrator do at the same     *)
(* time: the reserved amount is what the open holds add up to, the used       *)
(* amount what the settled ones were charged, the ledger the balance          *)
(* (gateway/store/quota.go).                                                  *)
THEOREM QuotaBooksExact == Spec => []BooksExact
  <1>1. ASSUME QuotaInv, SumInv, NEW u \in Users
        PROVE  /\ reserved[u] = MapThenSumSet(LAMBDA k : hold[k].amount, Holds(u, "held"))
               /\ used[u] = MapThenSumSet(LAMBDA k : hold[k].settled, Holds(u, "settled"))
    <2>1. BooksOK
      BY <1>1, QuotaInvParts
    <2>2. (\A k \in Open(u) : hold[k].amount \in Nat)
          /\ \A k \in Settled(u) : hold[k].settled \in Nat
      BY <2>1, HoldsRow DEF Open, Settled
    <2>3. /\ IsFiniteSet(Open(u)) /\ reserved[u] = Cardinality(Reserved(u))
          /\ IsFiniteSet(Settled(u)) /\ used[u] = Cardinality(Used(u))
      BY <1>1 DEF SumInv
    <2>4. MapThenSumSet(LAMBDA k : hold[k].amount, Open(u)) = Cardinality(Reserved(u))
      BY <2>2, <2>3, ReservedIsCounted
    <2>5. MapThenSumSet(LAMBDA k : hold[k].settled, Settled(u)) = Cardinality(Used(u))
      BY <2>2, <2>3, UsedIsCounted
    <2>6. reserved[u] = MapThenSumSet(LAMBDA k : hold[k].amount, Open(u))
          /\ used[u] = MapThenSumSet(LAMBDA k : hold[k].settled, Settled(u))
      BY <2>3, <2>4, <2>5
    <2> QED
      BY <2>6 DEF Open, Settled
  <1>2. QuotaInv /\ SumInv => BooksExact
    BY <1>1 DEF BooksExact, ReservedExact, UsedExact, QuotaInv
  <1> QED
    BY <1>2, QuotaInvariant, SumInvariant, PTL

(* The reserved amount covers every open hold, so what SettleTx, ReleaseTx    *)
(* and ExpireReservations check before they take a hold off it never fails    *)
(* ("reserved=%d < held=%d", gateway/store/quota.go).                         *)
CoveredHolds == \A k \in Keys : hold[k].status = "held" => reserved[Owner(k)] >= hold[k].amount
THEOREM HoldsAreCovered == Spec => []CoveredHolds
  <1>1. ASSUME QuotaInv, SumInv, NEW k \in Keys, hold[k].status = "held"
        PROVE  reserved[Owner(k)] >= hold[k].amount
    <2> DEFINE u == Owner(k)
               w == [j \in Keys |-> hold[j].amount]
               S == Open(u)
    <2>1. BooksOK /\ u \in Users /\ k \in S
      BY <1>1, QuotaInvParts, OwnerIsUser DEF Open, Holds, KeysOf
    <2>2. w[k] = hold[k].amount /\ w[k] \in Nat
      BY <2>1, HoldsRow DEF Open
    <2>3. Reserved(u) = Units(w, S) /\ reserved[u] = Cardinality(Reserved(u))
      BY <1>1, <2>1 DEF Reserved, SumInv
    <2>4. IsFiniteSet(Reserved(u))
      BY <1>1, <2>1, SumsAreFinite
    <2> HIDE DEF u, w, S
    <2>5. /\ Cardinality(Units(w, S \ {k})) \in Nat
          /\ Cardinality(Units(w, S)) = w[k] + Cardinality(Units(w, S \ {k}))
      <3>1. IsFiniteSet(Units(w, S))
        BY <2>3, <2>4
      <3>2. k \in S /\ w[k] \in Nat
        BY <2>1, <2>2
      <3> QED
        BY <3>1, <3>2, UnitsOfLess
    <2>6. reserved[u] >= hold[k].amount
      BY <2>2, <2>3, <2>5
    <2> QED
      BY <2>6 DEF u
  <1>2. QuotaInv /\ SumInv => CoveredHolds
    BY <1>1 DEF CoveredHolds
  <1> QED
    BY <1>2, QuotaInvariant, SumInvariant, PTL

-----------------------------------------------------------------------------
(******************************************************************************)
(* The upstreams.                                                             *)
(******************************************************************************)
BreakerRow == [state : {"closed", "open", "half-open"}, fails : Nat, oks : Nat,
               slots : Nat, cooled : BOOLEAN]
HandlerRow == [pc : {"idle", "route", "choose", "wait", "first", "pump"},
               kind : Chat \cup Messages, next : Nat \ {0}, cands : Seq(Nat \ {0})]
OutItem == [kind : Results \cup {"text", "open"}, of : Nat \X Nat]
ClientRow == [pc : {"none", "admit", "mode", "call", "release", "judge", "over"},
              on : Nat, try : Nat \ {0}, probe : BOOLEAN, result : Results \cup {"open"},
              texts : Nat, out : Seq(OutItem)]
ServedRow == [final : BOOLEAN, whole : BOOLEAN, sources : SUBSET (Nat \X Nat),
              paid : {"held", "settled", "released", "cut short"}]
CtxStates == {"live", "left", "late", "done"}

UpstreamTypes ==
    /\ breaker \in [Providers -> BreakerRow]
    /\ handler \in [Lanes -> HandlerRow]
    /\ client \in [Lanes -> ClientRow]
    /\ served \in [Lanes -> ServedRow]
    /\ ctx \in [Lanes -> CtxStates]
    /\ probers \in [Providers -> SUBSET Lanes]

(* A lane: its handler h, client c, history s and context x.                  *)
Asked(r, h, c) ==
    /\ \A i \in 1 .. Len(h.cands) : h.cands[i] \in 1 .. Len(Order[r])
    /\ c.pc # "none" => c.on \in 1 .. Len(Order[r])

Paced(h, c, x) ==
    /\ h.pc # "idle" => x # "done"
    /\ h.pc = "idle" => c.pc # "over"
    /\ h.pc \in {"route", "choose"} => c.pc = "none"
    /\ h.pc \in {"wait", "first", "pump"} => c.pc # "none"
    /\ h.pc = "wait" => h.kind \notin Streams
    /\ h.pc \in {"first", "pump"} => h.kind \in Streams

(* What the history says of the attempt, and of the answer.                   *)
Judged(h, c, s) ==
    /\ h.pc \in {"route", "choose"} => ~s.final /\ ~s.whole
    /\ c.pc \in {"admit", "mode", "call"} => ~s.final
    /\ c.pc \in {"release", "judge", "over"} /\ s.final => ~Counts(c.result)
    /\ h.pc \in {"wait", "first", "pump"} =>
         (s.whole <=> c.pc \in {"release", "judge", "over"} /\ c.result = "ok")

(* What is on its way to the client, or has come there, is of this attempt.   *)
OfAttempt(h, c, s) ==
    /\ h.pc \notin {"first", "pump"} => c.out = <<>>
    /\ h.pc # "pump" => s.sources = {}
    /\ \A i \in 1 .. Len(c.out) :
         IF c.out[i].kind = "text" THEN c.out[i].of = <<c.on, c.try>> /\ c.texts # 0
         ELSE c.pc = "over" /\ c.out[i].kind = c.result
    /\ s.sources \subseteq {<<c.on, c.try>>}
    /\ c.texts = 0 => s.sources = {}

RowOK(r, h, c, s, x) ==
    Asked(r, h, c) /\ Paced(h, c, x) /\ Judged(h, c, s) /\ OfAttempt(h, c, s)
LaneOK(r) == RowOK(r, handler[r], client[r], served[r], ctx[r])

(* A half-open breaker has let in nobody but whom it still waits for.         *)
Probing(r, p) ==
    /\ client[r].pc \in {"mode", "call", "release"} /\ On(r) = p
    /\ client[r].pc # "mode" => client[r].probe
BreakerOK(p) ==
    /\ IsFiniteSet(probers[p])
    /\ breaker[p].state # "half-open" => probers[p] = {}
    /\ breaker[p].state = "half-open" => breaker[p].slots <= Cardinality(probers[p])
    /\ \A r \in probers[p] : Probing(r, p)

UpstreamInv ==
    /\ UpstreamTypes
    /\ \A r \in Lanes : LaneOK(r)
    /\ \A p \in Providers : BreakerOK(p)

-----------------------------------------------------------------------------
LEMMA FreshRows ==
    /\ NoHandler \in HandlerRow /\ NoClient \in ClientRow /\ Nothing \in ServedRow
    /\ Closed \in BreakerRow
  BY DEF NoHandler, HandlerRow, NoClient, ClientRow, Nothing, ServedRow, Closed, BreakerRow,
         Chat, Messages, Results, OutItem

LEMMA UpstreamStarts == UpstreamInit => UpstreamInv
  <1> SUFFICES ASSUME UpstreamInit PROVE UpstreamInv
    OBVIOUS
  <1>1. UpstreamTypes
    BY FreshRows DEF UpstreamInit, UpstreamTypes, CtxStates
  <1>2. ASSUME NEW r \in Lanes PROVE LaneOK(r)
    BY DEF UpstreamInit, LaneOK, RowOK, Asked, Paced, Judged, OfAttempt, NoHandler, NoClient,
           Nothing
  <1>3. ASSUME NEW p \in Providers PROVE BreakerOK(p)
    BY FS_EmptySet DEF UpstreamInit, BreakerOK, Closed
  <1> QED
    BY <1>1, <1>2, <1>3 DEF UpstreamInv

(* A step of one lane, with what it may do to the hold.                       *)
Turns(r, h, c, s, x) ==
    /\ handler' = [handler EXCEPT ![r] = h] /\ client' = [client EXCEPT ![r] = c]
    /\ served' = [served EXCEPT ![r] = s] /\ ctx' = [ctx EXCEPT ![r] = x]
    /\ h \in HandlerRow /\ c \in ClientRow /\ s \in ServedRow /\ x \in CtxStates
    /\ RowOK(r, h, c, s, x)
PaidRight(s, t, x) == s.paid = "held" =>
    /\ t.paid = "settled" => s.whole
    /\ t.paid = "released" /\ s.whole => x # "done"
LaneStep(r) == \E h, c, s, x :
    Turns(r, h, c, s, x) /\ PaidRight(served[r], s, x)

LEMMA LaneSteps ==
  ASSUME UpstreamInv, NEW r \in Lanes, LaneStep(r)
  PROVE  /\ handler' \in [Lanes -> HandlerRow] /\ client' \in [Lanes -> ClientRow]
         /\ served' \in [Lanes -> ServedRow] /\ ctx' \in [Lanes -> CtxStates]
         /\ \A q \in Lanes : LaneOK(q)'
         /\ \A q \in Lanes : PaidRight(served[q], served'[q], ctx'[q])
  <1>1. PICK h, c, s, x : Turns(r, h, c, s, x) /\ PaidRight(served[r], s, x)
    BY DEF LaneStep
  <1>2. /\ handler \in [Lanes -> HandlerRow] /\ client \in [Lanes -> ClientRow]
        /\ served \in [Lanes -> ServedRow] /\ ctx \in [Lanes -> CtxStates]
    BY DEF UpstreamInv, UpstreamTypes
  <1>3. handler'[r] = h /\ client'[r] = c /\ served'[r] = s /\ ctx'[r] = x
    BY <1>1, <1>2 DEF Turns
  <1>4. ASSUME NEW q \in Lanes, q # r
        PROVE  /\ handler'[q] = handler[q] /\ client'[q] = client[q]
               /\ served'[q] = served[q] /\ ctx'[q] = ctx[q]
    BY <1>1, <1>2, <1>4 DEF Turns
  <1>5. /\ handler' \in [Lanes -> HandlerRow] /\ client' \in [Lanes -> ClientRow]
        /\ served' \in [Lanes -> ServedRow] /\ ctx' \in [Lanes -> CtxStates]
    BY <1>1, <1>2 DEF Turns
  <1>6. ASSUME NEW q \in Lanes PROVE LaneOK(q)'
    <2>1. CASE q = r
      BY <1>1, <1>3, <2>1 DEF LaneOK, Turns
    <2>2. CASE q # r
      BY <1>4, <2>2 DEF LaneOK, UpstreamInv
    <2> QED
      BY <2>1, <2>2
  <1>7. ASSUME NEW q \in Lanes PROVE PaidRight(served[q], served'[q], ctx'[q])
    <2>1. CASE q = r
      BY <1>1, <1>3, <2>1
    <2>2. CASE q # r
      BY <1>4, <2>2 DEF PaidRight
    <2> QED
      BY <2>1, <2>2
  <1> QED
    BY <1>5, <1>6, <1>7

-----------------------------------------------------------------------------
LEMMA CandidateTyped ==
  ASSUME UpstreamInv, NEW r \in Lanes
  PROVE  /\ Order[r] \in Seq(Providers)
         /\ client[r].pc # "none" => On(r) \in Providers
         /\ \A i \in 1 .. Len(Order[r]) : Order[r][i] \in Providers
  <1>1. Order[r] \in Seq(Providers)
    BY UpstreamAssumption
  <1>2. \A i \in 1 .. Len(Order[r]) : Order[r][i] \in Providers
    BY <1>1, ElementOfSeq
  <1>3. client[r].pc # "none" => client[r].on \in 1 .. Len(Order[r])
    BY DEF UpstreamInv, LaneOK, RowOK, Asked
  <1> QED
    BY <1>1, <1>2, <1>3 DEF On

(* A breaker that is looked at half-opens with no place taken.                *)
LEMMA Looked ==
  ASSUME NEW b \in BreakerRow
  PROVE  /\ Look(b) \in BreakerRow
         /\ b.state = "half-open" => Look(b) = b
         /\ b.state # "half-open" /\ Look(b).state = "half-open" => Look(b).slots = 0
         /\ Look(b).state # b.state => Look(b).state = "half-open"
  BY DEF Look, HalfOpened, BreakerRow

LEMMA LessIsLess == \A b \in BreakerRow : Less(b) \in Nat /\ Less(b) <= b.slots
  BY DEF Less, BreakerRow

(* A verdict takes no place and half-opens nothing.                           *)
LEMMA VerdictOf ==
  ASSUME NEW b \in BreakerRow, NEW result
  PROVE  /\ Recorded(b, result) \in BreakerRow
         /\ Recorded(b, result).state = "half-open" =>
              b.state = "half-open" /\ Recorded(b, result).slots <= b.slots
  <1> DEFINE A == AfterSuccess(b)
             fewer == IF b.state = "half-open" THEN Less(b) ELSE b.slots
             count == IF b.fails < FailureThreshold THEN b.fails + 1 ELSE b.fails
             more == [b EXCEPT !.oks = 0, !.fails = count, !.slots = fewer]
             F == AfterFailure(b)
  <1>1. /\ Less(b) \in Nat /\ Less(b) <= b.slots
        /\ b.slots \in Nat /\ b.oks \in Nat /\ b.fails \in Nat
    BY LessIsLess DEF BreakerRow
  <1>2. /\ A \in BreakerRow
        /\ A.state = "half-open" => b.state = "half-open" /\ A.slots <= b.slots
    <2>1. CASE b.state = "half-open" /\ b.oks + 1 >= SuccessThreshold
      <3>1. A = Closed
        BY <2>1 DEF AfterSuccess
      <3> QED
        BY <3>1, FreshRows DEF Closed
    <2>2. CASE b.state = "half-open" /\ ~(b.oks + 1 >= SuccessThreshold)
      <3> DEFINE n == b.oks + 1
                 l == Less(b)
      <3>1. A = [b EXCEPT !.fails = 0, !.slots = l, !.oks = n]
        BY <2>2 DEF AfterSuccess
      <3>2. n \in Nat /\ l \in Nat /\ l <= b.slots
        BY <1>1
      <3> HIDE DEF n, l, A
      <3> QED
        BY <2>2, <3>1, <3>2 DEF BreakerRow
    <2>3. CASE b.state # "half-open"
      <3> DEFINE n == IF b.state = "closed" THEN 0 ELSE b.oks
      <3>1. A = [b EXCEPT !.fails = 0, !.oks = n]
        BY <2>3 DEF AfterSuccess
      <3>2. n \in Nat
        BY <1>1
      <3> HIDE DEF n, A
      <3> QED
        BY <2>3, <3>1, <3>2 DEF BreakerRow
    <2> QED
      BY <2>1, <2>2, <2>3
  <1>3. /\ more \in BreakerRow /\ more.state = b.state
        /\ b.state = "half-open" => more.slots <= b.slots
    <2>1. count \in Nat /\ fewer \in Nat /\ (b.state = "half-open" => fewer <= b.slots)
      BY <1>1
    <2> HIDE DEF count, fewer
    <2> QED
      BY <2>1 DEF BreakerRow
  <1>4. F = IF b.state = "open" THEN [b EXCEPT !.cooled = FALSE]
            ELSE IF more.fails = FailureThreshold THEN Opened(more) ELSE more
    BY DEF AfterFailure
  <1> HIDE DEF more
  <1>5. Opened(more) \in BreakerRow /\ Opened(more).state = "open"
    BY <1>3 DEF Opened, BreakerRow
  <1>6. /\ F \in BreakerRow
        /\ F.state = "half-open" => b.state = "half-open" /\ F.slots <= b.slots
    BY <1>3, <1>4, <1>5 DEF BreakerRow
  <1> HIDE DEF A, F
  <1>7. b.slots <= b.slots
    BY DEF BreakerRow
  <1> QED
    BY <1>2, <1>6, <1>7 DEF Recorded, A, F

(* What is left to show when one breaker b of provider p has moved and its    *)
(* probers are S.                                                             *)
LEMMA BreakersKept ==
  ASSUME UpstreamInv, NEW p \in Providers, NEW b \in BreakerRow, NEW S \in SUBSET Lanes,
         breaker' = [breaker EXCEPT ![p] = b], probers' = [probers EXCEPT ![p] = S],
         IsFiniteSet(S), b.state # "half-open" => S = {},
         b.state = "half-open" => b.slots <= Cardinality(S),
         \A o \in Providers : \A q \in probers'[o] : Probing(q, o)'
  PROVE  /\ breaker' \in [Providers -> BreakerRow]
         /\ probers' \in [Providers -> SUBSET Lanes]
         /\ \A o \in Providers : BreakerOK(o)'
  <1>1. breaker \in [Providers -> BreakerRow] /\ probers \in [Providers -> SUBSET Lanes]
    BY DEF UpstreamInv, UpstreamTypes
  <1>2. breaker'[p] = b /\ probers'[p] = S
    BY <1>1
  <1>3. \A o \in Providers : o # p => breaker'[o] = breaker[o] /\ probers'[o] = probers[o]
    BY <1>1
  <1>4. ASSUME NEW o \in Providers PROVE BreakerOK(o)'
    <2>1. \A q \in probers'[o] : Probing(q, o)'
      OBVIOUS
    <2>2. CASE o = p
      BY <1>2, <2>1, <2>2 DEF BreakerOK
    <2>3. CASE o # p
      <3>1. BreakerOK(o)
        BY DEF UpstreamInv
      <3> QED
        BY <1>3, <2>1, <2>3, <3>1 DEF BreakerOK
    <2> QED
      BY <2>2, <2>3
  <1> QED
    BY <1>1, <1>4

LEMMA BreakersStay ==
  ASSUME UpstreamInv, UNCHANGED <<breaker, probers>>,
         \A o \in Providers : \A q \in probers[o] : Probing(q, o)'
  PROVE  /\ breaker' \in [Providers -> BreakerRow]
         /\ probers' \in [Providers -> SUBSET Lanes]
         /\ \A o \in Providers : BreakerOK(o)'
  <1>1. breaker \in [Providers -> BreakerRow] /\ probers \in [Providers -> SUBSET Lanes]
    BY DEF UpstreamInv, UpstreamTypes
  <1>2. \A o \in Providers : BreakerOK(o)
    BY DEF UpstreamInv
  <1> QED
    BY <1>1, <1>2 DEF BreakerOK

LEMMA BreakerRead ==
  ASSUME UpstreamInv, NEW p \in Providers, NEW b \in BreakerRow, Read(p, b),
         b.state = "half-open" =>
             b.slots <= IF breaker[p].state = "half-open" THEN breaker[p].slots ELSE 0,
         \A o \in Providers : \A q \in probers'[o] : Probing(q, o)'
  PROVE  /\ breaker' \in [Providers -> BreakerRow]
         /\ probers' \in [Providers -> SUBSET Lanes]
         /\ \A o \in Providers : BreakerOK(o)'
  <1> DEFINE S == IF b.state # breaker[p].state THEN {} ELSE probers[p]
  <1>1. /\ breaker \in [Providers -> BreakerRow] /\ probers \in [Providers -> SUBSET Lanes]
        /\ BreakerOK(p)
    BY DEF UpstreamInv, UpstreamTypes
  <1>2. /\ breaker' = [breaker EXCEPT ![p] = b] /\ probers' = [probers EXCEPT ![p] = S]
    BY DEF Read
  <1>3. S \in SUBSET Lanes /\ IsFiniteSet(S)
    BY <1>1, FS_EmptySet DEF BreakerOK
  <1>4. b.state # "half-open" => S = {}
    BY <1>1 DEF BreakerOK
  <1>5. b.state = "half-open" => b.slots <= Cardinality(S)
    <2> SUFFICES ASSUME b.state = "half-open" PROVE b.slots <= Cardinality(S)
      OBVIOUS
    <2>1. Cardinality({}) = 0
      BY FS_EmptySet
    <2>2. b.slots \in Nat /\ breaker[p].slots \in Nat /\ Cardinality(probers[p]) \in Nat
      BY <1>1, FS_CardinalityType DEF BreakerRow, BreakerOK
    <2>3. CASE breaker[p].state = "half-open"
      BY <1>1, <2>2, <2>3 DEF BreakerOK
    <2>4. CASE breaker[p].state # "half-open"
      BY <2>1, <2>2, <2>4
    <2> QED
      BY <2>3, <2>4
  <1> HIDE DEF S
  <1> QED
    BY <1>2, <1>3, <1>4, <1>5, BreakersKept

PaidStep == \A q \in Lanes : PaidRight(served[q], served'[q], ctx'[q])

LEMMA UpstreamKept ==
  ASSUME UpstreamInv, NEW r \in Lanes, LaneStep(r),
         breaker' \in [Providers -> BreakerRow], probers' \in [Providers -> SUBSET Lanes],
         \A o \in Providers : BreakerOK(o)'
  PROVE  UpstreamInv' /\ PaidStep
  BY LaneSteps DEF UpstreamInv, UpstreamTypes, PaidStep

LEMMA RowsTyped ==
  ASSUME UpstreamInv, NEW r \in Lanes
  PROVE  /\ handler[r] \in HandlerRow /\ client[r] \in ClientRow /\ served[r] \in ServedRow
         /\ ctx[r] \in CtxStates /\ LaneOK(r)
  BY DEF UpstreamInv, UpstreamTypes

(* A step of the attempt only.                                                *)
LEMMA AttemptSteps ==
  ASSUME UpstreamInv, NEW r \in Lanes, NEW c \in ClientRow, UNCHANGED <<handler, ctx, served>>,
         client' = [client EXCEPT ![r] = c],
         RowOK(r, handler[r], c, served[r], ctx[r])
  PROVE  LaneStep(r)
  <1>1. Turns(r, handler[r], c, served[r], ctx[r])
    BY RowsTyped DEF Turns, UpstreamInv, UpstreamTypes
  <1>2. PaidRight(served[r], served[r], ctx[r])
    BY DEF PaidRight
  <1> QED
    BY <1>1, <1>2 DEF LaneStep

(* Who is let in elsewhere is not disturbed by a step of lane r.              *)
LEMMA OthersProbe ==
  ASSUME UpstreamInv, NEW r \in Lanes, NEW c \in ClientRow, client' = [client EXCEPT ![r] = c],
         NEW o \in Providers, NEW q \in probers[o], q # r
  PROVE  Probing(q, o)'
  <1>1. q \in Lanes /\ Probing(q, o) /\ client \in [Lanes -> ClientRow]
    BY DEF UpstreamInv, UpstreamTypes, BreakerOK
  <1>2. client'[q] = client[q]
    BY <1>1
  <1> QED
    BY <1>1, <1>2 DEF Probing, On

LEMMA AdmitKeeps ==
  ASSUME UpstreamInv, NEW r \in Lanes, Admit(r)
  PROVE  UpstreamInv' /\ PaidStep
  <1> DEFINE p == On(r)
             b == Look(breaker[p])
             full == \/ b.state = "open"
                     \/ b.state = "half-open" /\ b.slots >= HalfOpenMaxRequests
             e == [b EXCEPT !.slots = b.slots + 1]
             a == IF b.state = "half-open" THEN e ELSE b
             S == (IF b.state # breaker[p].state THEN {} ELSE probers[p])
                  \cup (IF b.state = "half-open" THEN {r} ELSE {})
             c1 == [client[r] EXCEPT !.pc = "judge", !.result = "open"]
             c2 == [client[r] EXCEPT !.pc = "mode"]
  <1>1. /\ client[r].pc = "admit" /\ UNCHANGED <<handler, ctx, served>>
        /\ client[r] \in ClientRow /\ LaneOK(r) /\ client \in [Lanes -> ClientRow]
    BY RowsTyped DEF Admit, UpstreamInv, UpstreamTypes
  <1>2. p \in Providers /\ breaker[p] \in BreakerRow
    BY <1>1, CandidateTyped DEF UpstreamInv, UpstreamTypes
  <1>3. /\ b \in BreakerRow
        /\ breaker[p].state = "half-open" => b = breaker[p]
        /\ breaker[p].state # "half-open" /\ b.state = "half-open" => b.slots = 0
        /\ b.state # breaker[p].state => b.state = "half-open"
    BY <1>2, Looked
  <1>4. \A o \in Providers : r \notin probers[o]
    BY <1>1 DEF UpstreamInv, BreakerOK, Probing
  <1>5. CASE full
    <2>1. client' = [client EXCEPT ![r] = c1] /\ Read(p, b)
      BY <1>1, <1>5 DEF Admit
    <2>2. c1 \in ClientRow
      BY <1>1 DEF ClientRow
    <2>3. RowOK(r, handler[r], c1, served[r], ctx[r])
      BY <1>1 DEF LaneOK, RowOK, Asked, Paced, Judged, OfAttempt, ClientRow, Counts
    <2>4. LaneStep(r)
      BY <1>1, <2>1, <2>2, <2>3, AttemptSteps
    <2>5. ASSUME NEW o \in Providers, NEW q \in probers'[o] PROVE Probing(q, o)'
      <3>1. q \in probers[o]
        BY <2>1 DEF Read, UpstreamInv, UpstreamTypes
      <3> QED
        BY <1>4, <2>1, <2>2, <3>1, OthersProbe
    <2>6. b.state = "half-open" =>
            b.slots <= IF breaker[p].state = "half-open" THEN breaker[p].slots ELSE 0
      BY <1>2, <1>3 DEF BreakerRow
    <2> QED
      BY <1>2, <1>3, <2>1, <2>4, <2>5, <2>6, BreakerRead, UpstreamKept
  <1>6. CASE ~full
    <2>1. /\ client' = [client EXCEPT ![r] = c2]
          /\ breaker' = [breaker EXCEPT ![p] = a] /\ probers' = [probers EXCEPT ![p] = S]
      BY <1>1, <1>6 DEF Admit, At
    <2>2. c2 \in ClientRow
      BY <1>1 DEF ClientRow
    <2>3. RowOK(r, handler[r], c2, served[r], ctx[r])
      BY <1>1 DEF LaneOK, RowOK, Asked, Paced, Judged, OfAttempt, ClientRow, Counts
    <2>4. LaneStep(r)
      BY <1>1, <2>1, <2>2, <2>3, AttemptSteps
    <2>5. a \in BreakerRow /\ a.state = b.state /\ (b.state = "half-open" => a.slots = b.slots + 1)
      BY <1>3 DEF BreakerRow
    <2>6. probers[p] \in SUBSET Lanes /\ BreakerOK(p)
      BY <1>2 DEF UpstreamInv, UpstreamTypes
    <2>7. S \in SUBSET Lanes /\ IsFiniteSet(S)
      <3>1. IsFiniteSet(IF b.state # breaker[p].state THEN {} ELSE probers[p])
        BY <2>6, FS_EmptySet DEF BreakerOK
      <3>2. IsFiniteSet(IF b.state = "half-open" THEN {r} ELSE {})
        BY FS_EmptySet, FS_Singleton
      <3> QED
        BY <2>6, <3>1, <3>2, FS_Union
    <2>8. a.state # "half-open" => S = {}
      BY <1>3, <2>5, <2>6 DEF BreakerOK
    <2>9. a.state = "half-open" => a.slots <= Cardinality(S)
      <3> SUFFICES ASSUME a.state = "half-open" PROVE a.slots <= Cardinality(S)
        OBVIOUS
      <3>1. b.state = "half-open" /\ a.slots = b.slots + 1
        BY <2>5
      <3>2. CASE breaker[p].state = "half-open"
        <4>1. S = probers[p] \cup {r} /\ r \notin probers[p] /\ b = breaker[p]
          BY <1>2, <1>3, <1>4, <3>1, <3>2
        <4>2. Cardinality(S) = Cardinality(probers[p]) + 1
          BY <2>6, <4>1, FS_AddElement DEF BreakerOK
        <4>3. Cardinality(probers[p]) \in Nat /\ b.slots \in Nat /\ b.slots <= Cardinality(probers[p])
          BY <1>3, <2>6, <3>2, <4>1, FS_CardinalityType DEF BreakerOK, BreakerRow
        <4> QED
          BY <3>1, <4>2, <4>3
      <3>3. CASE breaker[p].state # "half-open"
        <4>1. S = {r} /\ b.slots = 0
          BY <1>3, <3>1, <3>3
        <4>2. Cardinality(S) = 1
          BY <4>1, FS_Singleton
        <4> QED
          BY <3>1, <4>1, <4>2
      <3> QED
        BY <3>2, <3>3
    <2>10. ASSUME NEW o \in Providers, NEW q \in probers'[o] PROVE Probing(q, o)'
      <3>1. q \in probers[o] \/ (o = p /\ q = r)
        BY <2>1 DEF UpstreamInv, UpstreamTypes
      <3>2. CASE q \in probers[o]
        BY <1>4, <2>1, <2>2, <3>2, OthersProbe
      <3>3. CASE o = p /\ q = r
        <4>1. client'[r] = c2 /\ c2.pc = "mode" /\ c2.on = client[r].on
          BY <1>1, <2>1 DEF ClientRow
        <4> QED
          BY <3>3, <4>1 DEF Probing, On
      <3> QED
        BY <3>1, <3>2, <3>3
    <2> HIDE DEF a, S, c2
    <2> QED
      BY <1>2, <2>1, <2>4, <2>5, <2>7, <2>8, <2>9, <2>10, BreakersKept, UpstreamKept
  <1> QED
    BY <1>5, <1>6

(* A step that leaves the breakers alone, and the attempt where a breaker     *)
(* waits for it.                                                              *)
LEMMA StaysProbing ==
  ASSUME UpstreamInv, NEW r \in Lanes, NEW c \in ClientRow, client' = [client EXCEPT ![r] = c],
         UNCHANGED <<breaker, probers>>,
         client[r].pc \in {"mode", "call", "release"} =>
           c.pc = client[r].pc /\ c.on = client[r].on /\ c.probe = client[r].probe
  PROVE  /\ breaker' \in [Providers -> BreakerRow]
         /\ probers' \in [Providers -> SUBSET Lanes]
         /\ \A o \in Providers : BreakerOK(o)'
  <1>1. ASSUME NEW o \in Providers, NEW q \in probers[o] PROVE Probing(q, o)'
    <2>1. CASE q = r
      <3>1. Probing(r, o) /\ client'[r] = c
        BY <2>1 DEF UpstreamInv, UpstreamTypes, BreakerOK
      <3> QED
        BY <2>1, <3>1 DEF Probing, On
    <2>2. CASE q # r
      BY <2>2, OthersProbe
    <2> QED
      BY <2>1, <2>2
  <1> QED
    BY <1>1, BreakersStay

LEMMA ModeKeeps ==
  ASSUME UpstreamInv, NEW r \in Lanes, Mode(r)
  PROVE  UpstreamInv' /\ PaidStep
  <1> DEFINE p == On(r)
             b == Look(breaker[p])
             yes == b.state = "half-open"
             c == [client[r] EXCEPT !.pc = "call", !.probe = yes]
  <1>1. /\ client[r].pc = "mode" /\ UNCHANGED <<handler, ctx, served>>
        /\ client' = [client EXCEPT ![r] = c] /\ Read(p, b)
        /\ client[r] \in ClientRow /\ LaneOK(r) /\ client \in [Lanes -> ClientRow]
    BY RowsTyped DEF Mode, UpstreamInv, UpstreamTypes
  <1>2. p \in Providers /\ breaker[p] \in BreakerRow /\ BreakerOK(p)
    BY <1>1, CandidateTyped DEF UpstreamInv, UpstreamTypes
  <1>3. /\ b \in BreakerRow
        /\ breaker[p].state = "half-open" => b = breaker[p]
        /\ breaker[p].state # "half-open" /\ b.state = "half-open" => b.slots = 0
    BY <1>2, Looked
  <1>4. c \in ClientRow /\ c.pc = "call" /\ c.on = client[r].on /\ c.probe = yes
    BY <1>1 DEF ClientRow
  <1>5. RowOK(r, handler[r], c, served[r], ctx[r])
    BY <1>1 DEF LaneOK, RowOK, Asked, Paced, Judged, OfAttempt, ClientRow
  <1> HIDE DEF c
  <1>6. LaneStep(r)
    BY <1>1, <1>4, <1>5, AttemptSteps
  <1>7. ASSUME NEW o \in Providers, NEW q \in probers'[o] PROVE Probing(q, o)'
    <2>1. q \in probers[o]
      BY <1>1 DEF Read, UpstreamInv, UpstreamTypes
    <2>2. CASE q # r
      BY <1>1, <1>4, <2>1, <2>2, OthersProbe
    <2>3. CASE q = r
      <3>1. Probing(r, o)
        BY <2>1, <2>3 DEF UpstreamInv, BreakerOK
      <3>2. o = p
        BY <3>1 DEF Probing
      <3>3. yes
        BY <1>2, <1>3, <2>1, <3>2 DEF BreakerOK
      <3>4. client'[r] = c
        BY <1>1
      <3> QED
        BY <1>4, <2>3, <3>2, <3>3, <3>4 DEF Probing, On
    <2> QED
      BY <2>2, <2>3
  <1>8. yes => b.slots <= IF breaker[p].state = "half-open" THEN breaker[p].slots ELSE 0
    BY <1>2, <1>3 DEF BreakerRow
  <1> QED
    BY <1>1, <1>2, <1>3, <1>6, <1>7, <1>8, BreakerRead, UpstreamKept

LEMMA TextKeeps ==
  ASSUME UpstreamInv, NEW r \in Lanes, Text(r)
  PROVE  UpstreamInv' /\ PaidStep
  <1> DEFINE text == [kind |-> "text", of |-> Name(r)]
             n == client[r].texts + 1
  <1>1. /\ client[r].pc = "call" /\ handler[r].pc \in {"first", "pump"}
        /\ UNCHANGED <<breaker, handler, ctx, probers, served>>
        /\ client[r] \in ClientRow /\ LaneOK(r) /\ client \in [Lanes -> ClientRow]
    BY RowsTyped DEF Text, UpstreamInv, UpstreamTypes
  <1>2. PICK out \in {Append(client[r].out, text), client[r].out} :
          client' = [client EXCEPT ![r].texts = @ + 1, ![r].out = out]
    BY DEF Text
  <1> DEFINE c == [client[r] EXCEPT !.texts = n, !.out = out]
  <1>3. client' = [client EXCEPT ![r] = c]
    BY <1>1, <1>2
  <1>4. text \in OutItem /\ n \in Nat /\ n # 0
    BY <1>1 DEF OutItem, ClientRow, Name
  <1>5. out \in Seq(OutItem)
    <2>1. client[r].out \in Seq(OutItem)
      BY <1>1 DEF ClientRow
    <2> HIDE DEF text
    <2>2. Append(client[r].out, text) \in Seq(OutItem)
      BY <1>4, <2>1
    <2> QED
      BY <1>2, <2>1, <2>2
  <1>6. /\ c \in ClientRow /\ c.pc = "call" /\ c.on = client[r].on /\ c.try = client[r].try
        /\ c.probe = client[r].probe /\ c.result = client[r].result /\ c.texts = n /\ c.out = out
    <2> HIDE DEF n
    <2> QED
      BY <1>1, <1>4, <1>5 DEF ClientRow
  <1> HIDE DEF c, n
  <1>7. OfAttempt(handler[r], client[r], served[r])
    BY <1>1 DEF LaneOK, RowOK
  <1>8. ASSUME NEW i \in 1 .. Len(out)
        PROVE  out[i].kind = "text" /\ out[i].of = <<client[r].on, client[r].try>>
    <2>0. client[r].out \in Seq(OutItem) /\ Len(client[r].out) \in Nat
      BY <1>1 DEF ClientRow
    <2>1. CASE i \in 1 .. Len(client[r].out)
      <3>1. out[i] = client[r].out[i]
        BY <1>2, <1>4, <2>0, <2>1
      <3> QED
        BY <1>1, <1>7, <2>1, <3>1 DEF OfAttempt
    <2>2. CASE i \notin 1 .. Len(client[r].out)
      <3>1. out[i] = text
        BY <1>2, <1>4, <2>0, <2>2
      <3> QED
        BY <3>1 DEF Name
    <2> QED
      BY <2>1, <2>2
  <1>9. OfAttempt(handler[r], c, served[r])
    BY <1>1, <1>4, <1>6, <1>7, <1>8 DEF OfAttempt
  <1>10. RowOK(r, handler[r], c, served[r], ctx[r])
    BY <1>1, <1>6, <1>9 DEF LaneOK, RowOK, Asked, Paced, Judged
  <1>11. LaneStep(r)
    BY <1>1, <1>3, <1>6, <1>10, AttemptSteps
  <1> QED
    BY <1>1, <1>3, <1>6, <1>11, StaysProbing, UpstreamKept

LEMMA VerdictKeeps ==
  ASSUME UpstreamInv, NEW r \in Lanes, Verdict(r)
  PROVE  UpstreamInv' /\ PaidStep
  <1>1. /\ client[r].pc = "call" /\ UNCHANGED <<handler, ctx>>
        /\ client[r] \in ClientRow /\ LaneOK(r) /\ client \in [Lanes -> ClientRow]
        /\ served[r] \in ServedRow /\ served \in [Lanes -> ServedRow]
        /\ handler \in [Lanes -> HandlerRow] /\ ctx \in [Lanes -> CtxStates]
        /\ handler[r] \in HandlerRow /\ ctx[r] \in CtxStates
    BY RowsTyped DEF Verdict, UpstreamInv, UpstreamTypes
  <1> DEFINE goal == IF client[r].probe THEN "release" ELSE "judge"
  <1>2. PICK result \in Outcomes(r) :
          /\ client' = [client EXCEPT ![r].result = result, ![r].pc = goal]
          /\ served' = [served EXCEPT ![r].final = @ \/ ~Counts(result),
                                      ![r].whole = @ \/ result = "ok"]
          /\ Read(On(r), Recorded(breaker[On(r)], result))
    BY DEF Verdict
  <1>3. result \in Results
    BY DEF Outcomes, Results
  <1> DEFINE final == served[r].final \/ ~Counts(result)
             whole == served[r].whole \/ result = "ok"
             c == [client[r] EXCEPT !.result = result, !.pc = goal]
             s == [served[r] EXCEPT !.final = final, !.whole = whole]
             p == On(r)
             b == Recorded(breaker[p], result)
  <1>4. client' = [client EXCEPT ![r] = c] /\ served' = [served EXCEPT ![r] = s]
    BY <1>1, <1>2
  <1>5. /\ c \in ClientRow /\ c.pc = goal /\ c.on = client[r].on /\ c.try = client[r].try
        /\ c.probe = client[r].probe /\ c.result = result /\ c.texts = client[r].texts
        /\ c.out = client[r].out
    BY <1>1, <1>3 DEF ClientRow
  <1>6. /\ s \in ServedRow /\ s.final = final /\ s.whole = whole
        /\ s.sources = served[r].sources /\ s.paid = served[r].paid
    <2>1. final \in BOOLEAN /\ whole \in BOOLEAN
      BY <1>1 DEF ServedRow
    <2> HIDE DEF final, whole
    <2> QED
      BY <1>1, <2>1 DEF ServedRow
  <1>7. ~served[r].final /\ (handler[r].pc \in {"wait", "first", "pump"} => ~served[r].whole)
    BY <1>1 DEF LaneOK, RowOK, Judged
  <1> HIDE DEF c, s
  <1>8. RowOK(r, handler[r], c, s, ctx[r])
    <2>1. Asked(r, handler[r], c) /\ Paced(handler[r], c, ctx[r])
      BY <1>1, <1>5 DEF LaneOK, RowOK, Asked, Paced
    <2>2. Judged(handler[r], c, s)
      BY <1>1, <1>5, <1>6, <1>7 DEF LaneOK, RowOK, Judged, Paced, Counts
    <2>3. OfAttempt(handler[r], c, s)
      BY <1>1, <1>5, <1>6 DEF LaneOK, RowOK, OfAttempt
    <2> QED
      BY <2>1, <2>2, <2>3 DEF RowOK
  <1>9. LaneStep(r)
    <2>1. Turns(r, handler[r], c, s, ctx[r])
      BY <1>1, <1>4, <1>5, <1>6, <1>8 DEF Turns
    <2>2. PaidRight(served[r], s, ctx[r])
      BY <1>6 DEF PaidRight
    <2> QED
      BY <2>1, <2>2 DEF LaneStep
  <1>10. p \in Providers /\ breaker[p] \in BreakerRow
    BY <1>1, CandidateTyped DEF UpstreamInv, UpstreamTypes
  <1>11. /\ b \in BreakerRow /\ Read(p, b)
         /\ b.state = "half-open" => breaker[p].state = "half-open" /\ b.slots <= breaker[p].slots
    BY <1>2, <1>10, VerdictOf
  <1>12. ASSUME NEW o \in Providers, NEW q \in probers'[o] PROVE Probing(q, o)'
    <2>1. q \in probers[o]
      BY <1>11 DEF Read, UpstreamInv, UpstreamTypes
    <2>2. CASE q # r
      BY <1>4, <1>5, <2>1, <2>2, OthersProbe
    <2>3. CASE q = r
      <3>1. Probing(r, o)
        BY <2>1, <2>3 DEF UpstreamInv, BreakerOK
      <3>2. client'[r] = c
        BY <1>1, <1>4
      <3> QED
        BY <1>1, <1>5, <2>3, <3>1, <3>2 DEF Probing, On
    <2> QED
      BY <2>2, <2>3
  <1>13. b.state = "half-open" =>
           b.slots <= IF breaker[p].state = "half-open" THEN breaker[p].slots ELSE 0
    BY <1>11
  <1> HIDE DEF b, p
  <1> QED
    BY <1>9, <1>10, <1>11, <1>12, <1>13, BreakerRead, UpstreamKept

LEMMA FreePlaceKeeps ==
  ASSUME UpstreamInv, NEW r \in Lanes, FreePlace(r)
  PROVE  UpstreamInv' /\ PaidStep
  <1> DEFINE p == On(r)
             d == breaker[p]
             b == Released(d)
             S == probers[p] \ {r}
             c == [client[r] EXCEPT !.pc = "judge", !.probe = FALSE]
  <1>1. /\ client[r].pc = "release" /\ UNCHANGED <<handler, ctx, served>>
        /\ client' = [client EXCEPT ![r] = c]
        /\ breaker' = [breaker EXCEPT ![p] = b] /\ probers' = [probers EXCEPT ![p] = S]
        /\ client[r] \in ClientRow /\ LaneOK(r) /\ client \in [Lanes -> ClientRow]
    BY RowsTyped DEF FreePlace, UpstreamInv, UpstreamTypes
  <1>2. p \in Providers /\ d \in BreakerRow /\ BreakerOK(p) /\ probers[p] \in SUBSET Lanes
    BY <1>1, CandidateTyped DEF UpstreamInv, UpstreamTypes
  <1>3. /\ b \in BreakerRow /\ b.state = d.state
        /\ b.state = "half-open" => b.slots = Less(d)
    BY <1>2, LessIsLess DEF Released, BreakerRow
  <1>4. c \in ClientRow
    BY <1>1 DEF ClientRow
  <1>5. RowOK(r, handler[r], c, served[r], ctx[r])
    BY <1>1 DEF LaneOK, RowOK, Asked, Paced, Judged, OfAttempt, ClientRow
  <1>6. LaneStep(r)
    BY <1>1, <1>4, <1>5, AttemptSteps
  <1>7. S \in SUBSET Lanes /\ IsFiniteSet(S)
    BY <1>2, FS_Subset DEF BreakerOK
  <1>8. b.state # "half-open" => S = {}
    BY <1>2, <1>3 DEF BreakerOK
  <1>9. b.state = "half-open" => b.slots <= Cardinality(S)
    <2> SUFFICES ASSUME b.state = "half-open" PROVE b.slots <= Cardinality(S)
      OBVIOUS
    <2>1. /\ d.slots \in Nat /\ d.slots <= Cardinality(probers[p])
          /\ Cardinality(probers[p]) \in Nat /\ Cardinality(S) \in Nat
      BY <1>2, <1>3, <1>7, FS_CardinalityType DEF BreakerOK, BreakerRow
    <2>2. b.slots = IF d.slots > 0 THEN d.slots - 1 ELSE 0
      BY <1>3 DEF Less
    <2>3. CASE r \in probers[p]
      <3>1. Cardinality(S) = Cardinality(probers[p]) - 1
        BY <1>2, <2>3, FS_RemoveElement DEF BreakerOK
      <3> QED
        BY <2>1, <2>2, <3>1
    <2>4. CASE r \notin probers[p]
      <3>1. S = probers[p]
        BY <2>4
      <3> QED
        BY <2>1, <2>2, <3>1
    <2> QED
      BY <2>3, <2>4
  <1>10. ASSUME NEW o \in Providers, NEW q \in probers'[o] PROVE Probing(q, o)'
    <2>1. q \in probers[o] /\ (o = p => q # r)
      BY <1>1 DEF UpstreamInv, UpstreamTypes
    <2>2. q # r
      <3>1. q = r => Probing(r, o)
        BY <2>1 DEF UpstreamInv, BreakerOK
      <3> QED
        BY <2>1, <3>1 DEF Probing
    <2> QED
      BY <1>1, <1>4, <2>1, <2>2, OthersProbe
  <1> HIDE DEF b, S, c, d, p
  <1> QED
    BY <1>1, <1>2, <1>3, <1>6, <1>7, <1>8, <1>9, <1>10, BreakersKept, UpstreamKept

(* The loop of provider.Client ends with this result.                         *)
LEMMA OverKeeps ==
  ASSUME UpstreamInv, NEW r \in Lanes, NEW result \in Results \cup {"open"}, Over(r, result),
         client[r].pc = "judge", UNCHANGED <<breaker, handler, ctx, probers, served>>,
         served[r].final => ~Counts(result),
         handler[r].pc \in {"wait", "first", "pump"} => (served[r].whole <=> result = "ok")
  PROVE  UpstreamInv' /\ PaidStep
  <1>1. /\ client[r] \in ClientRow /\ LaneOK(r) /\ client \in [Lanes -> ClientRow]
        /\ served[r] \in ServedRow /\ handler[r] \in HandlerRow
    BY RowsTyped DEF UpstreamInv, UpstreamTypes
  <1> DEFINE told == [kind |-> result, of |-> Name(r)]
  <1>2. PICK tell \in BOOLEAN : client' = [client EXCEPT ![r] =
          IF handler[r].pc = "idle" THEN NoClient
          ELSE [client[r] EXCEPT !.pc = "over", !.result = result, !.out =
                  IF tell /\ Kind(r) \in Streams THEN Append(client[r].out, told)
                  ELSE client[r].out]]
    BY DEF Over
  <1> DEFINE out == IF tell /\ Kind(r) \in Streams THEN Append(client[r].out, told)
                    ELSE client[r].out
             c == [client[r] EXCEPT !.pc = "over", !.result = result, !.out = out]
  <1>3. CASE handler[r].pc = "idle"
    <2>1. client' = [client EXCEPT ![r] = NoClient] /\ NoClient \in ClientRow
      BY <1>2, <1>3, FreshRows
    <2>2. RowOK(r, handler[r], NoClient, served[r], ctx[r])
      BY <1>1, <1>3 DEF NoClient, LaneOK, RowOK, Asked, Paced, Judged, OfAttempt
    <2>3. LaneStep(r)
      BY <2>1, <2>2, AttemptSteps
    <2> QED
      BY <2>1, <2>3, StaysProbing, UpstreamKept
  <1>4. CASE handler[r].pc # "idle"
    <2>1. client' = [client EXCEPT ![r] = c]
      BY <1>2, <1>4
    <2>2. told \in OutItem /\ told.kind = result
      BY <1>1 DEF OutItem, Name, ClientRow
    <2>3. client[r].out \in Seq(OutItem) /\ Len(client[r].out) \in Nat
      BY <1>1 DEF ClientRow
    <2>4. out \in Seq(OutItem)
      <3> HIDE DEF told
      <3>1. Append(client[r].out, told) \in Seq(OutItem)
        BY <2>2, <2>3
      <3> QED
        BY <2>3, <3>1
    <2>5. /\ c \in ClientRow /\ c.pc = "over" /\ c.result = result /\ c.out = out
          /\ c.on = client[r].on /\ c.try = client[r].try /\ c.texts = client[r].texts
      <3> HIDE DEF out
      <3> QED
        BY <1>1, <2>4 DEF ClientRow
    <2>6. OfAttempt(handler[r], client[r], served[r]) /\ Paced(handler[r], client[r], ctx[r])
      BY <1>1 DEF LaneOK, RowOK
    <2>7. ASSUME NEW i \in 1 .. Len(out)
          PROVE  IF out[i].kind = "text"
                 THEN out[i].of = <<client[r].on, client[r].try>> /\ client[r].texts # 0
                 ELSE out[i].kind = result
      <3>1. CASE i \in 1 .. Len(client[r].out)
        <4>1. out[i] = client[r].out[i]
          BY <2>2, <2>3, <3>1
        <4> QED
          BY <2>6, <3>1, <4>1 DEF OfAttempt
      <3>2. CASE i \notin 1 .. Len(client[r].out)
        <4>1. out[i] = told
          BY <2>2, <2>3, <3>2
        <4>2. result # "text"
          BY DEF Results
        <4> QED
          BY <2>2, <4>1, <4>2
      <3> QED
        BY <3>1, <3>2
    <2>8. handler[r].pc \notin {"first", "pump"} => out = <<>>
      BY <1>1, <1>4, <2>6 DEF OfAttempt, Paced, Kind, HandlerRow
    <2> HIDE DEF c, out
    <2>9. OfAttempt(handler[r], c, served[r])
      BY <2>5, <2>6, <2>7, <2>8 DEF OfAttempt
    <2>10. RowOK(r, handler[r], c, served[r], ctx[r])
      BY <1>1, <1>4, <2>5, <2>9 DEF LaneOK, RowOK, Asked, Paced, Judged
    <2>11. LaneStep(r)
      BY <2>1, <2>5, <2>10, AttemptSteps
    <2> QED
      BY <2>1, <2>5, <2>11, StaysProbing, UpstreamKept
  <1> QED
    BY <1>3, <1>4

LEMMA JudgeKeeps ==
  ASSUME UpstreamInv, NEW r \in Lanes, Judge(r)
  PROVE  UpstreamInv' /\ PaidStep
  <1>1. /\ client[r].pc = "judge" /\ UNCHANGED <<breaker, handler, ctx, probers, served>>
        /\ client[r] \in ClientRow /\ LaneOK(r) /\ client \in [Lanes -> ClientRow]
    BY RowsTyped DEF Judge, UpstreamInv, UpstreamTypes
  <1>2. client[r].result \in Results \cup {"open"}
    BY <1>1 DEF ClientRow
  <1>3. /\ served[r].final => ~Counts(client[r].result)
        /\ handler[r].pc \in {"wait", "first", "pump"} =>
             (served[r].whole <=> client[r].result = "ok")
    BY <1>1 DEF LaneOK, RowOK, Judged
  <1>4. MayRetry(r) => Counts(client[r].result)
    BY DEF MayRetry, MayReconnect, Counts
  <1>5. CASE MayRetry(r) /\ client' = [client EXCEPT ![r].pc = "admit", ![r].try = @ + 1,
                                              ![r].result = "ok", ![r].texts = 0]
    <2> DEFINE n == client[r].try + 1
               c == [client[r] EXCEPT !.pc = "admit", !.try = n, !.result = "ok", !.texts = 0]
    <2>1. client' = [client EXCEPT ![r] = c]
      BY <1>1, <1>5
    <2>2. n \in Nat \ {0}
      BY <1>1 DEF ClientRow
    <2>3. /\ c \in ClientRow /\ c.pc = "admit" /\ c.on = client[r].on /\ c.out = client[r].out
          /\ c.texts = 0 /\ c.result = "ok"
      <3> HIDE DEF n
      <3> QED
        BY <1>1, <2>2 DEF ClientRow, Results
    <2> HIDE DEF c
    <2>4. ~served[r].final /\ (handler[r].pc \in {"wait", "first", "pump"} => ~served[r].whole)
      BY <1>3, <1>4, <1>5 DEF Counts
    <2>5. client[r].out = <<>> /\ served[r].sources = {}
      <3>1. OfAttempt(handler[r], client[r], served[r]) /\ Paced(handler[r], client[r], ctx[r])
        BY <1>1 DEF LaneOK, RowOK
      <3>2. CASE handler[r].pc \in {"first", "pump"}
        <4>1. client[r].texts = 0
          BY <1>5, <3>1, <3>2 DEF MayRetry, MayReconnect, Kind, Paced
        <4>2. \A i \in 1 .. Len(client[r].out) : FALSE
          BY <1>1, <3>1, <4>1 DEF OfAttempt
        <4>3. client[r].out \in Seq(OutItem)
          BY <1>1 DEF ClientRow
        <4>4. Len(client[r].out) = 0
          BY <4>2, <4>3
        <4> QED
          BY <3>1, <4>1, <4>3, <4>4 DEF OfAttempt
      <3>3. CASE handler[r].pc \notin {"first", "pump"}
        BY <3>1, <3>3 DEF OfAttempt
      <3> QED
        BY <3>2, <3>3
    <2>6. OfAttempt(handler[r], c, served[r])
      BY <2>3, <2>5 DEF OfAttempt
    <2>7. RowOK(r, handler[r], c, served[r], ctx[r])
      BY <1>1, <2>3, <2>4, <2>6 DEF LaneOK, RowOK, Asked, Paced, Judged
    <2>8. LaneStep(r)
      BY <1>1, <2>1, <2>3, <2>7, AttemptSteps
    <2> QED
      BY <1>1, <2>1, <2>3, <2>8, StaysProbing, UpstreamKept
  <1>6. CASE Over(r, client[r].result)
    BY <1>1, <1>2, <1>3, <1>6, OverKeeps
  <1>7. ASSUME NEW end \in {"cancelled", "reset"}, MayRetry(r), Over(r, end)
        PROVE  UpstreamInv' /\ PaidStep
    <2>1. ~served[r].final /\ (handler[r].pc \in {"wait", "first", "pump"} => ~served[r].whole)
      BY <1>3, <1>4, <1>7 DEF Counts
    <2>2. end \in Results \cup {"open"} /\ end # "ok"
      BY DEF Results
    <2> QED
      BY <1>1, <1>7, <2>1, <2>2, OverKeeps
  <1>8. CASE MayRetry(r) /\ Over(r, IF Cancelled(r) THEN "cancelled" ELSE "reset")
    <2>1. CASE Cancelled(r)
      BY <1>7, <1>8, <2>1
    <2>2. CASE ~Cancelled(r)
      BY <1>7, <1>8, <2>2
    <2> QED
      BY <2>1, <2>2
  <1> QED
    BY <1>5, <1>6, <1>8 DEF Judge

-----------------------------------------------------------------------------
(* The handler's side.                                                        *)

LEMMA NoneBelowOne == \A i \in 1 .. 0 : FALSE
  OBVIOUS

LEMMA ReturnKeeps ==
  ASSUME UpstreamInv, NEW r \in Lanes, handler[r].pc # "idle",
         NEW paid \in {"settled", "released", "cut short"}, Return(r, paid),
         NEW x \in CtxStates, ctx' = [ctx EXCEPT ![r] = x], UNCHANGED <<breaker, probers>>,
         paid = "settled" => served[r].whole,
         paid = "released" /\ served[r].whole => x # "done"
  PROVE  UpstreamInv' /\ PaidStep
  <1>1. /\ client[r] \in ClientRow /\ LaneOK(r) /\ client \in [Lanes -> ClientRow]
        /\ served[r] \in ServedRow /\ handler[r] \in HandlerRow
    BY RowsTyped DEF UpstreamInv, UpstreamTypes
  <1> DEFINE over == client[r].pc = "over"
             h == IF client[r].pc \in {"none", "over"} THEN NoHandler
                  ELSE [NoHandler EXCEPT !.kind = Kind(r)]
             c == IF over THEN NoClient
                  ELSE [client[r] EXCEPT !.out = <<>>, !.try = 1, !.texts = 0]
             fin == client[r].pc \notin {"none", "over"} /\ served[r].final
             s == [Nothing EXCEPT !.paid = paid, !.final = fin]
  <1>2. /\ handler' = [handler EXCEPT ![r] = h] /\ client' = [client EXCEPT ![r] = c]
        /\ served' = [served EXCEPT ![r] = s]
    BY <1>1 DEF Return
  <1>3. h \in HandlerRow /\ h.pc = "idle" /\ Len(h.cands) = 0
    <2>1. h.cands = <<>>
      BY <1>1, FreshRows DEF HandlerRow, NoHandler
    <2>2. h \in HandlerRow /\ h.pc = "idle"
      BY <1>1, FreshRows DEF HandlerRow, NoHandler, Kind
    <2>3. Len(h.cands) = Len(<<>>)
      BY <2>1
    <2> HIDE DEF h
    <2> QED
      BY <2>2, <2>3
  <1>4. c \in ClientRow /\ c.out = <<>> /\ Len(c.out) = 0 /\ c.pc # "over"
    <2>1. c.out = <<>> /\ c \in ClientRow /\ c.pc # "over"
      BY <1>1, FreshRows DEF ClientRow, NoClient
    <2>3. Len(c.out) = Len(<<>>)
      BY <2>1
    <2> HIDE DEF c
    <2> QED
      BY <2>1, <2>3
  <1>5. ~over => /\ c.pc = client[r].pc /\ c.on = client[r].on /\ c.probe = client[r].probe
                 /\ c.result = client[r].result
    BY <1>1 DEF ClientRow
  <1>6. over => c.pc = "none"
    BY DEF NoClient
  <1>7. s \in ServedRow /\ s.final = fin /\ s.paid = paid /\ s.sources = {} /\ ~s.whole
    BY <1>1 DEF ServedRow, Nothing
  <1> HIDE DEF h, c, s
  <1>8. RowOK(r, h, c, s, x)
    <2>1. Asked(r, h, c)
      <3>1. \A i \in 1 .. Len(h.cands) : FALSE
        <4>1. \A i \in 1 .. 0 : FALSE
          BY NoneBelowOne, Zenon
        <4>2. Len(h.cands) = 0
          BY <1>3
        <4> QED
          BY <4>1, <4>2, Zenon
      <3>2. c.pc # "none" => c.on \in 1 .. Len(Order[r])
        <4>1. Asked(r, handler[r], client[r])
          BY <1>1 DEF LaneOK, RowOK
        <4> QED
          BY <1>5, <1>6, <4>1 DEF Asked
      <3> QED
        BY <3>1, <3>2 DEF Asked
    <2>2. Paced(h, c, x)
      BY <1>3, <1>4 DEF Paced
    <2>3. Judged(h, c, s)
      BY <1>1, <1>3, <1>5, <1>6, <1>7 DEF LaneOK, RowOK, Judged
    <2>4. OfAttempt(h, c, s)
      <3>1. \A i \in 1 .. Len(c.out) : FALSE
        <4>1. \A i \in 1 .. 0 : FALSE
          BY NoneBelowOne, Zenon
        <4>2. Len(c.out) = 0
          BY <1>4
        <4> QED
          BY <4>1, <4>2, Zenon
      <3> QED
        BY <1>3, <1>4, <1>7, <3>1 DEF OfAttempt
    <2> QED
      BY <2>1, <2>2, <2>3, <2>4 DEF RowOK
  <1>9. LaneStep(r)
    <2>1. Turns(r, h, c, s, x)
      BY <1>2, <1>3, <1>4, <1>7, <1>8 DEF Turns
    <2>2. PaidRight(served[r], s, x)
      BY <1>7 DEF PaidRight
    <2> QED
      BY <2>1, <2>2 DEF LaneStep
  <1> QED
    BY <1>2, <1>4, <1>5, <1>9, StaysProbing, UpstreamKept

LEMMA DoneKeeps ==
  ASSUME UpstreamInv, NEW r \in Lanes, handler[r].pc # "idle",
         NEW paid \in {"settled", "released", "cut short"}, Done(r, paid),
         UNCHANGED <<breaker, probers>>,
         paid = "settled" => served[r].whole,
         paid = "released" /\ served[r].whole => ctx[r] # "live"
  PROVE  UpstreamInv' /\ PaidStep
  <1> DEFINE x == IF ctx[r] = "live" THEN "done" ELSE ctx[r]
  <1>1. ctx[r] \in CtxStates /\ ctx[r] # "done"
    BY RowsTyped DEF LaneOK, RowOK, Paced
  <1>2. ctx' = [ctx EXCEPT ![r] = x] /\ x \in CtxStates
    BY <1>1 DEF Done, CtxStates
  <1>3. paid = "released" /\ served[r].whole => x # "done"
    BY <1>1
  <1> HIDE DEF x
  <1> QED
    BY <1>2, <1>3, ReturnKeeps DEF Done

LEMMA BeginKeeps ==
  ASSUME UpstreamInv, NEW r \in Lanes, NEW kind \in KindsOn[r], Begin(r, kind)
  PROVE  UpstreamInv' /\ PaidStep
  <1> DEFINE h == [NoHandler EXCEPT !.pc = "route", !.kind = kind]
  <1>1. /\ handler[r].pc = "idle" /\ client[r].pc = "none"
        /\ UNCHANGED <<breaker, client, probers>>
        /\ handler' = [handler EXCEPT ![r] = h] /\ ctx' = [ctx EXCEPT ![r] = "live"]
        /\ served' = [served EXCEPT ![r] = Nothing]
        /\ client[r] \in ClientRow /\ LaneOK(r) /\ client \in [Lanes -> ClientRow]
    BY RowsTyped DEF Begin, UpstreamInv, UpstreamTypes
  <1>2. kind \in Chat \cup Messages
    BY UpstreamAssumption
  <1>3. h \in HandlerRow /\ h.pc = "route" /\ h.cands = <<>> /\ "live" \in CtxStates
    <2>1. NoHandler.cands = <<>>
      BY DEF NoHandler
    <2> QED
      BY <1>2, <2>1, FreshRows DEF HandlerRow, CtxStates
  <1>4. client' = [client EXCEPT ![r] = client[r]]
    BY <1>1
  <1> HIDE DEF h
  <1>5. RowOK(r, h, client[r], Nothing, "live")
    BY <1>1, <1>3 DEF LaneOK, RowOK, Asked, Paced, Judged, OfAttempt, Nothing
  <1>6. LaneStep(r)
    <2>1. Turns(r, h, client[r], Nothing, "live")
      BY <1>1, <1>3, <1>4, <1>5, FreshRows DEF Turns
    <2>2. PaidRight(served[r], Nothing, "live")
      BY DEF PaidRight, Nothing
    <2> QED
      BY <2>1, <2>2 DEF LaneStep
  <1> QED
    BY <1>1, <1>4, <1>6, StaysProbing, UpstreamKept

(* A step of the handler that leaves the attempt alone.                       *)
LEMMA HandlerSteps ==
  ASSUME UpstreamInv, NEW r \in Lanes, NEW h \in HandlerRow, UNCHANGED <<client, ctx, served>>,
         handler' = [handler EXCEPT ![r] = h],
         RowOK(r, h, client[r], served[r], ctx[r])
  PROVE  LaneStep(r)
  <1>1. Turns(r, h, client[r], served[r], ctx[r])
    BY RowsTyped DEF Turns, UpstreamInv, UpstreamTypes
  <1>2. PaidRight(served[r], served[r], ctx[r])
    BY DEF PaidRight
  <1> QED
    BY <1>1, <1>2 DEF LaneStep

LEMMA PassKeeps ==
  ASSUME UpstreamInv, NEW r \in Lanes, NEW cands \in Seq(Nat \ {0}), Pass(r, cands),
         handler[r].pc = "route", UNCHANGED <<client, ctx, served>>,
         \A i \in 1 .. Len(cands) : cands[i] \in 1 .. Len(Order[r])
  PROVE  LaneStep(r)
  <1> DEFINE n == handler[r].next + 1
             h == [handler[r] EXCEPT !.next = n, !.cands = cands]
  <1>1. handler[r] \in HandlerRow /\ handler \in [Lanes -> HandlerRow] /\ LaneOK(r)
    BY RowsTyped DEF UpstreamInv, UpstreamTypes
  <1>2. handler' = [handler EXCEPT ![r] = h]
    BY <1>1 DEF Pass
  <1>3. n \in Nat \ {0}
    BY <1>1 DEF HandlerRow
  <1>4. h \in HandlerRow /\ h.pc = "route" /\ h.kind = handler[r].kind /\ h.cands = cands
    <2> HIDE DEF n
    <2> QED
      BY <1>1, <1>3 DEF HandlerRow
  <1> HIDE DEF h
  <1>5. RowOK(r, h, client[r], served[r], ctx[r])
    BY <1>1, <1>4 DEF LaneOK, RowOK, Asked, Paced, Judged, OfAttempt
  <1> QED
    BY <1>2, <1>4, <1>5, HandlerSteps

LEMMA RouteKeeps ==
  ASSUME UpstreamInv, NEW r \in Lanes, Route(r)
  PROVE  UpstreamInv' /\ PaidStep
  <1> DEFINE i == handler[r].next
             p == Order[r][i]
             b == Look(breaker[p])
             more == Append(handler[r].cands, i)
  <1>1. /\ handler[r].pc = "route" /\ UNCHANGED <<client, ctx, served>>
        /\ handler[r] \in HandlerRow /\ handler \in [Lanes -> HandlerRow] /\ LaneOK(r)
        /\ client \in [Lanes -> ClientRow] /\ Asked(r, handler[r], client[r])
    BY RowsTyped DEF Route, UpstreamInv, UpstreamTypes, LaneOK, RowOK
  <1>2. client' = [client EXCEPT ![r] = client[r]] /\ client[r] \in ClientRow
    BY <1>1
  <1>3. i \in Nat \ {0} /\ handler[r].cands \in Seq(Nat \ {0}) /\ Len(Order[r]) \in Nat
    BY <1>1, CandidateTyped DEF HandlerRow
  <1>4. CASE Goto(r, "choose") /\ UNCHANGED <<breaker, probers>>
    <2> DEFINE h == [handler[r] EXCEPT !.pc = "choose"]
    <2>1. handler' = [handler EXCEPT ![r] = h]
      BY <1>4 DEF Goto
    <2>2. /\ h \in HandlerRow /\ h.pc = "choose" /\ h.kind = handler[r].kind
          /\ h.cands = handler[r].cands
      BY <1>1 DEF HandlerRow
    <2> HIDE DEF h
    <2>3. RowOK(r, h, client[r], served[r], ctx[r])
      BY <1>1, <2>2 DEF LaneOK, RowOK, Asked, Paced, Judged, OfAttempt
    <2>4. LaneStep(r)
      BY <1>1, <2>1, <2>2, <2>3, HandlerSteps
    <2> QED
      BY <1>2, <1>4, <2>4, StaysProbing, UpstreamKept
  <1>5. Pass(r, handler[r].cands) => LaneStep(r)
    BY <1>1, <1>3, PassKeeps DEF Asked
  <1>6. i <= Len(Order[r]) /\ Pass(r, more) => LaneStep(r)
    <2> SUFFICES ASSUME i <= Len(Order[r]), Pass(r, more) PROVE LaneStep(r)
      OBVIOUS
    <2>1. more \in Seq(Nat \ {0}) /\ Len(more) = Len(handler[r].cands) + 1
      BY <1>3
    <2>2. ASSUME NEW j \in 1 .. Len(more) PROVE more[j] \in 1 .. Len(Order[r])
      <3>1. CASE j \in 1 .. Len(handler[r].cands)
        BY <1>1, <1>3, <3>1 DEF Asked
      <3>2. CASE j \notin 1 .. Len(handler[r].cands)
        BY <1>3, <2>1, <3>2
      <3> QED
        BY <3>1, <3>2
    <2> HIDE DEF more
    <2> QED
      BY <1>1, <2>1, <2>2, PassKeeps
  <1>7. CASE Pass(r, handler[r].cands) /\ UNCHANGED <<breaker, probers>>
    BY <1>2, <1>5, <1>7, StaysProbing, UpstreamKept
  <1>8. CASE i <= Len(Order[r]) /\ Read(p, b) /\ (Pass(r, handler[r].cands) \/ Pass(r, more))
    <2>1. LaneStep(r)
      BY <1>5, <1>6, <1>8
    <2>2. p \in Providers
      BY <1>3, <1>8, CandidateTyped
    <2>3. breaker[p] \in BreakerRow
      BY <2>2 DEF UpstreamInv, UpstreamTypes
    <2>4. /\ b \in BreakerRow
          /\ breaker[p].state = "half-open" => b = breaker[p]
          /\ breaker[p].state # "half-open" /\ b.state = "half-open" => b.slots = 0
      BY <2>3, Looked
    <2>5. b.state = "half-open" =>
            b.slots <= IF breaker[p].state = "half-open" THEN breaker[p].slots ELSE 0
      BY <2>3, <2>4 DEF BreakerRow
    <2>6. ASSUME NEW o \in Providers, NEW q \in probers'[o] PROVE Probing(q, o)'
      <3>1. q \in probers[o]
        BY <1>8, <2>2 DEF Read, UpstreamInv, UpstreamTypes
      <3>2. Probing(q, o)
        BY <3>1 DEF UpstreamInv, BreakerOK
      <3> QED
        BY <1>1, <3>2 DEF Probing, On
    <2> QED
      BY <1>8, <2>1, <2>2, <2>4, <2>5, <2>6, BreakerRead, UpstreamKept
  <1> QED
    BY <1>4, <1>7, <1>8 DEF Route

LEMMA NoRouteKeeps ==
  ASSUME UpstreamInv, NEW r \in Lanes, NoRoute(r)
  PROVE  UpstreamInv' /\ PaidStep
  <1>1. handler[r].pc = "route" /\ ~served[r].whole
    BY RowsTyped DEF NoRoute, LaneOK, RowOK, Judged
  <1> QED
    BY <1>1, DoneKeeps DEF NoRoute

LEMMA ChooseKeeps ==
  ASSUME UpstreamInv, NEW r \in Lanes, Choose(r)
  PROVE  UpstreamInv' /\ PaidStep
  <1> DEFINE rest == Tail(handler[r].cands)
             first == Head(handler[r].cands)
             to == IF Kind(r) \notin Streams THEN "wait" ELSE "first"
             c == [NoClient EXCEPT !.pc = "admit", !.on = first]
             h == [handler[r] EXCEPT !.cands = rest, !.pc = to]
             g == [handler[r] EXCEPT !.cands = rest]
  <1>1. /\ handler[r].pc = "choose" /\ UNCHANGED <<breaker, probers>>
        /\ handler[r] \in HandlerRow /\ handler \in [Lanes -> HandlerRow] /\ LaneOK(r)
        /\ client[r] \in ClientRow /\ client \in [Lanes -> ClientRow]
        /\ served[r] \in ServedRow /\ ctx[r] \in CtxStates
        /\ served \in [Lanes -> ServedRow] /\ ctx \in [Lanes -> CtxStates]
    BY RowsTyped DEF Choose, UpstreamInv, UpstreamTypes
  <1>2. /\ client[r].pc = "none" /\ ~served[r].final /\ ~served[r].whole
        /\ served[r].sources = {} /\ client[r].out = <<>> /\ ctx[r] # "done"
        /\ \A i \in 1 .. Len(handler[r].cands) : handler[r].cands[i] \in 1 .. Len(Order[r])
    BY <1>1 DEF LaneOK, RowOK, Asked, Paced, Judged, OfAttempt
  <1>3. CASE Done(r, "released")
    BY <1>1, <1>2, <1>3, DoneKeeps
  <1>4. ASSUME handler[r].cands # <<>>
        PROVE  /\ rest \in Seq(Nat \ {0}) /\ first \in 1 .. Len(Order[r]) /\ first \in Nat
               /\ \A i \in 1 .. Len(rest) : rest[i] \in 1 .. Len(Order[r])
    <2>1. handler[r].cands \in Seq(Nat \ {0}) /\ Len(handler[r].cands) \in Nat \ {0}
      BY <1>1, <1>4 DEF HandlerRow
    <2>2. first = handler[r].cands[1] /\ 1 \in 1 .. Len(handler[r].cands)
      BY <2>1
    <2>3. rest \in Seq(Nat \ {0}) /\ Len(rest) = Len(handler[r].cands) - 1
      BY <1>4, <2>1
    <2>4. ASSUME NEW i \in 1 .. Len(rest) PROVE rest[i] \in 1 .. Len(Order[r])
      <3>1. rest[i] = handler[r].cands[i + 1] /\ i + 1 \in 1 .. Len(handler[r].cands)
        BY <1>4, <2>1, <2>3
      <3> QED
        BY <1>2, <3>1
    <2> QED
      BY <1>2, <2>1, <2>2, <2>3, <2>4
  <1>5. CASE /\ handler[r].cands # <<>> /\ UNCHANGED <<ctx, served>>
             /\ client' = [client EXCEPT ![r] = c]
             /\ handler' = [handler EXCEPT ![r].cands = Tail(@), ![r].pc = to]
    <2>1. handler' = [handler EXCEPT ![r] = h]
      BY <1>1, <1>5
    <2> HIDE DEF first, rest
    <2>2. c \in ClientRow /\ c.pc = "admit" /\ c.on = first /\ c.out = <<>>
      BY <1>4, <1>5, FreshRows DEF ClientRow, NoClient
    <2>3. h \in HandlerRow /\ h.pc = to /\ h.cands = rest /\ h.kind = Kind(r)
      BY <1>1, <1>4, <1>5 DEF HandlerRow, Kind
    <2> HIDE DEF c, h
    <2>4. RowOK(r, h, c, served[r], ctx[r])
      BY <1>2, <1>4, <1>5, <2>2, <2>3 DEF RowOK, Asked, Paced, Judged, OfAttempt
    <2>5. LaneStep(r)
      <3>1. Turns(r, h, c, served[r], ctx[r])
        BY <1>1, <1>5, <2>1, <2>2, <2>3, <2>4 DEF Turns
      <3>2. PaidRight(served[r], served[r], ctx[r])
        BY DEF PaidRight
      <3> QED
        BY <3>1, <3>2 DEF LaneStep
    <2> QED
      BY <1>1, <1>2, <1>5, <2>2, <2>5, StaysProbing, UpstreamKept
  <1>6. CASE /\ handler[r].cands # <<>> /\ UNCHANGED <<ctx, served, client>>
             /\ handler' = [handler EXCEPT ![r].cands = Tail(@)]
    <2>1. handler' = [handler EXCEPT ![r] = g]
      BY <1>1, <1>6
    <2> HIDE DEF first, rest
    <2>2. g \in HandlerRow /\ g.pc = "choose" /\ g.cands = rest
      BY <1>1, <1>4, <1>6 DEF HandlerRow
    <2> HIDE DEF g
    <2>3. RowOK(r, g, client[r], served[r], ctx[r])
      BY <1>1, <1>2, <1>4, <1>6, <2>2 DEF LaneOK, RowOK, Asked, Paced, Judged, OfAttempt
    <2>4. LaneStep(r)
      BY <1>6, <2>1, <2>2, <2>3, HandlerSteps
    <2>5. client' = [client EXCEPT ![r] = client[r]]
      BY <1>1, <1>6
    <2> QED
      BY <1>1, <1>2, <2>4, <2>5, StaysProbing, UpstreamKept
  <1> QED
    BY <1>3, <1>5, <1>6 DEF Choose

(* A failure before the first text.                                           *)
LEMMA FailoverKeeps ==
  ASSUME UpstreamInv, NEW r \in Lanes, NEW result, Failover(r, result),
         handler[r].pc \in {"wait", "first"}, client[r].pc = "over",
         client[r].result = result, result # "ok", UNCHANGED <<breaker, probers>>
  PROVE  UpstreamInv' /\ PaidStep
  <1> DEFINE h == [handler[r] EXCEPT !.pc = "choose"]
  <1>1. /\ handler[r] \in HandlerRow /\ handler \in [Lanes -> HandlerRow] /\ LaneOK(r)
        /\ client[r] \in ClientRow /\ client \in [Lanes -> ClientRow]
        /\ served[r] \in ServedRow /\ ctx[r] \in CtxStates
        /\ served \in [Lanes -> ServedRow] /\ ctx \in [Lanes -> CtxStates]
    BY RowsTyped DEF UpstreamInv, UpstreamTypes
  <1>2. /\ ~served[r].whole /\ (served[r].final => ~Counts(result))
        /\ served[r].sources = {} /\ ctx[r] # "done"
    BY <1>1 DEF LaneOK, RowOK, Paced, Judged, OfAttempt
  <1>3. CASE Elsewhere(r, result)
    <2>1. /\ handler' = [handler EXCEPT ![r] = h] /\ client' = [client EXCEPT ![r] = NoClient]
          /\ UNCHANGED <<ctx, served>>
      BY <1>3 DEF Failover, Goto
    <2>2. ~served[r].final
      BY <1>2, <1>3 DEF Elsewhere
    <2>3. h \in HandlerRow /\ h.pc = "choose" /\ h.cands = handler[r].cands
      BY <1>1 DEF HandlerRow
    <2> HIDE DEF h
    <2>4. RowOK(r, h, NoClient, served[r], ctx[r])
      <3>1. /\ NoClient.pc = "none" /\ NoClient.out = <<>> /\ Len(NoClient.out) = 0
            /\ NoClient \in ClientRow
        BY FreshRows DEF NoClient
      <3>2. Asked(r, h, NoClient)
        BY <1>1, <2>3, <3>1 DEF LaneOK, RowOK, Asked
      <3> QED
        BY <1>2, <2>2, <2>3, <3>1, <3>2 DEF RowOK, Paced, Judged, OfAttempt
    <2>5. LaneStep(r)
      <3>1. Turns(r, h, NoClient, served[r], ctx[r])
        BY <1>1, <2>1, <2>3, <2>4, FreshRows DEF Turns
      <3>2. PaidRight(served[r], served[r], ctx[r])
        BY DEF PaidRight
      <3> QED
        BY <3>1, <3>2 DEF LaneStep
    <2> QED
      BY <2>1, <2>5, FreshRows, StaysProbing, UpstreamKept
  <1>4. CASE ~Elsewhere(r, result)
    BY <1>2, <1>4, DoneKeeps DEF Failover
  <1> QED
    BY <1>3, <1>4

LEMMA ReturnedKeeps ==
  ASSUME UpstreamInv, NEW r \in Lanes, Returned(r)
  PROVE  UpstreamInv' /\ PaidStep
  <1>1. /\ handler[r].pc = "wait" /\ client[r].pc = "over" /\ UNCHANGED <<breaker, probers>>
        /\ LaneOK(r)
    BY RowsTyped DEF Returned
  <1>2. CASE client[r].result = "ok"
    <2>1. served[r].whole /\ Done(r, "settled")
      BY <1>1, <1>2 DEF Returned, LaneOK, RowOK, Judged
    <2> QED
      BY <1>1, <2>1, DoneKeeps
  <1>3. CASE client[r].result # "ok"
    BY <1>1, <1>3, FailoverKeeps DEF Returned
  <1> QED
    BY <1>2, <1>3

(* What the handler reads next.                                               *)
LEMMA ItemIs ==
  ASSUME UpstreamInv, NEW r \in Lanes, Reading(r)
  PROVE  /\ Item(r) \in OutItem
         /\ Item(r).kind = "text" =>
              Item(r).of = <<client[r].on, client[r].try>> /\ client[r].texts # 0
         /\ Item(r).kind # "text" =>
              /\ client[r].pc = "over" /\ Item(r).kind = client[r].result
              /\ served[r].whole <=> Item(r).kind = "ok"
  <1>1. client[r] \in ClientRow /\ LaneOK(r) /\ handler[r].pc \in {"first", "pump"}
    BY RowsTyped DEF Reading
  <1>2. client[r].out \in Seq(OutItem) /\ client[r].out # <<>> /\ Len(client[r].out) \in Nat \ {0}
    BY <1>1 DEF Reading, ClientRow
  <1>3. Item(r) = client[r].out[1] /\ 1 \in 1 .. Len(client[r].out) /\ Item(r) \in OutItem
    BY <1>2 DEF Item
  <1> QED
    BY <1>1, <1>3 DEF LaneOK, RowOK, OfAttempt, Judged

LEMMA ForwardKeeps ==
  ASSUME UpstreamInv, NEW r \in Lanes, Forward(r)
  PROVE  UpstreamInv' /\ PaidStep
  <1> DEFINE rest == Tail(client[r].out)
             got == served[r].sources \cup {Item(r).of}
             h == [handler[r] EXCEPT !.pc = "pump"]
             c == [client[r] EXCEPT !.out = rest]
             s == [served[r] EXCEPT !.sources = got]
  <1>1. /\ handler[r].pc \in {"first", "pump"} /\ UNCHANGED <<breaker, probers>>
        /\ handler[r] \in HandlerRow /\ handler \in [Lanes -> HandlerRow] /\ LaneOK(r)
        /\ client[r] \in ClientRow /\ client \in [Lanes -> ClientRow]
        /\ served[r] \in ServedRow /\ ctx[r] \in CtxStates
        /\ served \in [Lanes -> ServedRow] /\ ctx \in [Lanes -> CtxStates]
        /\ Reading(r) /\ Item(r).kind = "text"
    BY RowsTyped DEF Forward, Reading, UpstreamInv, UpstreamTypes
  <1>2. /\ Item(r).of = <<client[r].on, client[r].try>> /\ client[r].texts # 0
        /\ Item(r) \in OutItem
    BY <1>1, ItemIs
  <1>3. CASE /\ handler' = [handler EXCEPT ![r].pc = "pump"]
             /\ client' = [client EXCEPT ![r].out = Tail(client[r].out)]
             /\ served' = [served EXCEPT ![r].sources = @ \cup {Item(r).of}]
             /\ UNCHANGED ctx
    <2>1. /\ handler' = [handler EXCEPT ![r] = h] /\ client' = [client EXCEPT ![r] = c]
          /\ served' = [served EXCEPT ![r] = s] /\ ctx' = [ctx EXCEPT ![r] = ctx[r]]
      BY <1>1, <1>3
    <2>2. client[r].out \in Seq(OutItem) /\ client[r].out # <<>> /\ Len(client[r].out) \in Nat
      BY <1>1 DEF ClientRow, Reading
    <2>3. rest \in Seq(OutItem) /\ Len(rest) = Len(client[r].out) - 1
      BY <2>2
    <2>4. ASSUME NEW i \in 1 .. Len(rest)
          PROVE  i + 1 \in 1 .. Len(client[r].out) /\ rest[i] = client[r].out[i + 1]
      BY <2>2, <2>3
    <2>5. got \in SUBSET (Nat \X Nat)
      BY <1>1, <1>2 DEF ServedRow, OutItem
    <2> HIDE DEF rest, got
    <2>6. h \in HandlerRow /\ h.pc = "pump" /\ h.kind = handler[r].kind /\ h.cands = handler[r].cands
      BY <1>1 DEF HandlerRow
    <2>7. /\ c \in ClientRow /\ c.out = rest /\ c.pc = client[r].pc /\ c.on = client[r].on
          /\ c.try = client[r].try /\ c.result = client[r].result /\ c.texts = client[r].texts
          /\ c.probe = client[r].probe
      BY <1>1, <2>3 DEF ClientRow
    <2>8. /\ s \in ServedRow /\ s.sources = got /\ s.final = served[r].final
          /\ s.whole = served[r].whole /\ s.paid = served[r].paid
      BY <1>1, <2>5 DEF ServedRow
    <2> HIDE DEF h, c, s
    <2>9. OfAttempt(h, c, s)
      <3>1. OfAttempt(handler[r], client[r], served[r])
        BY <1>1 DEF LaneOK, RowOK
      <3>2. got \subseteq {<<c.on, c.try>>} /\ c.texts # 0
        BY <1>2, <2>7, <3>1 DEF OfAttempt, got
      <3>3. ASSUME NEW i \in 1 .. Len(c.out)
            PROVE  IF c.out[i].kind = "text" THEN c.out[i].of = <<c.on, c.try>> /\ c.texts # 0
                   ELSE c.pc = "over" /\ c.out[i].kind = c.result
        BY <2>4, <2>7, <3>1 DEF OfAttempt
      <3> QED
        BY <2>6, <2>8, <3>2, <3>3 DEF OfAttempt
    <2>10. RowOK(r, h, c, s, ctx[r])
      BY <1>1, <2>6, <2>7, <2>8, <2>9 DEF LaneOK, RowOK, Asked, Paced, Judged
    <2>11. LaneStep(r)
      <3>1. Turns(r, h, c, s, ctx[r])
        BY <1>1, <2>1, <2>6, <2>7, <2>8, <2>10 DEF Turns
      <3>2. PaidRight(served[r], s, ctx[r])
        BY <2>8 DEF PaidRight
      <3> QED
        BY <3>1, <3>2 DEF LaneStep
    <2> QED
      BY <1>1, <2>1, <2>7, <2>11, StaysProbing, UpstreamKept
  <1>4. CASE Return(r, "released") /\ ctx' = [ctx EXCEPT ![r] = "left"]
    <2>1. "left" \in CtxStates
      BY DEF CtxStates
    <2> QED
      BY <1>1, <1>4, <2>1, ReturnKeeps
  <1>5. CASE Done(r, "cut short")
    BY <1>1, <1>5, DoneKeeps
  <1> QED
    BY <1>3, <1>4, <1>5 DEF Forward, Goto

LEMMA CompleteKeeps ==
  ASSUME UpstreamInv, NEW r \in Lanes, Complete(r)
  PROVE  UpstreamInv' /\ PaidStep
  <1>1. handler[r].pc # "idle" /\ served[r].whole
    BY ItemIs DEF Complete, Reading
  <1> QED
    BY <1>1, DoneKeeps DEF Complete

LEMMA BrokenKeeps ==
  ASSUME UpstreamInv, NEW r \in Lanes, Broken(r)
  PROVE  UpstreamInv' /\ PaidStep
  <1>1. /\ handler[r].pc \in {"first", "pump"} /\ ~served[r].whole /\ client[r].pc = "over"
        /\ client[r].result = Item(r).kind /\ Item(r).kind # "ok" /\ UNCHANGED <<breaker, probers>>
    BY ItemIs DEF Broken, Reading
  <1>2. CASE handler[r].pc = "first"
    BY <1>1, <1>2, FailoverKeeps DEF Broken
  <1>3. CASE handler[r].pc # "first"
    BY <1>1, <1>3, DoneKeeps DEF Broken
  <1> QED
    BY <1>2, <1>3

LEMMA AbandonedKeeps ==
  ASSUME UpstreamInv, NEW r \in Lanes, Abandoned(r)
  PROVE  UpstreamInv' /\ PaidStep
  BY DoneKeeps DEF Abandoned

LEMMA LeaveKeeps ==
  ASSUME UpstreamInv, NEW r \in Lanes, Leave(r)
  PROVE  UpstreamInv' /\ PaidStep
  <1>1. /\ UNCHANGED <<breaker, handler, client, probers, served>>
        /\ handler[r] \in HandlerRow /\ handler \in [Lanes -> HandlerRow] /\ LaneOK(r)
        /\ client[r] \in ClientRow /\ client \in [Lanes -> ClientRow]
        /\ served[r] \in ServedRow /\ served \in [Lanes -> ServedRow]
    BY RowsTyped DEF Leave, UpstreamInv, UpstreamTypes
  <1>2. PICK end \in {"left", "late"} : ctx' = [ctx EXCEPT ![r] = end]
    BY DEF Leave
  <1>3. RowOK(r, handler[r], client[r], served[r], end) /\ end \in CtxStates
    BY <1>1 DEF LaneOK, RowOK, Paced, CtxStates
  <1>4. client' = [client EXCEPT ![r] = client[r]]
    BY <1>1
  <1>5. Turns(r, handler[r], client[r], served[r], end)
    BY <1>1, <1>2, <1>3 DEF Turns
  <1>6. PaidRight(served[r], served[r], end)
    BY DEF PaidRight
  <1> QED
    BY <1>1, <1>4, <1>5, <1>6, StaysProbing, UpstreamKept DEF LaneStep

LEMMA CoolDownKeeps ==
  ASSUME UpstreamInv, NEW p \in Providers, CoolDown(p)
  PROVE  UpstreamInv' /\ PaidStep
  <1>1. /\ breaker[p].state = "open" /\ breaker' = [breaker EXCEPT ![p].cooled = TRUE]
        /\ UNCHANGED <<handler, client, ctx, probers, served>>
        /\ breaker \in [Providers -> BreakerRow] /\ probers \in [Providers -> SUBSET Lanes]
        /\ BreakerOK(p)
    BY DEF CoolDown, UpstreamInv, UpstreamTypes
  <1> DEFINE b == [breaker[p] EXCEPT !.cooled = TRUE]
  <1>2. breaker' = [breaker EXCEPT ![p] = b] /\ probers' = [probers EXCEPT ![p] = probers[p]]
    BY <1>1
  <1>3. b \in BreakerRow /\ b.state # "half-open" /\ IsFiniteSet(probers[p]) /\ probers[p] = {}
    BY <1>1 DEF BreakerRow, BreakerOK
  <1> HIDE DEF b
  <1>4. ASSUME NEW o \in Providers, NEW q \in probers'[o] PROVE Probing(q, o)'
    <2>1. Probing(q, o)
      BY <1>1 DEF UpstreamInv, BreakerOK
    <2> QED
      BY <1>1, <2>1 DEF Probing, On
  <1>5. /\ breaker' \in [Providers -> BreakerRow]
        /\ probers' \in [Providers -> SUBSET Lanes]
        /\ \A o \in Providers : BreakerOK(o)'
    BY <1>1, <1>2, <1>3, <1>4, BreakersKept
  <1>6. \A q \in Lanes : LaneOK(q)'
    BY <1>1 DEF LaneOK, UpstreamInv
  <1>7. PaidStep
    BY <1>1 DEF PaidStep, PaidRight
  <1> QED
    BY <1>1, <1>5, <1>6, <1>7 DEF UpstreamInv, UpstreamTypes

LEMMA UpstreamSteps ==
  ASSUME UpstreamInv, [UpstreamNext]_upstreamVars
  PROVE  UpstreamInv' /\ PaidStep
  <1>1. CASE UNCHANGED upstreamVars
    <2>1. UNCHANGED <<breaker, handler, client, ctx, probers, served>>
      BY <1>1 DEF upstreamVars
    <2>2. \A r \in Lanes : LaneOK(r)'
      BY <2>1 DEF LaneOK, UpstreamInv
    <2>3. \A p \in Providers : BreakerOK(p)'
      BY <2>1 DEF BreakerOK, Probing, On, UpstreamInv
    <2> QED
      BY <2>1, <2>2, <2>3 DEF UpstreamInv, UpstreamTypes, PaidStep, PaidRight
  <1>2. ASSUME NEW p \in Providers, CoolDown(p) PROVE UpstreamInv' /\ PaidStep
    BY <1>2, CoolDownKeeps
  <1>3. ASSUME NEW r \in Lanes, Attempt(r) PROVE UpstreamInv' /\ PaidStep
    BY <1>3, AdmitKeeps, ModeKeeps, TextKeeps, VerdictKeeps, FreePlaceKeeps, JudgeKeeps
       DEF Attempt
  <1>4. ASSUME NEW r \in Lanes, Serve(r) PROVE UpstreamInv' /\ PaidStep
    BY <1>4, RouteKeeps, NoRouteKeeps, ChooseKeeps, ReturnedKeeps, ForwardKeeps, CompleteKeeps,
       BrokenKeeps, AbandonedKeeps DEF Serve
  <1>5. ASSUME NEW r \in Lanes, Leave(r) PROVE UpstreamInv' /\ PaidStep
    BY <1>5, LeaveKeeps
  <1>6. ASSUME NEW r \in Lanes, NEW kind \in KindsOn[r], Begin(r, kind)
        PROVE  UpstreamInv' /\ PaidStep
    BY <1>6, BeginKeeps
  <1> QED
    BY <1>1, <1>2, <1>3, <1>4, <1>5, <1>6 DEF UpstreamNext

(* For any providers, candidates, lanes, thresholds and numbers of attempts:  *)
(* the inductive invariant of the breakers and of what serves a request.      *)
THEOREM UpstreamInvariant == UpstreamSpec => []UpstreamInv
  <1>1. UpstreamInv /\ [UpstreamNext]_upstreamVars => UpstreamInv'
    BY UpstreamSteps
  <1> QED
    BY <1>1, UpstreamStarts, PTL DEF UpstreamSpec

(* A half-open breaker counts no more probes than are under way, so no place  *)
(* is lost to a client that left or to a probe that got no verdict.           *)
THEOREM ProbePlacesReturn == UpstreamSpec => []NoLeakedSlot
  <1>1. UpstreamInv => NoLeakedSlot
    BY DEF UpstreamInv, BreakerOK, NoLeakedSlot
  <1> QED
    BY <1>1, UpstreamInvariant, PTL

(* All text a client gets of one request comes from one attempt: neither a    *)
(* reconnected stream nor another candidate starts anew behind it.            *)
THEOREM AnswerHasOneSource == UpstreamSpec => []OneSource
  <1>1. ASSUME UpstreamInv PROVE OneSource
    <2> SUFFICES ASSUME NEW r \in Lanes PROVE Cardinality(served[r].sources) <= 1
      BY DEF OneSource
    <2>1. served[r].sources \subseteq {<<client[r].on, client[r].try>>}
      BY <1>1 DEF UpstreamInv, LaneOK, RowOK, OfAttempt
    <2>2. \/ served[r].sources = {}
          \/ served[r].sources = {<<client[r].on, client[r].try>>}
      BY <2>1
    <2> DEFINE one == <<client[r].on, client[r].try>>
    <2>3. Cardinality({}) = 0 /\ Cardinality({one}) = 1
      BY FS_EmptySet, FS_Singleton
    <2> HIDE DEF one
    <2>4. Cardinality(served[r].sources) = 0 \/ Cardinality(served[r].sources) = 1
      BY <2>2, <2>3 DEF one
    <2> QED
      BY <2>4
  <1> QED
    BY <1>1, UpstreamInvariant, PTL

(* A request goes upstream again only after faults of the server or of the    *)
(* transport.                                                                 *)
THEOREM OnlyFaultsRepeat == UpstreamSpec => TransientOnly
  <1>1. UpstreamInv => \A r \in Lanes : client[r].pc = "mode" => ~served[r].final
    BY DEF UpstreamInv, LaneOK, RowOK, Judged
  <1>2. UpstreamInv /\ [UpstreamNext]_upstreamVars =>
          [\A r \in Lanes : client[r].pc = "mode" /\ client'[r].pc = "call" =>
             ~served[r].final]_upstreamVars
    BY <1>1
  <1> QED
    BY <1>2, UpstreamInvariant, PTL DEF UpstreamSpec, TransientOnly

(* A hold is settled only for a full answer, and a full answer is settled     *)
(* unless its client left or its time was up (handleNonStream, runStream).    *)
THEOREM SettledIsWhole == UpstreamSpec => PaidIsWhole
  <1>1. UpstreamInv /\ [UpstreamNext]_upstreamVars =>
          [\A r \in Lanes : served[r].paid = "held" =>
             /\ served'[r].paid = "settled" => served[r].whole
             /\ served'[r].paid = "released" /\ served[r].whole => ctx'[r] # "done"]_upstreamVars
    BY UpstreamSteps DEF PaidStep, PaidRight
  <1> QED
    BY <1>1, UpstreamInvariant, PTL DEF UpstreamSpec, PaidIsWhole
=============================================================================
