------------------------ MODULE ResourcePoolClients ------------------------
(***************************************************************************)
(* The resource pool closed by its callers: goroutines that acquire a      *)
(* lease of some class (with or without waiting), hold it, time out while  *)
(* they wait, and release it, while the pool may be closed at any moment.  *)
(***************************************************************************)
EXTENDS ResourcePool

VARIABLES
  phase,       \* per caller: outside, blocked in Acquire, or holding a lease
  want         \* per caller: the class it last asked for

vars == <<inUse, waiters, mail, poolClosed, phase, want>>

Phases == {"out", "waiting", "holding"}

TypeOK ==
  /\ PoolTypeOK
  /\ phase \in [Callers -> Phases]
  /\ want \in [Callers -> Classes]

Init ==
  /\ PoolInit
  /\ phase = [c \in Callers |-> "out"]
  /\ want \in [Callers -> Classes]

Become(c, p) == phase' = [phase EXCEPT ![c] = p]

(* Acquire and TryAcquire.  A refusal leaves everything as it was.         *)
AcquireNow(c, r) ==
  /\ phase[c] = "out"
  /\ TakeSlot(r)
  /\ Become(c, "holding")
  /\ want' = [want EXCEPT ![c] = r]

AcquireLater(c, r) ==
  /\ phase[c] = "out"
  /\ JoinWaiters(c, r)
  /\ Become(c, "waiting")
  /\ want' = [want EXCEPT ![c] = r]

AcquireRefused(c, r) ==
  /\ phase[c] = "out"
  /\ Refused(r) \/ TryRefused(r)
  /\ UNCHANGED <<phase, want>>

Granted(c) ==
  /\ phase[c] = "waiting"
  /\ ReadMail(c, "granted")
  /\ Become(c, "holding")
  /\ UNCHANGED want

FailedByClose(c) ==
  /\ phase[c] = "waiting"
  /\ ReadMail(c, "closed")
  /\ Become(c, "out")
  /\ UNCHANGED want

TimedOut(c) ==
  /\ phase[c] = "waiting"
  /\ Abandon(c, want[c])
  /\ Become(c, "out")
  /\ UNCHANGED want

GiveBack(c) ==
  /\ phase[c] = "holding"
  /\ Release(want[c])
  /\ Become(c, "out")
  /\ UNCHANGED want

Close ==
  /\ ClosePool
  /\ UNCHANGED <<phase, want>>

Next ==
  \/ \E c \in Callers, r \in Classes :
       \/ AcquireNow(c, r)
       \/ AcquireLater(c, r)
       \/ AcquireRefused(c, r)
  \/ \E c \in Callers :
       \/ Granted(c)
       \/ FailedByClose(c)
       \/ TimedOut(c)
       \/ GiveBack(c)
  \/ Close

Spec == Init /\ [][Next]_vars

(* A caller that was granted a lease runs on, and every holder releases:   *)
(* runTask defers the release on every exit path, panics included, and the *)
(* runners it calls are bounded by their contexts.  Nothing obliges a      *)
(* caller to ask, to time out, or the pool to close.                       *)
Fairness ==
  \A c \in Callers : WF_vars(Granted(c)) /\ WF_vars(FailedByClose(c))
                     /\ WF_vars(GiveBack(c))

FairSpec == Spec /\ Fairness

-----------------------------------------------------------------------------
Owns(c, r) == want[c] = r /\ (phase[c] = "holding" \/ mail[c] = "granted")

Owners(r) == {c \in Callers : Owns(c, r)}

(* The slots in use are exactly the leases held plus the grants still in   *)
(* the mail, whatever timeouts, hand-offs and the close interleave; so a   *)
(* class never exceeds its ceiling and never leaks a slot.                 *)
SlotsExact ==
  \A r \in Classes : inUse[r] = Cardinality(Owners(r)) /\ inUse[r] <= Capacity[r]

(* Nobody waits for a class that has a free slot: a hand-off is never      *)
(* lost between a release, a timeout and a new waiter.                     *)
NoIdleSlot ==
  \A r \in Classes : waiters[r] # <<>> => inUse[r] = Capacity[r]

(* No waiter is lost and none is answered twice: a list holds each of its  *)
(* callers once, all of them blocked on that class with nothing in their   *)
(* channel; a blocked caller is in the list or has its answer; a closed    *)
(* pool has no lists.                                                      *)
Listed(c, r) == \E i \in DOMAIN waiters[r] : waiters[r][i] = c

WaitersExact ==
  /\ \A r \in Classes : \A i \in DOMAIN waiters[r] :
       /\ phase[waiters[r][i]] = "waiting" /\ want[waiters[r][i]] = r
       /\ mail[waiters[r][i]] = "empty"
       /\ \A j \in DOMAIN waiters[r] : waiters[r][i] = waiters[r][j] => i = j
  /\ \A c \in Callers :
       /\ mail[c] # "empty" => phase[c] = "waiting"
       /\ phase[c] = "waiting" /\ mail[c] = "empty" => Listed(c, want[c])
  /\ poolClosed => \A r \in Classes : waiters[r] = <<>>

Before(c, d, r) ==
  \E i, j \in DOMAIN waiters[r] : i < j /\ waiters[r][i] = c /\ waiters[r][j] = d

(* Acquisition is FIFO per class: while a caller is still in the list no   *)
(* caller that joined after it gets a slot of that class.                  *)
NoOvertaking ==
  [][\A r \in Classes : \A c, d \in Callers :
       Before(c, d, r) /\ c \in Range(waiters'[r]) => ~Owns(d, r)']_vars

(* Every blocked Acquire returns as long as leases are released.           *)
WaitEnds == \A c \in Callers : phase[c] = "waiting" ~> phase[c] # "waiting"

(* The pool implements one counting semaphore per class.                   *)
Sem == INSTANCE Semaphore WITH owners <- [r \in Classes |-> Owners(r)]

ImplementsSemaphore == Sem!Spec
=============================================================================
