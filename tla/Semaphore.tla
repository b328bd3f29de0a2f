----------------------------- MODULE Semaphore -----------------------------
(***************************************************************************)
(* What a resource pool promises (architecture chapter 6): each class is a *)
(* counting semaphore.  A caller owns at most one lease, a class never has *)
(* more owners than its capacity, and only an owner gives a lease back.    *)
(***************************************************************************)
EXTENDS Integers, FiniteSets

CONSTANTS Callers, Classes, Capacity

VARIABLE owners          \* per class: the callers that own a slot

Init == owners = [r \in Classes |-> {}]

Free(c) == \A r \in Classes : c \notin owners[r]

Acquire(c, r) ==
  /\ Free(c)
  /\ Cardinality(owners[r]) < Capacity[r]
  /\ owners' = [owners EXCEPT ![r] = @ \cup {c}]

Release(c, r) ==
  /\ c \in owners[r]
  /\ owners' = [owners EXCEPT ![r] = @ \ {c}]

(* One caller's slot passes straight to another one.                       *)
Pass(c, d, r) ==
  /\ c \in owners[r]
  /\ Free(d)
  /\ owners' = [owners EXCEPT ![r] = (@ \ {c}) \cup {d}]

Next ==
  \E c \in Callers, r \in Classes :
    \/ Acquire(c, r)
    \/ Release(c, r)
    \/ \E d \in Callers : Pass(c, d, r)

Spec == Init /\ [][Next]_owners
=============================================================================
