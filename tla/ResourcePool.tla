---------------------------- MODULE ResourcePool ----------------------------
(***************************************************************************)
(* The third layer of rate limiting (internal/scheduler/resource_pool.go): *)
(* one counting semaphore per resource class with a bounded FIFO of        *)
(* waiters.  A released slot is handed to the oldest waiter before that    *)
(* waiter runs again, through a one-place channel, so the slot is counted  *)
(* while the grant is still in the mail.                                   *)
(*                                                                         *)
(* This module holds the pool's own state and one operator per critical    *)
(* section of its mutex.  ResourcePoolClients closes it with callers;      *)
(* Scheduler uses the same operators for its task goroutines.              *)
(*                                                                         *)
(* Abstractions: the acquired / rejected / timedOut counters feed Stats    *)
(* only and are left out; a lease is the fact that its caller holds it.    *)
(***************************************************************************)
EXTENDS Integers, Sequences, FiniteSets, SequencesExt

CONSTANTS
  Callers,     \* goroutines that ask for a lease
  Classes,     \* resource classes (browser, terminal, ...)
  Capacity,    \* the ceiling of each class
  MaxWaiters   \* how many callers may block on one class

ASSUME PoolAssumption ==
  /\ IsFiniteSet(Callers)
  /\ Capacity \in [Classes -> Nat]
  /\ MaxWaiters \in Nat

VARIABLES
  inUse,       \* per class: slots taken, grants in the mail included
  waiters,     \* per class: FIFO of blocked callers
  mail,        \* per caller: content of its one-place grant channel
  poolClosed   \* Close was called

poolVars == <<inUse, waiters, mail, poolClosed>>

Mail == {"empty", "granted", "closed"}

PoolTypeOK ==
  /\ inUse \in [Classes -> Nat]
  /\ waiters \in [Classes -> Seq(Callers)]
  /\ mail \in [Callers -> Mail]
  /\ poolClosed \in BOOLEAN

PoolInit ==
  /\ inUse = [r \in Classes |-> 0]
  /\ waiters = [r \in Classes |-> <<>>]
  /\ mail = [c \in Callers |-> "empty"]
  /\ poolClosed = FALSE

HasSlot(r) == inUse[r] < Capacity[r]

(* The fast path of Acquire, and TryAcquire: a free slot is taken under    *)
(* the lock.                                                               *)
TakeSlot(r) ==
  /\ ~poolClosed
  /\ HasSlot(r)
  /\ inUse' = [inUse EXCEPT ![r] = @ + 1]
  /\ UNCHANGED <<waiters, mail, poolClosed>>

(* The slow path of Acquire: no slot, room among the waiters.              *)
JoinWaiters(c, r) ==
  /\ ~poolClosed
  /\ ~HasSlot(r)
  /\ Len(waiters[r]) < MaxWaiters
  /\ waiters' = [waiters EXCEPT ![r] = Append(@, c)]
  /\ UNCHANGED <<inUse, mail, poolClosed>>

(* Acquire refuses: the pool is closed, or the class is saturated and its  *)
(* waiting list full.                                                      *)
Refused(r) ==
  /\ \/ poolClosed
     \/ ~HasSlot(r) /\ Len(waiters[r]) >= MaxWaiters
  /\ UNCHANGED poolVars

(* TryAcquire refuses without waiting.                                     *)
TryRefused(r) ==
  /\ poolClosed \/ ~HasSlot(r)
  /\ UNCHANGED poolVars

(* Mutants: the newest waiter is served first; the slot moves on without   *)
(* being counted again.                                                    *)
HandOff_Newest(r, n, m) ==
  IF ~poolClosed /\ n < Capacity[r] /\ waiters[r] # <<>>
  THEN /\ inUse' = [inUse EXCEPT ![r] = n + 1]
       /\ waiters' = [waiters EXCEPT ![r] = Front(@)]
       /\ mail' = [m EXCEPT ![Last(waiters[r])] = "granted"]
  ELSE /\ inUse' = [inUse EXCEPT ![r] = n]
       /\ mail' = m
       /\ UNCHANGED waiters
HandOff_Uncounted(r, n, m) ==
  /\ inUse' = [inUse EXCEPT ![r] = n]
  /\ IF ~poolClosed /\ n < Capacity[r] /\ waiters[r] # <<>>
     THEN /\ waiters' = [waiters EXCEPT ![r] = Tail(@)]
          /\ mail' = [m EXCEPT ![Head(waiters[r])] = "granted"]
     ELSE mail' = m /\ UNCHANGED waiters

(* handOffLocked, called with n slots in use and channels m: the oldest    *)
(* waiter, if any, gets the free slot.                                     *)
HandOff(r, n, m) ==
  IF ~poolClosed /\ n < Capacity[r] /\ waiters[r] # <<>>
  THEN /\ inUse' = [inUse EXCEPT ![r] = n + 1]
       /\ waiters' = [waiters EXCEPT ![r] = Tail(@)]
       /\ mail' = [m EXCEPT ![Head(waiters[r])] = "granted"]
  ELSE /\ inUse' = [inUse EXCEPT ![r] = n]
       /\ mail' = m
       /\ UNCHANGED waiters

(* Lease.Release: the slot goes back and on to the oldest waiter.          *)
Release(r) ==
  /\ HandOff(r, IF inUse[r] > 0 THEN inUse[r] - 1 ELSE 0, mail)
  /\ UNCHANGED poolClosed

(* A blocked caller reads its grant channel.                               *)
ReadMail(c, m) ==
  /\ mail[c] = m
  /\ mail' = [mail EXCEPT ![c] = "empty"]
  /\ UNCHANGED <<inUse, waiters, poolClosed>>

(* The ctx.Done branch of Acquire, under the lock: a grant that arrived in *)
(* the meantime is given back, otherwise the caller leaves the list.       *)
Abandon(c, r) ==
  /\ UNCHANGED poolClosed
  /\ \/ /\ mail[c] = "granted"
        /\ HandOff(r, inUse[r] - 1, [mail EXCEPT ![c] = "empty"])
     \/ /\ mail[c] = "closed"
        /\ mail' = [mail EXCEPT ![c] = "empty"]
        /\ UNCHANGED <<inUse, waiters>>
     \/ /\ mail[c] = "empty"
        /\ \E i \in DOMAIN waiters[r] :
             /\ waiters[r][i] = c
             /\ waiters' = [waiters EXCEPT ![r] = RemoveAt(@, i)]
        /\ UNCHANGED <<inUse, mail>>

Blocked == UNION {Range(waiters[r]) : r \in Classes}

(* Mutant: the list is emptied and nobody is told.                         *)
ClosePool_Silent ==
  /\ ~poolClosed
  /\ poolClosed' = TRUE
  /\ waiters' = [r \in Classes |-> <<>>]
  /\ UNCHANGED <<inUse, mail>>

(* Close: no new acquisition, every waiter is failed.                      *)
ClosePool ==
  /\ ~poolClosed
  /\ poolClosed' = TRUE
  /\ mail' = [c \in Callers |-> IF c \in Blocked THEN "closed" ELSE mail[c]]
  /\ waiters' = [r \in Classes |-> <<>>]
  /\ UNCHANGED inUse
=============================================================================
