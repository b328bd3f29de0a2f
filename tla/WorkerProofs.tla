----------------------------- MODULE WorkerProofs -----------------------------
(* Proofs about WorkerManager, Stop included, for any number of callers,      *)
(* slots, faults and starts.                                                  *)
(*                                                                            *)
(* The argument has three independent parts. A reservation is one caller's    *)
(* and excludes a lease, so attaching a lease overwrites none. Whoever has    *)
(* counted itself into a slot's inflight is alone there, since the count is   *)
(* looked at and raised in one section, and nothing else resets it. And a     *)
(* call is at one place: with its caller before the dispatch, in one queue,   *)
(* with one goroutine that resumes it, or on the list of one exit.            *)
EXTENDS WorkerProperties, SequenceTheorems, TLAPS

Out == {"idle", "scan", "wait", "done"}
Under == {"allow", "dispatch", "queued", "run", "exit", "release"}
CallerPcs == Out \cup {"attach"} \cup Under
ResumerPcs == {"off", "next", "dispatch", "queued", "run", "exit"}

-----------------------------------------------------------------------------
(* The inductive invariant. *)

SlotRec ==
    [worker : Nat, state : States, lease : Callers \cup {None},
     reserved : BOOLEAN, retired : BOOLEAN, inflight : Nat,
     pending : Seq(Callers), failures : Nat]
ActRec ==
    [pc : CallerPcs \cup ResumerPcs, call : Callers \cup {None}, on : Nat,
     left : SUBSET Slots, serving : BOOLEAN]
ExitRec ==
    [pc : {"none", "evict", "kill", "take", "revoke", "cleanup", "requeue",
           "force"},
     slot : Slots \cup {None}, old : Nat, lease : Callers \cup {None},
     pending : Seq(Callers), open : BOOLEAN]

SlotType == slot \in [Slots -> SlotRec]
LeaseType == lease \in [Callers ->
    [slot : Slots \cup {None}, expired : BOOLEAN, released : BOOLEAN]]
CallType == call \in [Callers -> [live : BOOLEAN, done : BOOLEAN, attempt : Nat]]
ActType ==
    /\ act \in [Actors -> ActRec]
    /\ \A c \in Callers : act[c].pc \in CallerPcs /\ act[c].call = c
    /\ \A r \in Resumers : act[r].pc \in ResumerPcs
ExitType ==
    /\ exit \in [Owners -> ExitRec]
    /\ \A o \in Owners : exit[o].pc # "none" => exit[o].slot \in Slots
SweepType ==
    /\ sweep \in [pc : {"idle", "recycle", "start", "boot", "reset", "health",
                        "ended"}, slot : Slots \cup {None}]
    /\ sweep.pc \notin {"idle", "ended"} => sweep.slot \in Slots
CountType == starts \in [Slots -> Nat] /\ runs \in [Callers -> Nat]
Types == /\ SlotType /\ LeaseType /\ CallType /\ ActType /\ ExitType
         /\ SweepType /\ CountType

(* Who has picked a slot keeps it.                                            *)
Picked(c) == act[c].pc \notin {"idle", "scan", "wait"} /\ lease[c].slot \in Slots

ReservedFree == \A s \in Slots : slot[s].reserved => slot[s].lease = None
HasSlot == \A c \in Callers : act[c].pc \in {"attach"} \cup Under =>
    lease[c].slot \in Slots
OwnReservation ==
    /\ \A c \in Callers : act[c].pc = "attach" => slot[lease[c].slot].reserved
    /\ \A c, d \in Callers :
         act[c].pc = "attach" /\ act[d].pc = "attach"
         /\ lease[c].slot = lease[d].slot => c = d
LeaseIsHeld == \A s \in Slots, c \in Callers : slot[s].lease = c =>
    act[c].pc \in Under /\ lease[c].slot = s
LeaseOK == /\ ReservedFree /\ HasSlot /\ OwnReservation /\ LeaseIsHeld
           /\ LeaseExclusive

(* A call that somebody else may dispatch has its slot for good.              *)
Past(c) == act[c].pc \in Under \cup {"done"} /\ lease[c].slot \in Slots
InQueue(s, c) == \E i \in DOMAIN slot[s].pending : slot[s].pending[i] = c
InExit(o, c) == \E i \in DOMAIN exit[o].pending : exit[o].pending[i] = c
Busy == {"dispatch", "queued", "run", "exit"}

PlaceOK ==
    /\ \A s \in Slots, c \in Callers : InQueue(s, c) => Past(c)
    /\ \A o \in Owners, c \in Callers : InExit(o, c) => Past(c)
    /\ \A a \in Actors : act[a].pc \in Busy =>
         act[a].call \in Callers /\ Past(act[a].call)

Serving(a) == act[a].pc \in {"run", "exit"}
ServeOK ==
    /\ \A a \in Actors : Serving(a) => slot[SlotOf(a)].inflight > 0
    /\ \A a, b \in Actors :
         Serving(a) /\ Serving(b) /\ SlotOf(a) = SlotOf(b) => a = b

(* Where a call is that no worker was handed yet.                             *)
Fresh(a, c) ==
    /\ act[a].call = c
    /\ act[a].pc \in {"idle", "scan", "wait", "attach", "allow", "dispatch"}
OnceOK ==
    /\ \A s \in Slots : IsInjective(slot[s].pending)
    /\ \A o \in Owners : IsInjective(exit[o].pending)
    /\ \A c \in Callers :
        /\ \A a, b \in Actors : Fresh(a, c) /\ Fresh(b, c) => a = b
        /\ \A s, t \in Slots : InQueue(s, c) /\ InQueue(t, c) => s = t
        /\ \A o, p \in Owners : InExit(o, c) /\ InExit(p, c) => o = p
        /\ \A a \in Actors, s \in Slots : ~(Fresh(a, c) /\ InQueue(s, c))
        /\ \A a \in Actors, o \in Owners : ~(Fresh(a, c) /\ InExit(o, c))
        /\ \A s \in Slots, o \in Owners : ~(InQueue(s, c) /\ InExit(o, c))
        /\ runs[c] <= 1
        /\ runs[c] = 1 => /\ \A a \in Actors : ~Fresh(a, c)
                          /\ \A s \in Slots : ~InQueue(s, c)
                          /\ \A o \in Owners : ~InExit(o, c)

WorkerInv == Types /\ LeaseOK /\ PlaceOK /\ ServeOK /\ OnceOK

-----------------------------------------------------------------------------
(* Queues. *)

LEMMA AppendTo ==
  ASSUME NEW q \in Seq(Callers), NEW c \in Callers
  PROVE  /\ Append(q, c) \in Seq(Callers)
         /\ \A i \in DOMAIN Append(q, c) :
              Append(q, c)[i] = c \/ \E j \in DOMAIN q : q[j] = Append(q, c)[i]
         /\ IsInjective(q) /\ (\A i \in DOMAIN q : q[i] # c)
              => IsInjective(Append(q, c))
  BY DEF IsInjective

LEMMA TailOf ==
  ASSUME NEW q \in Seq(Callers), q # <<>>
  PROVE  /\ Head(q) \in Callers /\ Tail(q) \in Seq(Callers)
         /\ 1 \in DOMAIN q /\ q[1] = Head(q)
         /\ \A i \in DOMAIN Tail(q) : \E j \in DOMAIN q : q[j] = Tail(q)[i]
         /\ IsInjective(q) => /\ IsInjective(Tail(q))
                              /\ \A i \in DOMAIN Tail(q) : Tail(q)[i] # Head(q)
  BY DEF IsInjective

(* Removing one place of a sequence shifts what stands behind it.          *)
LEMMA RemoveAtFacts ==
  ASSUME NEW S, NEW s \in Seq(S), NEW i \in DOMAIN s
  PROVE  /\ RemoveAt(s, i) \in Seq(S)
         /\ Len(RemoveAt(s, i)) = Len(s) - 1
         /\ \A j \in 1..(Len(s) - 1) :
              RemoveAt(s, i)[j] = IF j < i THEN s[j] ELSE s[j + 1]
<1> DEFINE a == SubSeq(s, 1, i - 1)  b == SubSeq(s, i + 1, Len(s))
<1>1. i \in 1..Len(s) /\ Len(s) \in Nat
  BY LenProperties
<1>2. a \in Seq(S) /\ Len(a) = i - 1 /\ \A j \in 1..(i - 1) : a[j] = s[j]
  <2>1. \A j \in 1..(i - 1) : s[j] \in S
    BY <1>1, ElementOfSeq
  <2> QED BY <1>1, <2>1, SubSeqProperties, SMT
<1>3. b \in Seq(S) /\ Len(b) = Len(s) - i
      /\ \A j \in 1..(Len(s) - i) : b[j] = s[i + j]
  <2>1. \A j \in (i + 1)..Len(s) : s[j] \in S
    BY <1>1, ElementOfSeq
  <2> QED BY <1>1, <2>1, SubSeqProperties, SMT
<1>4. RemoveAt(s, i) = a \o b
  BY DEF RemoveAt
<1> HIDE DEF a, b
<1> DEFINE w == a \o b
<1>5. /\ w \in Seq(S) /\ Len(w) = Len(a) + Len(b)
      /\ \A j \in 1..(Len(a) + Len(b)) :
           w[j] = IF j <= Len(a) THEN a[j] ELSE b[j - Len(a)]
  BY <1>2, <1>3, ConcatProperties
<1>8. RemoveAt(s, i) = w
  BY <1>4
<1> HIDE DEF w
<1>6. w \in Seq(S) /\ Len(w) = Len(s) - 1
      /\ \A j \in 1..(Len(s) - 1) : w[j] = IF j < i THEN a[j] ELSE b[j - (i - 1)]
  <2>1. Len(a) + Len(b) = Len(s) - 1
    BY <1>1, <1>2, <1>3
  <2>2. w \in Seq(S) /\ Len(w) = Len(s) - 1
    BY <1>5, <2>1
  <2>3. ASSUME NEW j \in 1..(Len(s) - 1)
        PROVE  w[j] = IF j < i THEN a[j] ELSE b[j - (i - 1)]
    <3>1. w[j] = IF j <= Len(a) THEN a[j] ELSE b[j - Len(a)]
      BY <1>5, <2>1
    <3>2. Len(a) = i - 1 /\ (j <= i - 1 <=> j < i)
      BY <1>1, <1>2
    <3> QED BY <3>1, <3>2
  <2> QED BY <2>2, <2>3
<1>7. ASSUME NEW j \in 1..(Len(s) - 1)
      PROVE  w[j] = IF j < i THEN s[j] ELSE s[j + 1]
  <2>1. CASE j < i
    BY <1>1, <1>2, <1>6, <2>1
  <2>2. CASE ~(j < i)
    <3>1. j - (i - 1) \in 1..(Len(s) - i) /\ i + (j - (i - 1)) = j + 1
      BY <1>1, <2>2
    <3> QED BY <1>3, <1>6, <2>2, <3>1
  <2> QED BY <2>1, <2>2
<1> QED BY <1>6, <1>7, <1>8, Zenon

LEMMA WithoutOne ==
  ASSUME NEW q \in Seq(Callers), NEW c, IsInjective(q)
  PROVE  /\ RemoveFirst(q, c) \in Seq(Callers)
         /\ \A i \in DOMAIN RemoveFirst(q, c) :
              \E j \in DOMAIN q : q[j] = RemoveFirst(q, c)[i]
         /\ IsInjective(RemoveFirst(q, c))
  <1>1. CASE ~ \E i \in 1..Len(q) : q[i] = c
    BY <1>1 DEF RemoveFirst
  <1>2. CASE \E i \in 1..Len(q) : q[i] = c
    <2> DEFINE I == {i \in 1..Len(q) : q[i] = c}
               k == IF I # {} THEN CHOOSE x \in I : \A y \in I : x =< y ELSE 0
    <2>1. RemoveFirst(q, c) = RemoveAt(q, k)
      BY <1>2, Zenon DEF RemoveFirst, SelectInSeq, Min
    <2>2. k \in DOMAIN q
      <3>1. PICK n \in 1..Len(q) : q[n] = c
        BY <1>2
      <3>2. I = {n}
        BY <3>1 DEF IsInjective
      <3> QED
        BY <3>1, <3>2
    <2> HIDE DEF k
    <2> DEFINE r == RemoveAt(q, k)
    <2>3. /\ r \in Seq(Callers) /\ Len(r) = Len(q) - 1
          /\ \A j \in 1..(Len(q) - 1) : r[j] = IF j < k THEN q[j] ELSE q[j + 1]
      BY <2>2, RemoveAtFacts
    <2> HIDE DEF r
    <2>4. ASSUME NEW i \in DOMAIN r PROVE \E j \in DOMAIN q : q[j] = r[i]
      BY <2>2, <2>3
    <2>5. IsInjective(r)
      <3>1. ASSUME NEW i \in 1..(Len(q) - 1), NEW j \in 1..(Len(q) - 1),
                   r[i] = r[j]
            PROVE  i = j
        <4> DEFINE at(n) == IF n < k THEN n ELSE n + 1
        <4>1. at(i) \in DOMAIN q /\ at(j) \in DOMAIN q
          BY <2>2
        <4>2. r[i] = q[at(i)] /\ r[j] = q[at(j)]
          BY <2>3
        <4>3. at(i) = at(j)
          BY <3>1, <4>1, <4>2 DEF IsInjective
        <4> QED
          BY <4>3, <2>2
      <3> QED
        BY <2>3, <3>1 DEF IsInjective
    <2>6. RemoveFirst(q, c) = r
      BY <2>1 DEF r
    <2> QED
      BY <2>3, <2>4, <2>5, <2>6
  <1> QED
    BY <1>1, <1>2

-----------------------------------------------------------------------------
(* Types. *)

LEMMA WorkerInits == WorkerInit => WorkerInv
  <1> SUFFICES ASSUME WorkerInit PROVE WorkerInv
    OBVIOUS
  <1>1. Types
    BY WorkerAssumption DEF WorkerInit, Types, States, NoExit, Actors, Resumers,
      Starts, Out, CallerPcs, ResumerPcs, SlotType, LeaseType, CallType, ActType,
      ExitType, SweepType, CountType, SlotRec, ActRec, ExitRec
  <1>2. LeaseOK
    BY WorkerAssumption DEF WorkerInit, LeaseOK, ReservedFree, HasSlot,
      OwnReservation, LeaseIsHeld, Actors, LeaseExclusive, Holding, Under
  <1>3. PlaceOK
    BY DEF WorkerInit, PlaceOK, InQueue, InExit, NoExit, Busy, Actors
  <1>4. ServeOK
    BY DEF WorkerInit, ServeOK, Serving
  <1>5. OnceOK
    BY WorkerAssumption DEF WorkerInit, OnceOK, InQueue, InExit, NoExit,
      Fresh, IsInjective, Actors
  <1> QED
    BY <1>1, <1>2, <1>3, <1>4, <1>5 DEF WorkerInv

LEMMA Apart == Callers \cap Resumers = {} /\ Sweeper \notin Actors
  BY WorkerAssumption DEF Resumers, Starts, Actors

LEMMA GotoFacts ==
  ASSUME ActType, NEW a \in Actors, NEW pc \in CallerPcs \cup ResumerPcs,
         Goto(a, pc)
  PROVE  /\ act' \in [Actors -> ActRec]
         /\ act'[a].pc = pc /\ act'[a].call = act[a].call
         /\ \A b \in Actors \ {a} : act'[b] = act[b]
  <1> DEFINE r == [act[a] EXCEPT !.pc = pc, !.on = 0, !.left = {},
                                 !.serving = FALSE]
  <1>1. act[a] \in ActRec
    BY DEF ActType
  <1>2. r \in ActRec /\ r.pc = pc /\ r.call = act[a].call
    BY <1>1 DEF ActRec
  <1>3. act' = [act EXCEPT ![a] = r]
    BY DEF Goto
  <1> HIDE DEF r
  <1> QED
    BY <1>2, <1>3 DEF ActType

LEMMA SlotFacts ==
  ASSUME SlotType, NEW s \in Slots, NEW r \in SlotRec,
         slot' = [slot EXCEPT ![s] = r]
  PROVE  SlotType' /\ slot'[s] = r /\ \A t \in Slots \ {s} : slot'[t] = slot[t]
  BY DEF SlotType

LEMMA ExitFacts ==
  ASSUME ExitType, NEW o \in Owners, NEW r \in ExitRec,
         exit' = [exit EXCEPT ![o] = r]
  PROVE  /\ exit' \in [Owners -> ExitRec] /\ exit'[o] = r
         /\ \A p \in Owners \ {o} : exit'[p] = exit[p]
         /\ (r.pc # "none" => r.slot \in Slots) => ExitType'
  BY DEF ExitType

LEMMA ActKept ==
  ASSUME ActType, NEW a \in Actors, act' \in [Actors -> ActRec],
         \A b \in Actors \ {a} : act'[b] = act[b],
         act'[a].call = act[a].call \/ a \in Resumers,
         a \in Callers => act'[a].pc \in CallerPcs,
         a \in Resumers => act'[a].pc \in ResumerPcs
  PROVE  ActType'
  <1>1. ASSUME NEW c \in Callers PROVE act'[c].pc \in CallerPcs /\ act'[c].call = c
    BY Apart DEF ActType, Actors
  <1>2. ASSUME NEW r \in Resumers PROVE act'[r].pc \in ResumerPcs
    BY Apart DEF ActType, Actors
  <1> QED
    BY <1>1, <1>2 DEF ActType

-----------------------------------------------------------------------------
(* What a step has to show of each part that it does not disturb.             *)
LEMMA LeaseKept ==
  ASSUME WorkerInv, lease' = lease,
         \A s \in Slots : /\ slot'[s].lease = slot[s].lease
                          /\ slot'[s].reserved = slot[s].reserved,
         \A c \in Callers : /\ act'[c].pc \in Under <=> act[c].pc \in Under
                            /\ act'[c].pc = "attach" <=> act[c].pc = "attach"
  PROVE  LeaseOK'
  <1>1. ReservedFree'
    BY DEF WorkerInv, LeaseOK, ReservedFree
  <1>2. HasSlot'
    BY DEF WorkerInv, LeaseOK, HasSlot
  <1>3. OwnReservation'
    BY DEF WorkerInv, LeaseOK, OwnReservation, HasSlot
  <1>4. LeaseIsHeld'
    BY DEF WorkerInv, LeaseOK, LeaseIsHeld
  <1>5. \A c \in Callers : Holding(c)' => Holding(c) /\ lease[c].slot \in Slots
    BY DEF Holding, Under, WorkerInv, LeaseOK, HasSlot
  <1>6. LeaseExclusive'
    BY <1>5 DEF WorkerInv, LeaseOK, LeaseExclusive
  <1> QED
    BY <1>1, <1>2, <1>3, <1>4, <1>6 DEF LeaseOK

LEMMA ServeKept ==
  ASSUME WorkerInv,
         \A s \in Slots : slot'[s].inflight = slot[s].inflight,
         \A c \in Callers : Past(c) => lease'[c].slot = lease[c].slot,
         \A a \in Actors : Serving(a)' => Serving(a) /\ act'[a].call = act[a].call
  PROVE  ServeOK'
  <1>1. \A a \in Actors : Serving(a)' => /\ Serving(a) /\ SlotOf(a) \in Slots
                                         /\ lease'[act'[a].call].slot = SlotOf(a)
    BY DEF WorkerInv, PlaceOK, Serving, Busy, Past, SlotOf
  <1> QED
    BY <1>1 DEF WorkerInv, ServeOK, SlotOf

LEMMA OnceKept ==
  ASSUME WorkerInv, runs' = runs,
         \A a \in Actors, c \in Callers : Fresh(a, c)' => Fresh(a, c),
         \A s \in Slots, c \in Callers : InQueue(s, c)' => InQueue(s, c),
         \A o \in Owners, c \in Callers : InExit(o, c)' => InExit(o, c),
         \A s \in Slots : IsInjective(slot[s].pending)',
         \A o \in Owners : IsInjective(exit[o].pending)'
  PROVE  OnceOK'
  BY DEF WorkerInv, OnceOK

LEMMA PlaceKept ==
  ASSUME WorkerInv,
         \A c \in Callers : Past(c) => Past(c)',
         \A a \in Actors : act'[a].pc \in Busy =>
           \E c \in Callers : act'[a].call = c /\ Past(c)',
         \A s \in Slots, c \in Callers : InQueue(s, c)' => InQueue(s, c) \/ Past(c),
         \A o \in Owners, c \in Callers : InExit(o, c)' => InExit(o, c) \/ Past(c)
  PROVE  PlaceOK'
  <1>1. \A s \in Slots, c \in Callers : InQueue(s, c)' => Past(c)'
    BY DEF WorkerInv, PlaceOK
  <1>2. \A o \in Owners, c \in Callers : InExit(o, c)' => Past(c)'
    BY DEF WorkerInv, PlaceOK
  <1>3. \A a \in Actors : act'[a].pc \in Busy =>
           act'[a].call \in Callers /\ Past(act[a].call)'
    BY DEF Past
  <1> QED
    BY <1>1, <1>2, <1>3 DEF PlaceOK

-----------------------------------------------------------------------------
(* Steps that take no part in who holds what: they leave leases, goroutines   *)
(* and the worker's place alone, and at most empty a queue.                   *)
Aside ==
    /\ UNCHANGED <<lease, act, runs>>
    /\ \A s \in Slots :
        /\ slot'[s].lease = slot[s].lease /\ slot'[s].reserved = slot[s].reserved
        /\ slot'[s].inflight = slot[s].inflight
        /\ slot'[s].pending \in {slot[s].pending, <<>>}
    /\ \A o \in Owners : exit'[o].pending \in {exit[o].pending, <<>>}

LEMMA AsideKeeps ==
  ASSUME WorkerInv, Aside, Types'
  PROVE  WorkerInv'
  <1>1. LeaseOK'
    BY LeaseKept DEF Aside
  <1>2. /\ \A s \in Slots, c \in Callers : InQueue(s, c)' => InQueue(s, c)
        /\ \A o \in Owners, c \in Callers : InExit(o, c)' => InExit(o, c)
    BY DEF Aside, InQueue, InExit
  <1>3. \A a \in Actors, c \in Callers : Fresh(a, c)' <=> Fresh(a, c)
    BY DEF Aside, Fresh
  <1>4. PlaceOK'
    BY <1>2 DEF WorkerInv, Aside, PlaceOK, Past
  <1>5. ServeOK'
    BY ServeKept DEF Aside, Serving
  <1>6. /\ \A s \in Slots : IsInjective(slot[s].pending)'
        /\ \A o \in Owners : IsInjective(exit[o].pending)'
    BY DEF WorkerInv, Aside, OnceOK, IsInjective
  <1>7. OnceOK'
    BY <1>2, <1>3, <1>6 DEF WorkerInv, Aside, OnceOK
  <1> QED
    BY <1>1, <1>4, <1>5, <1>7 DEF WorkerInv

(* Steps of one goroutine that change its own place only, and neither begin   *)
(* nor end its right to a slot.                                               *)
Moves(a) ==
    /\ UNCHANGED <<slot, lease, runs>>
    /\ \A o \in Owners : exit'[o].pending = exit[o].pending
    /\ \A b \in Actors \ {a} : act'[b] = act[b]
    /\ act'[a].call = act[a].call
    /\ a \in Callers => \/ act[a].pc \in Under /\ act'[a].pc \in Under
                        \/ /\ act[a].pc \in Out \ {"done"}
                           /\ act'[a].pc \in Out
    /\ a \in Resumers /\ act'[a].pc \in Busy => act[a].pc \in Busy
    /\ act'[a].pc \in {"idle", "scan", "wait", "attach", "allow", "dispatch"}
         => act[a].pc \in {"idle", "scan", "wait", "attach", "allow", "dispatch"}
    /\ act'[a].pc \in {"run", "exit"} => act[a].pc \in {"run", "exit"}

LEMMA MovesKeeps ==
  ASSUME WorkerInv, NEW a \in Actors, Moves(a), Types'
  PROVE  WorkerInv'
  <1>1. \A c \in Callers : /\ act'[c].pc \in Under <=> act[c].pc \in Under
                           /\ act'[c].pc = "attach" <=> act[c].pc = "attach"
                           /\ act[c].pc = "done" => act'[c].pc = "done"
    BY DEF Moves, Under, Out, Actors
  <1>2. LeaseOK'
    BY <1>1, LeaseKept DEF Moves
  <1>3. /\ \A s \in Slots, c \in Callers : InQueue(s, c)' <=> InQueue(s, c)
        /\ \A o \in Owners, c \in Callers : InExit(o, c)' <=> InExit(o, c)
        /\ \A c \in Callers : Past(c) => Past(c)'
    BY <1>1 DEF Moves, InQueue, InExit, Past
  <1>4. ASSUME NEW b \in Actors, act'[b].pc \in Busy
        PROVE  act'[b].call \in Callers /\ Past(act[b].call)' /\ act'[b].call = act[b].call
    <2>1. act'[b].call = act[b].call
      BY DEF Moves
    <2>2. CASE act[b].pc \in Busy
      BY <1>3, <2>1, <2>2 DEF WorkerInv, PlaceOK
    <2>3. CASE act[b].pc \notin Busy
      <3>1. b = a /\ a \in Callers
        BY <1>4, <2>3 DEF Moves, Actors
      <3>2. act[a].pc \in Under /\ act'[a].pc \in Under
        BY <1>4, <3>1 DEF Moves, Busy, Out
      <3>3. act[a].call = a
        BY <3>1 DEF WorkerInv, Types, ActType
      <3> QED
        BY <2>1, <3>1, <3>2, <3>3 DEF WorkerInv, LeaseOK, HasSlot, Past, Moves
    <2> QED
      BY <2>2, <2>3
  <1>5. PlaceOK'
    BY <1>3, <1>4 DEF WorkerInv, PlaceOK
  <1>6. \A b \in Actors : Serving(b)' => Serving(b) /\ act'[b].call = act[b].call
    BY DEF Moves, Serving
  <1>7. ServeOK'
    BY <1>6, ServeKept DEF Moves
  <1>8. \A b \in Actors, c \in Callers : Fresh(b, c)' => Fresh(b, c)
    BY DEF Moves, Fresh
  <1>9. /\ \A s \in Slots : IsInjective(slot[s].pending)'
        /\ \A o \in Owners : IsInjective(exit[o].pending)'
    BY DEF WorkerInv, Moves, OnceOK, IsInjective
  <1>10. OnceOK'
    BY <1>3, <1>8, <1>9 DEF WorkerInv, Moves, OnceOK
  <1> QED
    BY <1>2, <1>5, <1>7, <1>10 DEF WorkerInv

-----------------------------------------------------------------------------
(* Acquire, and giving the slot back. *)

LEMMA AcquireKeeps ==
  ASSUME WorkerInv, NEW c \in Callers,
         \/ Acquire(c) \/ GiveUp(c) \/ Allow(c)
         \/ \E s \in Slots : PassSlot(c, s)
  PROVE  WorkerInv'
  <1> c \in Actors /\ ActType /\ act[c].pc \in CallerPcs /\ act[c] \in ActRec
    BY DEF Actors, WorkerInv, Types, ActType
  <1> DEFINE kept == UNCHANGED <<slot, lease, call, exit, sweep, starts, runs>>
  <1>1. CASE Acquire(c)
    <2> DEFINE r == IF act[c].pc = "idle" /\ Closed THEN [act[c] EXCEPT !.pc = "done"]
                    ELSE [act[c] EXCEPT !.pc = "scan", !.left = Slots]
    <2>1. r \in ActRec /\ r.call = act[c].call /\ r.pc \in {"done", "scan"}
      BY DEF ActRec, CallerPcs, Out
    <2>2. act' = [act EXCEPT ![c] = r]
      BY <1>1 DEF Acquire
    <2> HIDE DEF r
    <2>3. /\ act' \in [Actors -> ActRec] /\ act'[c] = r
          /\ \A b \in Actors \ {c} : act'[b] = act[b]
      BY <2>1, <2>2 DEF ActType
    <2>4. ActType'
      BY <2>1, <2>3, ActKept, Apart DEF CallerPcs, Out
    <2>5. kept /\ act[c].pc \in {"idle", "wait"}
      BY <1>1 DEF Acquire
    <2>6. Moves(c)
      BY <2>1, <2>3, <2>5, Apart DEF Moves, Out
    <2>7. Types'
      BY <2>4, <2>5
         DEF WorkerInv, Types, SlotType, LeaseType, CallType, ExitType, SweepType, CountType
    <2> QED
      BY <2>6, <2>7, MovesKeeps
  <1>2. CASE GiveUp(c)
    <2>1. Goto(c, "done") /\ kept /\ act[c].pc = "wait"
      BY <1>2 DEF GiveUp
    <2>2. /\ act' \in [Actors -> ActRec]
          /\ act'[c].pc = "done" /\ act'[c].call = act[c].call
          /\ \A b \in Actors \ {c} : act'[b] = act[b]
      BY <2>1, GotoFacts DEF CallerPcs, Out
    <2>3. ActType'
      BY <2>2, ActKept, Apart DEF CallerPcs, Out
    <2>4. Moves(c)
      BY <2>1, <2>2, Apart DEF Moves, Out
    <2>5. Types'
      BY <2>1, <2>3
         DEF WorkerInv, Types, SlotType, LeaseType, CallType, ExitType, SweepType, CountType
    <2> QED
      BY <2>4, <2>5, MovesKeeps
  <1>3. CASE Allow(c)
    <2>1. /\ kept /\ act[c].pc = "allow"
          /\ Goto(c, "dispatch") \/ Goto(c, "release")
      BY <1>3 DEF Allow
    <2>2. /\ act' \in [Actors -> ActRec]
          /\ act'[c].pc \in {"dispatch", "release"} /\ act'[c].call = act[c].call
          /\ \A b \in Actors \ {c} : act'[b] = act[b]
      BY <2>1, GotoFacts DEF CallerPcs, Under
    <2>3. ActType'
      BY <2>2, ActKept, Apart DEF CallerPcs, Under
    <2>4. Moves(c)
      BY <2>1, <2>2, Apart DEF Moves, Under
    <2>5. Types'
      BY <2>1, <2>3
         DEF WorkerInv, Types, SlotType, LeaseType, CallType, ExitType, SweepType, CountType
    <2> QED
      BY <2>4, <2>5, MovesKeeps
  <1>4. ASSUME NEW s \in Slots, PassSlot(c, s) PROVE WorkerInv'
    <2> DEFINE v == act[c].serving \/ ~slot[s].retired
               r == [act[c] EXCEPT !.left = act[c].left \ {s}, !.serving = v,
                       !.pc = IF act[c].left # {s} THEN "scan"
                              ELSE IF v THEN "wait" ELSE "done"]
    <2>1. r \in ActRec /\ r.call = act[c].call /\ r.pc \in {"scan", "wait", "done"}
      <3>1. v \in BOOLEAN /\ act[c].left \ {s} \in SUBSET Slots
        BY DEF ActRec
      <3> QED
        BY <3>1 DEF ActRec, CallerPcs, Out
    <2>2. act' = [act EXCEPT ![c] = r]
      BY <1>4 DEF PassSlot
    <2> HIDE DEF r
    <2>3. /\ act' \in [Actors -> ActRec] /\ act'[c] = r
          /\ \A b \in Actors \ {c} : act'[b] = act[b]
      BY <2>1, <2>2 DEF ActType
    <2>4. ActType'
      BY <2>1, <2>3, ActKept, Apart DEF CallerPcs, Out
    <2>5. kept /\ act[c].pc = "scan"
      BY <1>4 DEF PassSlot
    <2>6. Moves(c)
      BY <2>1, <2>3, <2>5, Apart DEF Moves, Out
    <2>7. Types'
      BY <2>4, <2>5
         DEF WorkerInv, Types, SlotType, LeaseType, CallType, ExitType, SweepType, CountType
    <2> QED
      BY <2>6, <2>7, MovesKeeps
  <1> QED
    BY <1>1, <1>2, <1>3, <1>4

(* What the attachment and the end of a lease leave alone.                    *)
LeaseOnly ==
    /\ \A t \in Slots : /\ slot'[t].inflight = slot[t].inflight
                         /\ slot'[t].pending = slot[t].pending
    /\ \A o \in Owners : exit'[o].pending = exit[o].pending
    /\ \A a \in Actors : /\ act'[a].call = act[a].call
                         /\ Fresh(a, act[a].call)' => Fresh(a, act[a].call)
                         /\ act'[a].pc \in Busy => act[a].pc \in Busy
                         /\ Serving(a)' => Serving(a)
    /\ \A d \in Callers :
               Past(d) => Past(d)' /\ lease'[d].slot = lease[d].slot
    /\ runs' = runs

LEMMA LeaseOnlyKeeps ==
  ASSUME WorkerInv, LeaseOnly
  PROVE  PlaceOK' /\ ServeOK' /\ OnceOK'
  <1>1. PlaceOK'
    <2>1. \A a \in Actors : act'[a].pc \in Busy =>
           \E d \in Callers : act'[a].call = d /\ Past(d)'
      BY DEF WorkerInv, PlaceOK, LeaseOnly
    <2> QED
      BY <2>1, PlaceKept DEF InQueue, InExit, LeaseOnly
  <1>2. ServeOK'
    BY ServeKept DEF LeaseOnly
  <1>3. OnceOK'
    <2>1. /\ \A t \in Slots : IsInjective(slot[t].pending)'
    /\ \A o \in Owners : IsInjective(exit[o].pending)'
      BY DEF WorkerInv, OnceOK, IsInjective, LeaseOnly
    <2>2. \A a \in Actors, d \in Callers : Fresh(a, d)' => Fresh(a, d)
      BY DEF LeaseOnly, Fresh
    <2> QED
      BY <2>1, <2>2, OnceKept DEF InQueue, InExit, LeaseOnly
  <1> QED
    BY <1>1, <1>2, <1>3

LEMMA TakeSlotKeeps ==
  ASSUME WorkerInv, NEW c \in Callers, NEW s \in Slots, TakeSlot(c, s)
  PROVE  WorkerInv'
  <1> c \in Actors /\ ActType /\ SlotType /\ LeaseType /\ slot[s] \in SlotRec
    BY DEF Actors, WorkerInv, Types, SlotType
  <1>1. /\ act[c].pc = "scan" /\ Goto(c, "attach") /\ Usable(s)
        /\ UNCHANGED <<call, exit, sweep, starts, runs>>
    BY DEF TakeSlot
  <1>2. /\ act' \in [Actors -> ActRec]
        /\ act'[c].pc = "attach" /\ act'[c].call = act[c].call
        /\ \A b \in Actors \ {c} : act'[b] = act[b]
    BY <1>1, GotoFacts DEF CallerPcs
  <1>3. SlotType' /\ /\ slot'[s] = [slot[s] EXCEPT !.reserved = TRUE]
                     /\ \A t \in Slots \ {s} : slot'[t] = slot[t]
    <2>1. [slot[s] EXCEPT !.reserved = TRUE] \in SlotRec
      BY DEF SlotRec
    <2> QED
      BY <2>1, SlotFacts DEF TakeSlot
  <1>4. LeaseType' /\ /\ lease'[c].slot = s
                      /\ \A d \in Callers \ {c} : lease'[d] = lease[d]
    BY DEF TakeSlot, LeaseType
  <1>5. Types'
    <2>1. ActType'
      BY <1>2, ActKept, Apart DEF CallerPcs
    <2> QED
      BY <1>1, <1>3, <1>4, <2>1 DEF WorkerInv, Types, CallType, ExitType, SweepType, CountType
  <1>6. /\ slot'[s].reserved /\ slot'[s].lease = None
        /\ slot'[s].inflight = slot[s].inflight /\ slot'[s].pending = slot[s].pending
        /\ ~slot[s].reserved
    BY <1>1, <1>3 DEF Usable, SlotRec
  <1>7. LeaseOK'
    <2>1. ReservedFree'
      BY <1>3, <1>6 DEF WorkerInv, LeaseOK, ReservedFree
    <2>2. HasSlot'
      BY <1>2, <1>4 DEF WorkerInv, LeaseOK, HasSlot, Actors
    <2>3. OwnReservation'
      <3>1. ASSUME NEW d \in Callers \ {c}, act'[d].pc = "attach"
            PROVE  /\ act[d].pc = "attach" /\ lease'[d].slot = lease[d].slot
                   /\ lease[d].slot \in Slots /\ lease[d].slot # s
                   /\ slot[lease[d].slot].reserved
        BY <1>2, <1>4, <1>6, <3>1
          DEF WorkerInv, LeaseOK, OwnReservation, HasSlot, Actors
      <3>2. ASSUME NEW d \in Callers, act'[d].pc = "attach"
            PROVE  slot'[lease'[d].slot].reserved
        <4>1. CASE d = c
          BY <1>4, <1>6, <4>1
        <4>2. CASE d # c
          BY <1>3, <3>1, <3>2, <4>2
        <4> QED
          BY <4>1, <4>2
      <3>3. \A d, e \in Callers :
              act'[d].pc = "attach" /\ act'[e].pc = "attach"
              /\ lease'[d].slot = lease'[e].slot => d = e
        BY <1>4, <3>1 DEF WorkerInv, LeaseOK, OwnReservation
      <3> QED
        BY <3>2, <3>3 DEF OwnReservation
    <2>4. LeaseIsHeld'
      <3>1. ASSUME NEW t \in Slots, NEW d \in Callers, slot'[t].lease = d
            PROVE  t # s /\ slot[t].lease = d
        BY <1>3, <1>6, <3>1, WorkerAssumption
      <3>2. ASSUME NEW t \in Slots, NEW d \in Callers, slot'[t].lease = d
            PROVE  d # c /\ act[d].pc \in Under /\ lease[d].slot = t
        BY <1>1, <3>1, <3>2 DEF WorkerInv, LeaseOK, LeaseIsHeld, Under
      <3> QED
        BY <1>2, <1>4, <3>2 DEF LeaseIsHeld, Actors
    <2>5. LeaseExclusive'
      <3>1. ASSUME NEW d \in Callers, Holding(d)'
            PROVE  /\ d # c /\ Holding(d) /\ lease'[d].slot = lease[d].slot
                   /\ lease[d].slot \in Slots
        BY <1>2, <1>4, <3>1 DEF Holding, WorkerInv, LeaseOK, HasSlot, Actors, Under
      <3>2. ASSUME NEW d \in Callers, Holding(d)'
            PROVE  slot'[lease'[d].slot].lease = d
        <4>1. slot[lease[d].slot].lease = d
          BY <3>1, <3>2 DEF WorkerInv, LeaseOK, LeaseExclusive
        <4>2. lease[d].slot # s
          BY <4>1, <1>1, WorkerAssumption DEF Usable
        <4> QED
          BY <1>3, <3>1, <3>2, <4>1, <4>2
      <3> QED
        BY <3>2 DEF LeaseExclusive
    <2> QED
      BY <2>1, <2>2, <2>3, <2>4, <2>5 DEF LeaseOK
  <1>8. /\ \A t \in Slots : /\ slot'[t].inflight = slot[t].inflight
                            /\ slot'[t].pending = slot[t].pending
        /\ \A d \in Callers : Past(d) => /\ Past(d)' /\ lease'[d].slot = lease[d].slot
        /\ \A a \in Actors : act'[a].call = act[a].call /\ (act'[a].pc = act[a].pc \/ a = c)
    BY <1>1, <1>2, <1>3, <1>4, <1>6 DEF Past, Under, Actors
  <1>9. LeaseOnly
    BY <1>1, <1>2, <1>8 DEF LeaseOnly, Fresh, Serving, Busy
  <1> QED
    BY <1>5, <1>7, <1>9, LeaseOnlyKeeps DEF WorkerInv

LEMMA AttachKeeps ==
  ASSUME WorkerInv, NEW c \in Callers, Attach(c)
  PROVE  WorkerInv'
  <1> DEFINE s == lease[c].slot
  <1>0. act[c].pc = "attach" /\ s \in Slots
    BY DEF Attach, WorkerInv, LeaseOK, HasSlot
  <1> c \in Actors /\ ActType /\ SlotType /\ slot[s] \in SlotRec
    BY <1>0 DEF Actors, WorkerInv, Types, SlotType
  <1>1. UNCHANGED <<lease, call, exit, sweep, starts, runs>>
    BY DEF Attach
  <1>2. /\ Goto(c, "allow") \/ Goto(c, "done")
        /\ Goto(c, "allow") \/ slot' = [slot EXCEPT ![s].reserved = FALSE]
        /\ Goto(c, "done") \/ slot' = [slot EXCEPT ![s].reserved = FALSE, ![s].lease = c]
    BY DEF Attach
  <1>3. /\ act' \in [Actors -> ActRec]
        /\ act'[c].pc \in {"allow", "done"} /\ act'[c].call = act[c].call
        /\ \A b \in Actors \ {c} : act'[b] = act[b]
    BY <1>2, GotoFacts DEF CallerPcs, Out, Under
  <1>4. ActType'
    BY <1>3, ActKept, Apart DEF CallerPcs, Out, Under
  <1>5. /\ SlotType'
        /\ slot'[s].inflight = slot[s].inflight /\ slot'[s].pending = slot[s].pending
        /\ ~slot'[s].reserved
        /\ \/ slot'[s].lease = slot[s].lease /\ act'[c].pc = "done"
           \/ slot'[s].lease = c /\ act'[c].pc = "allow"
        /\ \A t \in Slots \ {s} : slot'[t] = slot[t]
    <2>1. CASE Goto(c, "done") /\ slot' = [slot EXCEPT ![s].reserved = FALSE]
      <3> DEFINE r == [slot[s] EXCEPT !.reserved = FALSE]
      <3>1. /\ r \in SlotRec /\ ~r.reserved /\ r.lease = slot[s].lease
            /\ r.inflight = slot[s].inflight /\ r.pending = slot[s].pending
        BY DEF SlotRec
      <3>2. slot' = [slot EXCEPT ![s] = r]
        BY <2>1
      <3>3. act'[c].pc = "done"
        BY <2>1, GotoFacts DEF CallerPcs, Out
      <3> HIDE DEF r
      <3> QED
        BY <1>0, <3>1, <3>2, <3>3, SlotFacts
    <2>2. CASE Goto(c, "allow") /\ slot' = [slot EXCEPT ![s].reserved = FALSE, ![s].lease = c]
      <3> DEFINE r == [slot[s] EXCEPT !.reserved = FALSE, !.lease = c]
      <3>1. /\ r \in SlotRec /\ ~r.reserved /\ r.lease = c
            /\ r.inflight = slot[s].inflight /\ r.pending = slot[s].pending
        BY DEF SlotRec
      <3>2. slot' = [slot EXCEPT ![s] = r]
        BY <2>2
      <3>3. act'[c].pc = "allow"
        BY <2>2, GotoFacts DEF CallerPcs, Under
      <3> HIDE DEF r
      <3> QED
        BY <1>0, <3>1, <3>2, <3>3, SlotFacts
    <2> QED
      BY <2>1, <2>2 DEF Attach
  <1>6. Types'
    BY <1>1, <1>4, <1>5 DEF WorkerInv, Types, LeaseType, CallType, ExitType, SweepType, CountType
  <1>7. slot[s].reserved /\ slot[s].lease = None
    BY <1>0 DEF WorkerInv, LeaseOK, OwnReservation, ReservedFree
  <1>8. LeaseOK'
    <2>1. ReservedFree'
      BY <1>5 DEF WorkerInv, LeaseOK, ReservedFree
    <2>2. HasSlot'
      BY <1>0, <1>1, <1>3 DEF WorkerInv, LeaseOK, HasSlot, Actors
    <2>3. OwnReservation'
      <3>1. ASSUME NEW d \in Callers, act'[d].pc = "attach"
            PROVE  /\ act[d].pc = "attach" /\ lease[d].slot \in Slots
                   /\ lease[d].slot # s
        BY <1>0, <1>3, <3>1 DEF WorkerInv, LeaseOK, OwnReservation, HasSlot, Actors
      <3> QED
        BY <1>1, <1>5, <3>1 DEF WorkerInv, LeaseOK, OwnReservation
    <2>4. LeaseIsHeld'
      <3>1. ASSUME NEW t \in Slots, NEW d \in Callers, slot'[t].lease = d
            PROVE  \/ d = c /\ t = s /\ act'[c].pc = "allow"
                   \/ d # c /\ act[d].pc \in Under /\ lease[d].slot = t
        BY <1>0, <1>5, <1>7, <3>1, WorkerAssumption
          DEF WorkerInv, LeaseOK, LeaseIsHeld, Under
      <3> QED
        BY <1>1, <1>3, <3>1 DEF LeaseIsHeld, Actors, Under
    <2>5. LeaseExclusive'
      <3>1. ASSUME NEW d \in Callers \ {c}, Holding(d)'
            PROVE  slot'[lease'[d].slot].lease = d
        <4>1. Holding(d) /\ lease[d].slot \in Slots
          BY <1>1, <1>3, <3>1 DEF Holding, WorkerInv, LeaseOK, HasSlot, Actors, Under
        <4>2. slot[lease[d].slot].lease = d
          BY <4>1 DEF WorkerInv, LeaseOK, LeaseExclusive
        <4> QED
          BY <1>1, <1>5, <1>7, <4>1, <4>2, WorkerAssumption
      <3>2. Holding(c)' => slot'[lease'[c].slot].lease = c
        BY <1>1, <1>5 DEF Holding
      <3> QED
        BY <3>1, <3>2 DEF LeaseExclusive
    <2> QED
      BY <2>1, <2>2, <2>3, <2>4, <2>5 DEF LeaseOK
  <1>9. LeaseOnly
    <2>1. \A t \in Slots : /\ slot'[t].inflight = slot[t].inflight
                           /\ slot'[t].pending = slot[t].pending
      BY <1>5
    <2>2. \A d \in Callers : Past(d) => Past(d)' /\ lease'[d].slot = lease[d].slot
      BY <1>0, <1>1, <1>3 DEF Past, Under, Actors
    <2> QED
      BY <1>0, <1>1, <1>3, <2>1, <2>2 DEF LeaseOnly, Fresh, Serving, Busy
  <1> QED
    BY <1>6, <1>8, <1>9, LeaseOnlyKeeps DEF WorkerInv

(* A step that ends leases: whose slot is freed has lost the lease before.    *)
LEMMA LeasesEnded ==
  ASSUME WorkerInv,
         \A s \in Slots : /\ slot'[s].lease \in {slot[s].lease, None}
                          /\ slot'[s].reserved = slot[s].reserved,
         \A d \in Callers : /\ lease'[d].slot = lease[d].slot
                            /\ Holding(d)' => Holding(d)
                            /\ act'[d].pc = "attach" => act[d].pc = "attach"
                            /\ act'[d].pc \in Under => act[d].pc \in Under,
         \A s \in Slots, d \in Callers : slot[s].lease = d =>
           \/ slot'[s].lease = d /\ act'[d].pc \in Under
           \/ slot'[s].lease = None /\ ~Holding(d)'
  PROVE  LeaseOK'
  <1>1. ReservedFree'
    BY DEF WorkerInv, LeaseOK, ReservedFree
  <1>2. HasSlot'
    BY DEF WorkerInv, LeaseOK, HasSlot
  <1>3. OwnReservation'
    BY DEF WorkerInv, LeaseOK, OwnReservation, HasSlot
  <1>4. LeaseIsHeld'
    BY WorkerAssumption DEF WorkerInv, LeaseOK, LeaseIsHeld
  <1>5. LeaseExclusive'
    <2>1. ASSUME NEW d \in Callers, Holding(d)'
          PROVE  slot'[lease'[d].slot].lease = d
      <3>1. Holding(d) /\ lease[d].slot \in Slots
        BY <2>1 DEF Holding, WorkerInv, LeaseOK, HasSlot, Under
      <3>2. slot[lease[d].slot].lease = d
        BY <3>1 DEF WorkerInv, LeaseOK, LeaseExclusive
      <3> QED
        BY <2>1, <3>1, <3>2
    <2> QED
      BY <2>1 DEF LeaseExclusive
  <1> QED
    BY <1>1, <1>2, <1>3, <1>4, <1>5 DEF LeaseOK

LEMMA FreeSlotFacts ==
  ASSUME SlotType, NEW c \in Callers, FreeSlot(c)
  PROVE  /\ SlotType'
         /\ \A t \in Slots :
              /\ slot'[t].inflight = slot[t].inflight
              /\ slot'[t].pending = slot[t].pending
              /\ slot'[t].reserved = slot[t].reserved
              /\ slot'[t].lease =
                   IF t = lease[c].slot /\ slot[t].lease = c THEN None
                   ELSE slot[t].lease
  <1> DEFINE s == lease[c].slot
             r == [slot[s] EXCEPT !.lease = None]
  <1>1. CASE s \in Slots /\ slot[s].lease = c
    <2>1. slot[s] \in SlotRec
      BY <1>1 DEF SlotType
    <2>2. /\ r \in SlotRec /\ r.lease = None /\ r.inflight = slot[s].inflight
          /\ r.pending = slot[s].pending /\ r.reserved = slot[s].reserved
      BY <2>1 DEF SlotRec
    <2>3. slot' = [slot EXCEPT ![s] = r]
      BY <1>1 DEF FreeSlot
    <2> HIDE DEF r
    <2>4. SlotType' /\ slot'[s] = r /\ \A t \in Slots \ {s} : slot'[t] = slot[t]
      BY <1>1, <2>2, <2>3, SlotFacts
    <2> QED
      BY <1>1, <2>2, <2>4
  <1>2. CASE ~(s \in Slots /\ slot[s].lease = c)
    <2>1. slot' = slot
      BY <1>2 DEF FreeSlot, SlotType
    <2> QED
      BY <1>2, <2>1 DEF SlotType
  <1> QED
    BY <1>1, <1>2

LEMMA ReleaseKeeps ==
  ASSUME WorkerInv, NEW c \in Callers, Release(c)
  PROVE  WorkerInv'
  <1> c \in Actors /\ ActType /\ SlotType /\ LeaseType
    BY DEF Actors, WorkerInv, Types
  <1>1. /\ act[c].pc = "release" /\ Goto(c, "done") /\ FreeSlot(c)
        /\ UNCHANGED <<call, exit, sweep, starts, runs>>
    BY DEF Release
  <1>2. /\ act' \in [Actors -> ActRec]
        /\ act'[c].pc = "done" /\ act'[c].call = act[c].call
        /\ \A b \in Actors \ {c} : act'[b] = act[b]
    BY <1>1, GotoFacts DEF CallerPcs, Out
  <1>3. LeaseType' /\ \A d \in Callers : /\ lease'[d].slot = lease[d].slot
                                         /\ lease'[d].expired = lease[d].expired
                                         /\ d # c => lease'[d] = lease[d]
    BY DEF Release, LeaseType
  <1>4. Types'
    <2>1. ActType'
      BY <1>2, ActKept, Apart DEF CallerPcs, Out
    <2> QED
      BY <1>1, <1>3, <2>1, FreeSlotFacts
        DEF WorkerInv, Types, CallType, ExitType, SweepType, CountType
  <1>5. LeaseOK'
    <2>1. \A d \in Callers : /\ Holding(d)' => Holding(d) /\ d # c
                             /\ act'[d].pc = "attach" => act[d].pc = "attach"
                             /\ act'[d].pc \in Under => act[d].pc \in Under
                             /\ d # c => act'[d].pc = act[d].pc
      BY <1>2, <1>3 DEF Holding, Under, Actors
    <2>2. \A s \in Slots, d \in Callers : slot[s].lease = d =>
            act[d].pc \in Under /\ lease[d].slot = s
      BY DEF WorkerInv, LeaseOK, LeaseIsHeld
    <2>3. \A s \in Slots, d \in Callers : slot[s].lease = d =>
           \/ slot'[s].lease = d /\ act'[d].pc \in Under
           \/ slot'[s].lease = None /\ ~Holding(d)'
      BY <1>1, <2>1, <2>2, FreeSlotFacts
    <2>4. \A s \in Slots : /\ slot'[s].lease \in {slot[s].lease, None}
                           /\ slot'[s].reserved = slot[s].reserved
      BY <1>1, FreeSlotFacts
    <2> QED
      BY <1>3, <2>1, <2>3, <2>4, LeasesEnded
  <1>6. LeaseOnly
    <2>1. \A t \in Slots : /\ slot'[t].inflight = slot[t].inflight
                           /\ slot'[t].pending = slot[t].pending
      BY <1>1, FreeSlotFacts
    <2>2. \A d \in Callers : Past(d) => Past(d)' /\ lease'[d].slot = lease[d].slot
      BY <1>1, <1>2, <1>3 DEF Past, Under, Actors
    <2> QED
      BY <1>1, <1>2, <2>1, <2>2 DEF LeaseOnly, Fresh, Serving, Busy
  <1> QED
    BY <1>4, <1>5, <1>6, LeaseOnlyKeeps DEF WorkerInv

LEMMA ExpireFacts ==
  ASSUME LeaseType, CallType, NEW c \in Callers, Expire(c)
  PROVE  /\ LeaseType' /\ CallType' /\ lease'[c].expired
         /\ \A d \in Callers : /\ lease'[d].slot = lease[d].slot
                               /\ lease'[d].released = lease[d].released
                               /\ lease[d].expired => lease'[d].expired
  <1>1. LeaseType' /\ /\ lease'[c] = [lease[c] EXCEPT !.expired = TRUE]
                      /\ \A d \in Callers \ {c} : lease'[d] = lease[d]
    BY DEF Expire, LeaseType
  <1>2. CallType'
    BY DEF Expire, CallType
  <1>3. lease[c] \in [slot : Slots \cup {None}, expired : BOOLEAN, released : BOOLEAN]
    BY DEF LeaseType
  <1>4. /\ lease'[c].expired /\ lease'[c].slot = lease[c].slot
        /\ lease'[c].released = lease[c].released
    BY <1>1, <1>3
  <1> QED
    BY <1>1, <1>2, <1>4

LEMMA RevokeKeeps ==
  ASSUME WorkerInv, NEW o \in Owners, Revoke(o)
  PROVE  WorkerInv'
  <1> DEFINE c == exit[o].lease
  <1> ActType /\ SlotType /\ LeaseType /\ CallType /\ ExitType /\ exit[o] \in ExitRec
    BY DEF WorkerInv, Types, ExitType
  <1>1. /\ UNCHANGED <<act, sweep, starts, runs>>
        /\ c \in Callers \cup {None}
        /\ \/ c = None /\ UNCHANGED <<lease, call, slot>>
           \/ c # None /\ Expire(c) /\ FreeSlot(c)
    BY DEF Revoke, ExitRec
  <1>2. ExitType' /\ \A p \in Owners : exit'[p].pending = exit[p].pending
    <2> DEFINE r == [exit[o] EXCEPT !.pc = IF exit[o].pc = "evict" THEN "kill" ELSE "cleanup"]
    <2>1. r \in ExitRec /\ r.pending = exit[o].pending /\ r.slot = exit[o].slot
      BY DEF ExitRec
    <2>2. exit[o].slot \in Slots
      BY DEF Revoke, ExitType
    <2>3. exit' = [exit EXCEPT ![o] = r]
      BY DEF Revoke
    <2> HIDE DEF r
    <2> QED
      BY <2>1, <2>2, <2>3, ExitFacts
  <1>3. CASE c = None
    <2>1. Aside
      BY <1>1, <1>2, <1>3 DEF Aside
    <2>2. Types'
      BY <1>1, <1>2, <1>3, WorkerAssumption
        DEF WorkerInv, Types, ActType, SlotType, LeaseType, CallType, SweepType, CountType
    <2> QED
      BY <2>1, <2>2, AsideKeeps
  <1>4. CASE c # None
    <2> c \in Callers /\ Expire(c) /\ FreeSlot(c)
      BY <1>1, <1>4
    <2>1. Types'
      BY <1>1, <1>2, ExpireFacts, FreeSlotFacts
        DEF WorkerInv, Types, ActType, SweepType, CountType
    <2>2. LeaseOK'
      <3>1. \A d \in Callers : /\ Holding(d)' => Holding(d) /\ d # c
                               /\ act'[d].pc = act[d].pc
        BY <1>1, ExpireFacts DEF Holding
      <3>2. \A s \in Slots, d \in Callers : slot[s].lease = d => act[d].pc \in Under
        BY DEF WorkerInv, LeaseOK, LeaseIsHeld
      <3>3. \A s \in Slots, d \in Callers : slot[s].lease = d =>
             \/ slot'[s].lease = d /\ act'[d].pc \in Under
             \/ slot'[s].lease = None /\ ~Holding(d)'
        BY <3>1, <3>2, FreeSlotFacts
      <3>4. \A s \in Slots : /\ slot'[s].lease \in {slot[s].lease, None}
                             /\ slot'[s].reserved = slot[s].reserved
        BY FreeSlotFacts
      <3>5. \A d \in Callers : lease'[d].slot = lease[d].slot
        BY ExpireFacts
      <3> QED
        BY <3>1, <3>3, <3>4, <3>5, LeasesEnded
    <2>3. LeaseOnly
      <3>1. \A t \in Slots : /\ slot'[t].inflight = slot[t].inflight
                             /\ slot'[t].pending = slot[t].pending
        BY FreeSlotFacts
      <3>2. \A d \in Callers : Past(d) => Past(d)' /\ lease'[d].slot = lease[d].slot
        BY <1>1, ExpireFacts DEF Past
      <3> QED
        BY <1>1, <1>2, <3>1, <3>2 DEF LeaseOnly, Fresh, Serving
    <2> QED
      BY <2>1, <2>2, <2>3, LeaseOnlyKeeps DEF WorkerInv
  <1> QED
    BY <1>3, <1>4

LEMMA StopDrainKeeps ==
  ASSUME WorkerInv, NEW s \in Slots, StopDrain(s)
  PROVE  WorkerInv'
  <1> DEFINE c == slot[s].lease
             r == [slot[s] EXCEPT !.state = "draining"]
  <1> SlotType /\ LeaseType /\ CallType /\ slot[s] \in SlotRec
    BY DEF WorkerInv, Types, SlotType
  <1>1. /\ UNCHANGED <<act, exit, sweep, starts, runs>>
        /\ c \in Callers \cup {None} /\ slot' = [slot EXCEPT ![s] = r]
        /\ \/ c = None /\ UNCHANGED <<lease, call>>
           \/ c # None /\ Expire(c)
    BY DEF StopDrain, SlotRec
  <1>2. /\ r \in SlotRec /\ r.lease = slot[s].lease /\ r.inflight = slot[s].inflight
        /\ r.pending = slot[s].pending /\ r.reserved = slot[s].reserved
    BY DEF SlotRec, States
  <1> HIDE DEF r
  <1>3. SlotType' /\ \A t \in Slots : /\ slot'[t].inflight = slot[t].inflight
                                      /\ slot'[t].pending = slot[t].pending
                                      /\ slot'[t].reserved = slot[t].reserved
                                      /\ slot'[t].lease = slot[t].lease
    BY <1>1, <1>2, SlotFacts
  <1>4. /\ LeaseType' /\ CallType'
        /\ \A d \in Callers : /\ lease'[d].slot = lease[d].slot
                              /\ Holding(d)' => Holding(d)
    <2>1. CASE c = None
      BY <1>1, <2>1, WorkerAssumption DEF LeaseType, CallType, Holding
    <2>2. CASE c # None
      BY <1>1, <2>2, ExpireFacts DEF Holding
    <2> QED
      BY <2>1, <2>2
  <1>5. Types'
    BY <1>1, <1>3, <1>4 DEF WorkerInv, Types, ActType, ExitType, SweepType, CountType
  <1>6. LeaseOK'
    <2>1. \A t \in Slots, d \in Callers : slot[t].lease = d => act[d].pc \in Under
      BY DEF WorkerInv, LeaseOK, LeaseIsHeld
    <2> QED
      BY <1>1, <1>3, <1>4, <2>1, LeasesEnded
  <1>7. LeaseOnly
    BY <1>1, <1>3, <1>4 DEF LeaseOnly, Fresh, Serving, Past
  <1> QED
    BY <1>5, <1>6, <1>7, LeaseOnlyKeeps DEF WorkerInv

-----------------------------------------------------------------------------
(* Dispatch: a call goes to the worker, or to the queue of its slot. *)

(* Whoever dispatches a call knows its slot.                                  *)
LEMMA BusyFacts ==
  ASSUME WorkerInv, NEW a \in Actors, act[a].pc \in Busy
  PROVE  /\ act[a].call \in Callers /\ SlotOf(a) \in Slots /\ Past(act[a].call)
         /\ slot[SlotOf(a)] \in SlotRec /\ act[a] \in ActRec
         /\ a \in Callers => act[a].call = a
  BY DEF WorkerInv, PlaceOK, Past, SlotOf, Types, SlotType, ActType

(* What Over does: the caller is sent on to give its lease back, the resumer  *)
(* to the next call.                                                          *)
LEMMA OverFacts ==
  ASSUME WorkerInv, NEW a \in Actors, act[a].pc \in Busy, Over(a)
  PROVE  /\ ActType' /\ CallType'
         /\ act'[a].pc \in {"release", "next"} /\ act'[a].call = act[a].call
         /\ a \in Callers => act'[a].pc = "release"
         /\ \A b \in Actors \ {a} : act'[b] = act[b]
  <1> ActType /\ CallType
    BY DEF WorkerInv, Types
  <1>1. CASE a \in Callers
    <2>1. Goto(a, "release") /\ UNCHANGED call
      BY <1>1 DEF Over
    <2>2. /\ act' \in [Actors -> ActRec]
          /\ act'[a].pc = "release" /\ act'[a].call = act[a].call
          /\ \A b \in Actors \ {a} : act'[b] = act[b]
      BY <2>1, GotoFacts DEF CallerPcs, Under
    <2>3. ActType'
      BY <1>1, <2>2, ActKept, Apart DEF CallerPcs, Under
    <2> QED
      BY <2>1, <2>2, <2>3 DEF CallType
  <1>2. CASE a \notin Callers
    <2>1. Goto(a, "next") /\ call' = [call EXCEPT ![act[a].call].done = TRUE]
      BY <1>2 DEF Over
    <2>2. /\ act' \in [Actors -> ActRec]
          /\ act'[a].pc = "next" /\ act'[a].call = act[a].call
          /\ \A b \in Actors \ {a} : act'[b] = act[b]
      BY <2>1, GotoFacts DEF ResumerPcs
    <2>3. ActType'
      BY <1>2, <2>2, ActKept DEF ResumerPcs
    <2>4. CallType'
      BY <2>1 DEF CallType
    <2> QED
      BY <1>2, <2>2, <2>3, <2>4
  <1> QED
    BY <1>1, <1>2

LEMMA RefuseKeeps ==
  ASSUME WorkerInv, NEW a \in Actors, Refuse(a) \/ Answered(a)
  PROVE  WorkerInv'
  <1>1. /\ act[a].pc \in {"dispatch", "queued"} /\ Over(a)
        /\ UNCHANGED <<slot, lease, exit, sweep, starts, runs>>
    BY DEF Refuse, Answered
  <1>2. /\ ActType' /\ CallType'
        /\ act'[a].pc \in {"release", "next"} /\ act'[a].call = act[a].call
        /\ a \in Callers => act'[a].pc = "release"
        /\ \A b \in Actors \ {a} : act'[b] = act[b]
    BY <1>1, OverFacts DEF Busy
  <1>3. Types'
    BY <1>1, <1>2 DEF WorkerInv, Types, SlotType, LeaseType, ExitType, SweepType, CountType
  <1>4. Moves(a)
    BY <1>1, <1>2 DEF Moves, Under, Busy
  <1> QED
    BY <1>3, <1>4, MovesKeeps

(* A step of one dispatch: the leases stay, the caller under one keeps it.    *)
LEMMA LeaseWhileBusy ==
  ASSUME WorkerInv, NEW a \in Actors, act[a].pc \in Busy, lease' = lease,
         a \in Callers => act'[a].pc \in Under,
         \A b \in Actors \ {a} : act'[b] = act[b],
         \A t \in Slots : /\ slot'[t].lease = slot[t].lease
                          /\ slot'[t].reserved = slot[t].reserved
  PROVE  LeaseOK' /\ \A c \in Callers : Past(c) => Past(c)'
  <1>1. \A c \in Callers : /\ act'[c].pc \in Under <=> act[c].pc \in Under
                           /\ act'[c].pc = "attach" <=> act[c].pc = "attach"
                           /\ act'[c].pc = "done" <=> act[c].pc = "done"
    BY DEF Under, Busy, Actors
  <1> QED
    BY <1>1, LeaseKept DEF Past

LEMMA JoinQueueKeeps ==
  ASSUME WorkerInv, NEW a \in Actors, JoinQueue(a)
  PROVE  WorkerInv'
  <1> DEFINE s == SlotOf(a)
             c == act[a].call
             q == slot[s].pending
             r == [slot[s] EXCEPT !.pending = Append(slot[s].pending, act[a].call)]
  <1>1. /\ act[a].pc = "dispatch" /\ Goto(a, "queued") /\ slot' = [slot EXCEPT ![s] = r]
        /\ UNCHANGED <<lease, call, exit, sweep, starts, runs>>
    BY DEF JoinQueue
  <1> SlotType /\ ActType
    BY DEF WorkerInv, Types
  <1>2. /\ c \in Callers /\ s \in Slots /\ Past(c) /\ slot[s] \in SlotRec
        /\ q \in Seq(Callers)
    BY <1>1, BusyFacts DEF Busy, SlotRec
  <1>3. /\ r \in SlotRec /\ r.lease = slot[s].lease /\ r.inflight = slot[s].inflight
        /\ r.pending = Append(q, c) /\ r.reserved = slot[s].reserved
    BY <1>2, AppendTo DEF SlotRec
  <1> HIDE DEF r
  <1>4. SlotType' /\ slot'[s] = r /\ \A t \in Slots \ {s} : slot'[t] = slot[t]
    BY <1>1, <1>2, <1>3, SlotFacts
  <1>5. /\ act' \in [Actors -> ActRec]
        /\ act'[a].pc = "queued" /\ act'[a].call = act[a].call
        /\ \A b \in Actors \ {a} : act'[b] = act[b]
    BY <1>1, GotoFacts DEF ResumerPcs
  <1>6. Types'
    <2>1. ActType'
      BY <1>5, ActKept DEF CallerPcs, Under, ResumerPcs
    <2> QED
      BY <1>1, <1>4, <2>1 DEF WorkerInv, Types, LeaseType, CallType, ExitType, SweepType, CountType
  <1>7. LeaseOK' /\ \A d \in Callers : Past(d) => Past(d)'
    <2>1. \A t \in Slots : /\ slot'[t].lease = slot[t].lease
                           /\ slot'[t].reserved = slot[t].reserved
      BY <1>3, <1>4
    <2> QED
      BY <1>1, <1>5, <2>1, LeaseWhileBusy DEF Busy, Under
  <1>8. \A t \in Slots, d \in Callers : InQueue(t, d)' => InQueue(t, d) \/ (t = s /\ d = c)
    <2>1. slot'[s].pending = Append(q, c)
      BY <1>3, <1>4
    <2>2. ASSUME NEW t \in Slots, NEW d \in Callers, t = s, InQueue(t, d)'
          PROVE  InQueue(t, d) \/ d = c
      <3>1. PICK i \in DOMAIN Append(q, c) : Append(q, c)[i] = d
        BY <2>1, <2>2 DEF InQueue
      <3>2. d = c \/ \E j \in DOMAIN q : q[j] = d
        BY <1>2, <3>1, AppendTo
      <3> QED
        BY <2>2, <3>2 DEF InQueue
    <2>3. \A t \in Slots, d \in Callers : t # s /\ InQueue(t, d)' => InQueue(t, d)
      BY <1>4 DEF InQueue
    <2> QED
      BY <2>2, <2>3
  <1>9. PlaceOK'
    <2>1. \A b \in Actors : act'[b].pc \in Busy =>
            \E d \in Callers : act'[b].call = d /\ Past(d)'
      BY <1>1, <1>2, <1>5, <1>7 DEF WorkerInv, PlaceOK, Busy
    <2> QED
      BY <1>1, <1>2, <1>7, <1>8, <2>1, PlaceKept DEF InExit
  <1>10. ServeOK'
    <2>1. \A t \in Slots : slot'[t].inflight = slot[t].inflight
      BY <1>3, <1>4
    <2> QED
      BY <1>1, <1>5, <2>1, ServeKept DEF Serving
  <1>11. OnceOK'
    <2>1. Fresh(a, c) /\ \A b \in Actors, d \in Callers :
                            Fresh(b, d)' => Fresh(b, d) /\ (d = c => FALSE)
      <3>1. Fresh(a, c)
        BY <1>1 DEF Fresh
      <3>2. ASSUME NEW b \in Actors, NEW d \in Callers, Fresh(b, d)'
            PROVE  b # a /\ Fresh(b, d)
        BY <1>5, <3>2 DEF Fresh
      <3> QED
        BY <1>2, <3>1, <3>2 DEF WorkerInv, OnceOK
    <2>2. \A o \in Owners, d \in Callers : InExit(o, d)' <=> InExit(o, d)
      BY <1>1 DEF InExit
    <2>3. /\ \A t \in Slots : ~InQueue(t, c)
          /\ \A o \in Owners : ~InExit(o, c)
          /\ runs[c] # 1
      BY <1>2, <2>1 DEF WorkerInv, OnceOK
    <2>4. \A t \in Slots : IsInjective(slot[t].pending)'
      <3>1. IsInjective(q) /\ \A i \in DOMAIN q : q[i] # c
        BY <1>2, <2>3 DEF WorkerInv, OnceOK, InQueue
      <3>2. IsInjective(Append(q, c))
        BY <1>2, <3>1, AppendTo
      <3>3. IsInjective(slot'[s].pending)
        BY <1>3, <1>4, <3>2
      <3>4. \A t \in Slots \ {s} : IsInjective(slot'[t].pending)
        BY <1>4 DEF WorkerInv, OnceOK
      <3> QED
        BY <3>3, <3>4 DEF IsInjective
    <2>5. \A o \in Owners : IsInjective(exit[o].pending)'
      BY <1>1 DEF WorkerInv, OnceOK, IsInjective
    <2> QED
      BY <1>1, <1>2, <1>8, <2>1, <2>2, <2>3, <2>4, <2>5 DEF WorkerInv, OnceOK
  <1> QED
    BY <1>6, <1>7, <1>9, <1>10, <1>11 DEF WorkerInv

LEMMA RunKeeps ==
  ASSUME WorkerInv, NEW a \in Actors, Run(a)
  PROVE  WorkerInv'
  <1> DEFINE s == SlotOf(a)
             c == act[a].call
             r == [slot[s] EXCEPT !.inflight = slot[s].inflight + 1]
             w == [act[a] EXCEPT !.pc = "run", !.on = slot[s].worker]
  <1>1. /\ act[a].pc = "dispatch" /\ slot[s].inflight = 0
        /\ slot' = [slot EXCEPT ![s] = r] /\ act' = [act EXCEPT ![a] = w]
        /\ runs' = [runs EXCEPT ![c] = @ + 1]
        /\ UNCHANGED <<lease, call, exit, sweep, starts>>
    BY DEF Run
  <1> SlotType /\ ActType /\ CountType
    BY DEF WorkerInv, Types
  <1>2. /\ c \in Callers /\ s \in Slots /\ Past(c) /\ slot[s] \in SlotRec
        /\ act[a] \in ActRec
    BY <1>1, BusyFacts DEF Busy
  <1>3. /\ r \in SlotRec /\ r.lease = slot[s].lease /\ r.inflight = 1
        /\ r.pending = slot[s].pending /\ r.reserved = slot[s].reserved
    BY <1>1, <1>2 DEF SlotRec
  <1>4. w \in ActRec /\ w.pc = "run" /\ w.call = c
    BY <1>2 DEF ActRec, SlotRec, ResumerPcs
  <1> HIDE DEF r, w
  <1>5. SlotType' /\ slot'[s] = r /\ \A t \in Slots \ {s} : slot'[t] = slot[t]
    BY <1>1, <1>2, <1>3, SlotFacts
  <1>6. /\ act' \in [Actors -> ActRec]
        /\ act'[a].pc = "run" /\ act'[a].call = act[a].call
        /\ \A b \in Actors \ {a} : act'[b] = act[b]
    BY <1>1, <1>4 DEF ActType
  <1>7. Types'
    <2>1. ActType'
      BY <1>6, ActKept DEF CallerPcs, Under, ResumerPcs
    <2>2. CountType'
      BY <1>1, <1>2 DEF CountType
    <2> QED
      BY <1>1, <1>5, <2>1, <2>2 DEF WorkerInv, Types, LeaseType, CallType, ExitType, SweepType
  <1>8. LeaseOK' /\ \A d \in Callers : Past(d) => Past(d)'
    <2>1. \A t \in Slots : /\ slot'[t].lease = slot[t].lease
                           /\ slot'[t].reserved = slot[t].reserved
      BY <1>3, <1>5
    <2> QED
      BY <1>1, <1>6, <2>1, LeaseWhileBusy DEF Busy, Under
  <1>9. /\ \A t \in Slots : slot'[t].pending = slot[t].pending
        /\ \A t \in Slots, d \in Callers : InQueue(t, d)' <=> InQueue(t, d)
        /\ \A o \in Owners, d \in Callers : InExit(o, d)' <=> InExit(o, d)
    BY <1>1, <1>3, <1>5 DEF InQueue, InExit
  <1>10. PlaceOK'
    <2>1. \A b \in Actors : act'[b].pc \in Busy =>
            \E d \in Callers : act'[b].call = d /\ Past(d)'
      BY <1>1, <1>2, <1>6, <1>8 DEF WorkerInv, PlaceOK, Busy
    <2> QED
      BY <1>8, <1>9, <2>1, PlaceKept
  <1>11. ServeOK'
    <2>1. ASSUME NEW b \in Actors, Serving(b)'
          PROVE  /\ b # a => Serving(b)
                 /\ lease'[act'[b].call].slot = SlotOf(b)
                 /\ SlotOf(b) \in Slots
                 /\ b # a => SlotOf(b) # s
      <3>1. act'[b].call = act[b].call /\ (b # a => Serving(b))
        BY <1>6, <2>1 DEF Serving
      <3>2. SlotOf(b) \in Slots
        BY <1>2, <3>1, BusyFacts DEF Serving, Busy
      <3>3. b # a => SlotOf(b) # s
        BY <1>1, <3>1 DEF WorkerInv, ServeOK
      <3> QED
        BY <1>1, <3>1, <3>2, <3>3 DEF SlotOf
    <2>2. \A b \in Actors : Serving(b)' => slot'[lease'[act'[b].call].slot].inflight > 0
      <3>1. ASSUME NEW b \in Actors, Serving(b)'
            PROVE  slot'[SlotOf(b)].inflight > 0
        <4>1. CASE b = a
          BY <1>3, <1>5, <4>1
        <4>2. CASE b # a
          BY <1>5, <2>1, <3>1, <4>2 DEF WorkerInv, ServeOK
        <4> QED
          BY <4>1, <4>2
      <3> QED
        BY <2>1, <3>1
    <2>3. \A b, e \in Actors : Serving(b)' /\ Serving(e)'
            /\ lease'[act'[b].call].slot = lease'[act'[e].call].slot => b = e
      BY <2>1 DEF WorkerInv, ServeOK
    <2> QED
      BY <2>2, <2>3 DEF ServeOK, SlotOf
  <1>12. OnceOK'
    <2>1. \A b \in Actors, d \in Callers : Fresh(b, d)' => Fresh(b, d) /\ d # c
      <3>1. Fresh(a, c)
        BY <1>1 DEF Fresh
      <3>2. ASSUME NEW b \in Actors, NEW d \in Callers, Fresh(b, d)'
            PROVE  b # a /\ Fresh(b, d)
        BY <1>6, <3>2 DEF Fresh
      <3> QED
        BY <1>2, <3>1, <3>2 DEF WorkerInv, OnceOK
    <2>2. Fresh(a, c)
      BY <1>1 DEF Fresh
    <2>3. /\ \A t \in Slots : ~InQueue(t, c)
          /\ \A o \in Owners : ~InExit(o, c)
          /\ runs[c] = 0
      <3>1. runs[c] \in Nat /\ runs[c] <= 1 /\ runs[c] # 1
        BY <1>2, <2>2 DEF WorkerInv, OnceOK, CountType
      <3> QED
        BY <1>2, <2>2, <3>1 DEF WorkerInv, OnceOK
    <2>4. runs'[c] = 1 /\ \A d \in Callers \ {c} : runs'[d] = runs[d]
      BY <1>1, <1>2, <2>3 DEF CountType
    <2>5. /\ \A t \in Slots : IsInjective(slot[t].pending)'
          /\ \A o \in Owners : IsInjective(exit[o].pending)'
      BY <1>1, <1>9 DEF WorkerInv, OnceOK, IsInjective
    <2> QED
      BY <1>9, <2>1, <2>3, <2>4, <2>5 DEF WorkerInv, OnceOK
  <1> QED
    BY <1>7, <1>8, <1>10, <1>11, <1>12 DEF WorkerInv

(* A step that ends a dispatch.                                               *)
LEMMA OverKeeps ==
  ASSUME WorkerInv, NEW a \in Actors, act[a].pc \in Busy, Over(a), SlotType',
         lease' = lease, runs' = runs,
         \A o \in Owners : exit'[o].pending = exit[o].pending,
         \A t \in Slots : /\ slot'[t].lease = slot[t].lease
                          /\ slot'[t].reserved = slot[t].reserved
                          /\ \/ slot'[t].inflight = slot[t].inflight
                             \/ Serving(a) /\ t = SlotOf(a)
                          /\ IsInjective(slot'[t].pending),
         \A t \in Slots, d \in Callers : InQueue(t, d)' => InQueue(t, d)
  PROVE  LeaseOK' /\ PlaceOK' /\ ServeOK' /\ OnceOK'
  <1>1. /\ ActType' /\ CallType'
        /\ act'[a].pc \in {"release", "next"} /\ act'[a].call = act[a].call
        /\ a \in Callers => act'[a].pc = "release"
        /\ \A b \in Actors \ {a} : act'[b] = act[b]
    BY OverFacts
  <1>2. LeaseOK' /\ \A d \in Callers : Past(d) => Past(d)'
    BY <1>1, LeaseWhileBusy DEF Under
  <1>3. PlaceOK'
    <2>1. \A b \in Actors : act'[b].pc \in Busy =>
            \E d \in Callers : act'[b].call = d /\ Past(d)'
      BY <1>1, <1>2 DEF WorkerInv, PlaceOK, Busy
    <2> QED
      BY <1>2, <2>1, PlaceKept DEF InExit
  <1>4. ServeOK'
    <2>1. ASSUME NEW b \in Actors, Serving(b)'
          PROVE  /\ Serving(b) /\ b # a /\ SlotOf(b) \in Slots
                 /\ lease'[act'[b].call].slot = SlotOf(b)
                 /\ slot'[SlotOf(b)].inflight = slot[SlotOf(b)].inflight
      <3>1. b # a /\ Serving(b) /\ act'[b].call = act[b].call
        BY <1>1, <2>1 DEF Serving
      <3>2. SlotOf(b) \in Slots
        BY <3>1, BusyFacts DEF Serving, Busy
      <3>3. ~(Serving(a) /\ SlotOf(b) = SlotOf(a))
        BY <3>1 DEF WorkerInv, ServeOK
      <3> QED
        BY <3>1, <3>2, <3>3 DEF SlotOf
    <2> QED
      BY <2>1 DEF WorkerInv, ServeOK, SlotOf
  <1>5. OnceOK'
    <2>1. \A b \in Actors, d \in Callers : Fresh(b, d)' => Fresh(b, d)
      BY <1>1 DEF Fresh
    <2>2. \A o \in Owners : IsInjective(exit[o].pending)'
      BY DEF WorkerInv, OnceOK, IsInjective
    <2>3. \A t \in Slots : IsInjective(slot[t].pending)'
      BY DEF IsInjective
    <2> QED
      BY <2>1, <2>2, <2>3, OnceKept DEF InExit
  <1> QED
    BY <1>2, <1>3, <1>4, <1>5

LEMMA LeaveQueueKeeps ==
  ASSUME WorkerInv, NEW a \in Actors, LeaveQueue(a)
  PROVE  WorkerInv'
  <1> DEFINE s == SlotOf(a)
             q == RemoveFirst(slot[s].pending, act[a].call)
             r == [slot[s] EXCEPT !.pending = q]
  <1>1. /\ act[a].pc = "queued" /\ Over(a) /\ slot' = [slot EXCEPT ![s] = r]
        /\ UNCHANGED <<lease, exit, sweep, starts, runs>>
    BY DEF LeaveQueue
  <1> SlotType
    BY DEF WorkerInv, Types
  <1>2. s \in Slots /\ slot[s] \in SlotRec
    BY <1>1, BusyFacts DEF Busy
  <1>3. /\ q \in Seq(Callers) /\ IsInjective(q)
        /\ \A i \in DOMAIN q : \E j \in DOMAIN slot[s].pending : slot[s].pending[j] = q[i]
    <2>1. slot[s].pending \in Seq(Callers) /\ IsInjective(slot[s].pending)
      BY <1>2 DEF WorkerInv, OnceOK, SlotRec
    <2> QED
      BY <2>1, WithoutOne
  <1> HIDE DEF q
  <1>4. /\ r \in SlotRec /\ r.lease = slot[s].lease /\ r.inflight = slot[s].inflight
        /\ r.pending = q /\ r.reserved = slot[s].reserved
    BY <1>2, <1>3 DEF SlotRec
  <1> HIDE DEF r
  <1>5. SlotType' /\ slot'[s] = r /\ \A t \in Slots \ {s} : slot'[t] = slot[t]
    BY <1>1, <1>2, <1>4, SlotFacts
  <1>6. ASSUME NEW t \in Slots
        PROVE  /\ slot'[t].lease = slot[t].lease
               /\ slot'[t].reserved = slot[t].reserved
               /\ slot'[t].inflight = slot[t].inflight
               /\ IsInjective(slot'[t].pending)
               /\ \A d \in Callers : InQueue(t, d)' => InQueue(t, d)
    <2>1. CASE t = s
      BY <1>3, <1>4, <1>5, <2>1 DEF InQueue
    <2>2. CASE t # s
      BY <1>5, <2>2 DEF InQueue, WorkerInv, OnceOK
    <2> QED
      BY <2>1, <2>2
  <1>7. LeaseOK' /\ PlaceOK' /\ ServeOK' /\ OnceOK'
    BY <1>1, <1>5, <1>6, OverKeeps DEF Busy
  <1>8. Types'
    BY <1>1, <1>5, OverFacts
      DEF WorkerInv, Types, LeaseType, ExitType, SweepType, CountType, Busy
  <1> QED
    BY <1>7, <1>8 DEF WorkerInv

(* The answer of a worker, or the end of a crash seen by its caller.          *)
LEMMA AnswerKeeps ==
  ASSUME WorkerInv, NEW a \in Actors,
         Leave(a) \/ \E result \in {"ok", "error", "timeout"} : Answer(a, result)
  PROVE  WorkerInv'
  <1> DEFINE s == SlotOf(a)
             r == [slot[s] EXCEPT !.inflight = GiveBack(slot[s].inflight)]
  <1>1. /\ Serving(a) /\ Over(a) /\ slot' = [slot EXCEPT ![s] = r]
        /\ UNCHANGED <<lease, exit, sweep, starts, runs>>
    BY DEF Leave, Answer, Serving
  <1> SlotType
    BY DEF WorkerInv, Types
  <1>2. s \in Slots /\ slot[s] \in SlotRec /\ act[a].pc \in Busy
    BY <1>1, BusyFacts DEF Busy, Serving
  <1>3. /\ r \in SlotRec /\ r.lease = slot[s].lease
        /\ r.pending = slot[s].pending /\ r.reserved = slot[s].reserved
    BY <1>2 DEF SlotRec, GiveBack
  <1> HIDE DEF r
  <1>4. SlotType' /\ slot'[s] = r /\ \A t \in Slots \ {s} : slot'[t] = slot[t]
    BY <1>1, <1>2, <1>3, SlotFacts
  <1>5. ASSUME NEW t \in Slots
        PROVE  /\ slot'[t].lease = slot[t].lease
               /\ slot'[t].reserved = slot[t].reserved
               /\ \/ slot'[t].inflight = slot[t].inflight
                  \/ Serving(a) /\ t = s
               /\ IsInjective(slot'[t].pending)
               /\ \A d \in Callers : InQueue(t, d)' => InQueue(t, d)
    <2>1. slot'[t].pending = slot[t].pending
      BY <1>3, <1>4
    <2>2. IsInjective(slot'[t].pending)
      BY <2>1 DEF WorkerInv, OnceOK
    <2> QED
      BY <1>1, <1>3, <1>4, <2>1, <2>2 DEF InQueue
  <1>6. LeaseOK' /\ PlaceOK' /\ ServeOK' /\ OnceOK'
    BY <1>1, <1>2, <1>4, <1>5, OverKeeps
  <1>7. Types'
    BY <1>1, <1>2, <1>4, OverFacts
      DEF WorkerInv, Types, LeaseType, ExitType, SweepType, CountType
  <1> QED
    BY <1>6, <1>7 DEF WorkerInv

LEMMA CrashedKeeps ==
  ASSUME WorkerInv, NEW a \in Actors, Crashed(a)
  PROVE  WorkerInv'
  <1> DEFINE s == SlotOf(a)
             r == [exit[a] EXCEPT !.pc = "take", !.slot = s]
  <1>1. /\ act[a].pc = "run" /\ Goto(a, "exit") /\ exit' = [exit EXCEPT ![a] = r]
        /\ UNCHANGED <<slot, lease, call, sweep, starts, runs>>
    BY DEF Crashed
  <1> a \in Owners /\ ActType /\ ExitType /\ exit[a] \in ExitRec
    BY DEF WorkerInv, Types, Owners, ExitType
  <1>2. s \in Slots
    BY <1>1, BusyFacts DEF Busy
  <1>3. r \in ExitRec /\ r.pending = exit[a].pending /\ r.slot \in Slots
    BY <1>2 DEF ExitRec
  <1> HIDE DEF r
  <1>4. ExitType' /\ \A o \in Owners : exit'[o].pending = exit[o].pending
    BY <1>1, <1>3, ExitFacts
  <1>5. /\ act' \in [Actors -> ActRec]
        /\ act'[a].pc = "exit" /\ act'[a].call = act[a].call
        /\ \A b \in Actors \ {a} : act'[b] = act[b]
    BY <1>1, GotoFacts DEF ResumerPcs
  <1>6. Types'
    <2>1. ActType'
      BY <1>5, ActKept DEF CallerPcs, Under, ResumerPcs
    <2> QED
      BY <1>1, <1>4, <2>1 DEF WorkerInv, Types, SlotType, LeaseType, CallType, SweepType, CountType
  <1>7. Moves(a)
    BY <1>1, <1>4, <1>5 DEF Moves, Under, Busy
  <1> QED
    BY <1>6, <1>7, MovesKeeps

LEMMA ResumeNextKeeps ==
  ASSUME WorkerInv, NEW a \in Resumers, ResumeNext(a)
  PROVE  WorkerInv'
  <1> DEFINE s == a[1]
             q == slot[s].pending
             c == Head(q)
  <1> /\ a \in Actors /\ a \notin Callers /\ s \in Slots
      /\ ActType /\ SlotType /\ act[a] \in ActRec
      /\ slot[s] \in SlotRec /\ q \in Seq(Callers)
    BY Apart DEF Actors, Resumers, WorkerInv, Types, ActType, SlotType, SlotRec
  <1>1. act[a].pc = "next" /\ UNCHANGED <<lease, call, exit, sweep, starts, runs>>
    BY DEF ResumeNext
  <1>2. CASE slot' = slot /\ act' = [act EXCEPT ![a].pc = "off", ![a].call = None]
    <2> DEFINE w == [act[a] EXCEPT !.pc = "off", !.call = None]
    <2>1. w \in ActRec /\ w.pc = "off" /\ w.call = None
      BY DEF ActRec, ResumerPcs
    <2>2. act' = [act EXCEPT ![a] = w]
      BY <1>2
    <2> HIDE DEF w
    <2>3. /\ act' \in [Actors -> ActRec] /\ act'[a].pc = "off"
          /\ \A b \in Actors \ {a} : act'[b] = act[b]
      BY <2>1, <2>2 DEF ActType
    <2>4. Types'
      <3>1. ActType'
        BY <2>3, ActKept DEF ResumerPcs
      <3> QED
        BY <1>1, <1>2, <3>1
           DEF WorkerInv, Types, SlotType, LeaseType, CallType, ExitType, SweepType, CountType
    <2>5. LeaseOK'
      BY <1>1, <1>2, <2>3, LeaseKept DEF Actors
    <2>6. PlaceOK'
      <3>1. \A d \in Callers : Past(d) => Past(d)'
        BY <1>1, <2>3 DEF Past, Actors
      <3>2. \A b \in Actors : act'[b].pc \in Busy =>
            \E d \in Callers : act'[b].call = d /\ Past(d)'
        BY <2>3, <3>1 DEF WorkerInv, PlaceOK, Busy
      <3> QED
        BY <1>1, <1>2, <3>1, <3>2, PlaceKept DEF InQueue, InExit
    <2>7. ServeOK'
      BY <1>1, <1>2, <2>3, ServeKept DEF Serving
    <2>8. OnceOK'
      <3>1. \A b \in Actors, d \in Callers : Fresh(b, d)' => Fresh(b, d)
        BY <2>3 DEF Fresh
      <3>2. /\ \A t \in Slots : IsInjective(slot[t].pending)'
            /\ \A o \in Owners : IsInjective(exit[o].pending)'
        BY <1>1, <1>2 DEF WorkerInv, OnceOK, IsInjective
      <3> QED
        BY <1>1, <1>2, <3>1, <3>2, OnceKept DEF InQueue, InExit
    <2> QED
      BY <2>4, <2>5, <2>6, <2>7, <2>8 DEF WorkerInv
  <1>3. CASE /\ q # <<>> /\ slot' = [slot EXCEPT ![s].pending = Tail(@)]
             /\ act' = [act EXCEPT ![a].pc = "dispatch", ![a].call = c]
    <2> DEFINE r == [slot[s] EXCEPT !.pending = Tail(q)]
               w == [act[a] EXCEPT !.pc = "dispatch", !.call = c]
    <2>1. slot' = [slot EXCEPT ![s] = r] /\ act' = [act EXCEPT ![a] = w]
      BY <1>3
    <2>2. /\ c \in Callers /\ Tail(q) \in Seq(Callers)
          /\ 1 \in DOMAIN q /\ q[1] = c
          /\ \A i \in DOMAIN Tail(q) : \E j \in DOMAIN q : q[j] = Tail(q)[i]
          /\ IsInjective(Tail(q)) /\ \A i \in DOMAIN Tail(q) : Tail(q)[i] # c
      BY <1>3, TailOf DEF WorkerInv, OnceOK
    <2>3. /\ r \in SlotRec /\ r.lease = slot[s].lease /\ r.inflight = slot[s].inflight
          /\ r.pending = Tail(q) /\ r.reserved = slot[s].reserved
      BY <2>2 DEF SlotRec
    <2>4. w \in ActRec /\ w.pc = "dispatch" /\ w.call = c
      BY <2>2 DEF ActRec, ResumerPcs
    <2> HIDE DEF r, w
    <2>5. SlotType' /\ slot'[s] = r /\ \A t \in Slots \ {s} : slot'[t] = slot[t]
      BY <2>1, <2>3, SlotFacts
    <2>6. /\ act' \in [Actors -> ActRec] /\ act'[a].pc = "dispatch" /\ act'[a].call = c
          /\ \A b \in Actors \ {a} : act'[b] = act[b]
      BY <2>1, <2>4 DEF ActType
    <2>7. Types'
      <3>1. ActType'
        BY <2>6, ActKept DEF ResumerPcs
      <3> QED
        BY <1>1, <2>5, <3>1
           DEF WorkerInv, Types, LeaseType, CallType, ExitType, SweepType, CountType
    <2>8. \A t \in Slots : /\ slot'[t].lease = slot[t].lease
                           /\ slot'[t].reserved = slot[t].reserved
                           /\ slot'[t].inflight = slot[t].inflight
      BY <2>3, <2>5
    <2>9. LeaseOK'
      BY <1>1, <2>6, <2>8, LeaseKept DEF Actors
    <2>10. InQueue(s, c) /\ \A t \in Slots, d \in Callers :
                              InQueue(t, d)' => InQueue(t, d) /\ ~(t = s /\ d = c)
      <3>1. InQueue(s, c)
        BY <2>2 DEF InQueue
      <3>2. ASSUME NEW t \in Slots, NEW d \in Callers, t = s, InQueue(t, d)'
            PROVE  InQueue(t, d) /\ d # c
        <4>1. PICK i \in DOMAIN Tail(q) : Tail(q)[i] = d
          BY <2>3, <2>5, <3>2 DEF InQueue
        <4> QED
          BY <2>2, <3>2, <4>1 DEF InQueue
      <3>3. \A t \in Slots, d \in Callers : t # s /\ InQueue(t, d)' => InQueue(t, d)
        BY <2>5 DEF InQueue
      <3> QED
        BY <3>1, <3>2, <3>3
    <2>11. PlaceOK'
      <3>1. \A d \in Callers : Past(d) => Past(d)'
        BY <1>1, <2>6 DEF Past, Actors
      <3>2. Past(c)
        BY <2>2, <2>10 DEF WorkerInv, PlaceOK
      <3>3. \A b \in Actors : act'[b].pc \in Busy =>
            \E d \in Callers : act'[b].call = d /\ Past(d)'
        <4>1. \A d \in Callers : d = c => Past(d)'
          BY <3>1, <3>2
        <4> QED
          BY <2>2, <2>6, <3>1, <4>1 DEF WorkerInv, PlaceOK
      <3> QED
        BY <1>1, <2>10, <3>1, <3>3, PlaceKept DEF InExit
    <2>12. ServeOK'
      BY <1>1, <2>6, <2>8, ServeKept DEF Serving
    <2>13. OnceOK'
      <3>1. \A b \in Actors, d \in Callers : Fresh(b, d)' => Fresh(b, d) \/ (b = a /\ d = c)
        BY <2>6 DEF Fresh
      <3>2. \A t \in Slots : IsInjective(slot[t].pending)'
        <4>1. IsInjective(slot'[s].pending)
          BY <2>2, <2>3, <2>5
        <4>2. \A t \in Slots \ {s} : IsInjective(slot'[t].pending)
          BY <2>5 DEF WorkerInv, OnceOK
        <4> QED
          BY <4>1, <4>2 DEF IsInjective
      <3>3. \A o \in Owners : /\ IsInjective(exit[o].pending)'
                              /\ \A d \in Callers : InExit(o, d)' <=> InExit(o, d)
        BY <1>1 DEF WorkerInv, OnceOK, IsInjective, InExit
      <3>4. /\ \A b \in Actors : ~Fresh(b, c)
            /\ \A o \in Owners : ~InExit(o, c)
            /\ \A t \in Slots \ {s} : ~InQueue(t, c)
            /\ runs[c] # 1
        BY <2>2, <2>10 DEF WorkerInv, OnceOK
      <3>5. \A t \in Slots, d \in Callers : InQueue(t, d)' => InQueue(t, d) /\ d # c
        BY <2>10, <3>4
      <3> QED
        BY <1>1, <2>2, <3>1, <3>2, <3>3, <3>4, <3>5 DEF WorkerInv, OnceOK
    <2> QED
      BY <2>7, <2>9, <2>11, <2>12, <2>13 DEF WorkerInv
  <1> QED
    BY <1>2, <1>3 DEF ResumeNext

-----------------------------------------------------------------------------
(* The exit of a worker: the queue goes to whoever handles it, and back. *)

LEMMA ExitTakeKeeps ==
  ASSUME WorkerInv, NEW o \in Owners, ExitTake(o)
  PROVE  WorkerInv'
  <1> DEFINE s == exit[o].slot
             q == slot[s].pending
             n == slot[s].failures + 1
             r == [slot[s] EXCEPT !.worker = 0, !.state = "restarting",
                                  !.failures = n, !.pending = <<>>]
             e == [pc |-> "revoke", slot |-> s, old |-> slot[s].worker,
                   lease |-> slot[s].lease, pending |-> q,
                   open |-> n >= FailuresToCircuit]
  <1>1. /\ exit[o].pc = "take" /\ UNCHANGED <<lease, call, act, sweep, starts, runs>>
        /\ \/ slot' = slot /\ exit' = [exit EXCEPT ![o] = NoExit]
           \/ slot' = [slot EXCEPT ![s] = r] /\ exit' = [exit EXCEPT ![o] = e]
    BY DEF ExitTake
  <1> SlotType /\ ExitType
    BY DEF WorkerInv, Types
  <1>2. s \in Slots /\ slot[s] \in SlotRec /\ q \in Seq(Callers)
    BY <1>1 DEF ExitType, SlotType, SlotRec
  <1>3. CASE slot' = slot /\ exit' = [exit EXCEPT ![o] = NoExit]
    <2>1. NoExit \in ExitRec /\ NoExit.pc = "none" /\ NoExit.pending = <<>>
      BY DEF ExitRec, NoExit
    <2>2. ExitType' /\ \A p \in Owners : exit'[p].pending \in {exit[p].pending, <<>>}
      BY <1>3, <2>1, ExitFacts
    <2>3. Types'
      BY <1>1, <1>3, <2>2
        DEF WorkerInv, Types, SlotType, LeaseType, CallType, ActType, SweepType, CountType
    <2>4. Aside
      BY <1>1, <1>3, <2>2 DEF Aside
    <2> QED
      BY <2>3, <2>4, AsideKeeps
  <1>4. CASE slot' = [slot EXCEPT ![s] = r] /\ exit' = [exit EXCEPT ![o] = e]
    <2>1. n \in Nat /\ "restarting" \in States /\ <<>> \in Seq(Callers)
      BY <1>2 DEF SlotRec, States
    <2>2. /\ r \in SlotRec /\ r.lease = slot[s].lease /\ r.inflight = slot[s].inflight
          /\ r.pending = <<>> /\ r.reserved = slot[s].reserved
      BY <1>2, <2>1 DEF SlotRec
    <2>3. e \in ExitRec /\ e.slot = s /\ e.pending = q
      BY <1>2, <2>1 DEF SlotRec, ExitRec
    <2> HIDE DEF r, e
    <2>4. SlotType' /\ slot'[s] = r /\ \A t \in Slots \ {s} : slot'[t] = slot[t]
      BY <1>2, <1>4, <2>2, SlotFacts
    <2>5. /\ ExitType' /\ exit'[o] = e
          /\ \A p \in Owners \ {o} : exit'[p] = exit[p]
      BY <1>2, <1>4, <2>3, ExitFacts
    <2>6. Types'
      BY <1>1, <2>4, <2>5
        DEF WorkerInv, Types, LeaseType, CallType, ActType, SweepType, CountType
    <2>7. \A t \in Slots : /\ slot'[t].lease = slot[t].lease
                           /\ slot'[t].reserved = slot[t].reserved
                           /\ slot'[t].inflight = slot[t].inflight
      BY <2>2, <2>4
    <2>8. LeaseOK'
      BY <1>1, <2>7, LeaseKept
    <2>9. \A t \in Slots, d \in Callers : InQueue(t, d)' => InQueue(t, d) /\ t # s
      BY <2>2, <2>4 DEF InQueue
    <2>10. \A p \in Owners, d \in Callers :
             InExit(p, d)' => \/ p # o /\ InExit(p, d)
                              \/ p = o /\ InQueue(s, d)
      BY <2>3, <2>5 DEF InExit, InQueue
    <2>11. PlaceOK'
      <3>1. \A d \in Callers : Past(d) => Past(d)'
        BY <1>1 DEF Past
      <3>2. \A b \in Actors : act'[b].pc \in Busy =>
            \E d \in Callers : act'[b].call = d /\ Past(d)'
        BY <1>1, <3>1 DEF WorkerInv, PlaceOK
      <3>3. \A p \in Owners, d \in Callers : InExit(p, d)' => Past(d)
        BY <1>2, <2>10 DEF WorkerInv, PlaceOK
      <3> QED
        BY <2>9, <3>1, <3>2, <3>3, PlaceKept
    <2>12. ServeOK'
      BY <1>1, <2>7, ServeKept DEF Serving
    <2>13. OnceOK'
      <3>1. \A b \in Actors, d \in Callers : Fresh(b, d)' <=> Fresh(b, d)
        BY <1>1 DEF Fresh
      <3>2. \A t \in Slots : IsInjective(slot[t].pending)'
        <4>1. IsInjective(slot'[s].pending)
          BY <2>2, <2>4 DEF IsInjective
        <4>2. \A t \in Slots \ {s} : IsInjective(slot'[t].pending)
          BY <2>4 DEF WorkerInv, OnceOK
        <4> QED
          BY <4>1, <4>2 DEF IsInjective
      <3>3. \A p \in Owners : IsInjective(exit[p].pending)'
        <4>1. IsInjective(exit'[o].pending)
          BY <1>2, <2>3, <2>5 DEF WorkerInv, OnceOK
        <4>2. \A p \in Owners \ {o} : IsInjective(exit'[p].pending)
          BY <2>5 DEF WorkerInv, OnceOK
        <4> QED
          BY <4>1, <4>2 DEF IsInjective
      <3>4. ASSUME NEW d \in Callers
            PROVE  /\ \A a, b \in Actors : Fresh(a, d)' /\ Fresh(b, d)' => a = b
                   /\ \A t, u \in Slots : InQueue(t, d)' /\ InQueue(u, d)' => t = u
                   /\ \A a \in Actors, t \in Slots : ~(Fresh(a, d)' /\ InQueue(t, d)')
                   /\ runs'[d] <= 1
                   /\ \A a \in Actors, p \in Owners : ~(Fresh(a, d)' /\ InExit(p, d)')
                   /\ runs'[d] = 1 => /\ \A a \in Actors : ~(Fresh(a, d)')
                                      /\ \A t \in Slots : ~(InQueue(t, d)')
                                      /\ \A p \in Owners : ~(InExit(p, d)')
        BY <1>1, <1>2, <2>9, <2>10, <3>1 DEF WorkerInv, OnceOK
      <3>5. ASSUME NEW d \in Callers
            PROVE  /\ \A p, x \in Owners : InExit(p, d)' /\ InExit(x, d)' => p = x
                   /\ \A t \in Slots, p \in Owners : ~(InQueue(t, d)' /\ InExit(p, d)')
        BY <1>2, <2>9, <2>10 DEF WorkerInv, OnceOK
      <3> QED
        BY <3>2, <3>3, <3>4, <3>5 DEF OnceOK
    <2> QED
      BY <2>6, <2>8, <2>11, <2>12, <2>13 DEF WorkerInv
  <1> QED
    BY <1>1, <1>3, <1>4

LEMMA RequeueKeeps ==
  ASSUME WorkerInv, NEW o \in Owners, Requeue(o)
  PROVE  WorkerInv'
  <1> DEFINE s == exit[o].slot
             p == exit[o].pending
             c == Head(p)
             q == slot[s].pending
             r == [slot[s] EXCEPT !.pending = Append(q, c)]
             e == [exit[o] EXCEPT !.pending = Tail(p)]
  <1>1. /\ exit[o].pc = "requeue" /\ p # <<>> /\ exit' = [exit EXCEPT ![o] = e]
        /\ UNCHANGED <<lease, act, sweep, starts, runs>>
        /\ \/ slot' = slot /\ call' = [call EXCEPT ![c].done = TRUE]
           \/ slot' = [slot EXCEPT ![s] = r] /\ call' = [call EXCEPT ![c].attempt = @ + 1]
    BY DEF Requeue
  <1> SlotType /\ ExitType /\ CallType
    BY DEF WorkerInv, Types
  <1>2. /\ s \in Slots /\ slot[s] \in SlotRec /\ q \in Seq(Callers)
        /\ exit[o] \in ExitRec /\ p \in Seq(Callers) /\ IsInjective(p)
    BY <1>1 DEF ExitType, SlotType, SlotRec, ExitRec, WorkerInv, OnceOK
  <1>3. /\ c \in Callers /\ Tail(p) \in Seq(Callers)
        /\ 1 \in DOMAIN p /\ p[1] = c
        /\ \A i \in DOMAIN Tail(p) : \E j \in DOMAIN p : p[j] = Tail(p)[i]
        /\ IsInjective(Tail(p)) /\ \A i \in DOMAIN Tail(p) : Tail(p)[i] # c
    BY <1>1, <1>2, TailOf
  <1>4. e \in ExitRec /\ e.slot = s /\ e.pending = Tail(p)
    BY <1>2, <1>3 DEF ExitRec
  <1>5. /\ r \in SlotRec /\ r.lease = slot[s].lease /\ r.inflight = slot[s].inflight
        /\ r.pending = Append(q, c) /\ r.reserved = slot[s].reserved
    BY <1>2, <1>3, AppendTo DEF SlotRec
  <1> HIDE DEF r, e
  <1>6. /\ ExitType' /\ exit'[o] = e
        /\ \A x \in Owners \ {o} : exit'[x] = exit[x]
    BY <1>1, <1>2, <1>4, ExitFacts
  <1>7. /\ SlotType' /\ \A t \in Slots \ {s} : slot'[t] = slot[t]
        /\ \/ slot'[s] = slot[s]
           \/ slot'[s] = r
    <2>1. CASE slot' = slot
      BY <2>1 DEF SlotType
    <2>2. CASE slot' = [slot EXCEPT ![s] = r]
      BY <1>2, <1>5, <2>2, SlotFacts
    <2> QED
      BY <1>1, <2>1, <2>2
  <1>8. Types'
    <2>1. CallType'
      <3>1. CASE call' = [call EXCEPT ![c].done = TRUE]
        BY <1>3, <3>1 DEF CallType
      <3>2. CASE call' = [call EXCEPT ![c].attempt = @ + 1]
        BY <1>3, <3>2 DEF CallType
      <3> QED
        BY <1>1, <3>1, <3>2
    <2> QED
      BY <1>1, <1>6, <1>7, <2>1 DEF WorkerInv, Types, LeaseType, ActType, SweepType, CountType
  <1>9. \A t \in Slots : /\ slot'[t].lease = slot[t].lease
                         /\ slot'[t].reserved = slot[t].reserved
                         /\ slot'[t].inflight = slot[t].inflight
    BY <1>5, <1>7
  <1>10. LeaseOK'
    BY <1>1, <1>9, LeaseKept
  <1>11. InExit(o, c)
    BY <1>3 DEF InExit
  <1>12. ASSUME NEW x \in Owners, NEW d \in Callers, InExit(x, d)'
         PROVE  InExit(x, d) /\ ~(x = o /\ d = c)
    <2>1. CASE x = o
      <3>1. PICK i \in DOMAIN Tail(p) : Tail(p)[i] = d
        BY <1>4, <1>6, <1>12, <2>1 DEF InExit
      <3> QED
        BY <1>3, <2>1, <3>1 DEF InExit
    <2>2. CASE x # o
      BY <1>6, <1>12, <2>2 DEF InExit
    <2> QED
      BY <2>1, <2>2
  <1>13. ASSUME NEW t \in Slots, NEW d \in Callers, InQueue(t, d)'
         PROVE  InQueue(t, d) \/ (t = s /\ d = c)
    <2>1. CASE t = s /\ slot'[s] = r
      <3>1. PICK i \in DOMAIN Append(q, c) : Append(q, c)[i] = d
        BY <1>5, <1>13, <2>1 DEF InQueue
      <3>2. d = c \/ \E j \in DOMAIN q : q[j] = d
        BY <1>2, <1>3, <3>1, AppendTo
      <3> QED
        BY <2>1, <3>2 DEF InQueue
    <2>2. CASE slot'[t] = slot[t]
      BY <1>13, <2>2 DEF InQueue
    <2> QED
      BY <1>7, <2>1, <2>2
  <1>14. PlaceOK'
    <2>1. \A d \in Callers : Past(d) => Past(d)'
      BY <1>1 DEF Past
    <2>2. \A b \in Actors : act'[b].pc \in Busy =>
          \E d \in Callers : act'[b].call = d /\ Past(d)'
      BY <1>1, <2>1 DEF WorkerInv, PlaceOK
    <2>3. Past(c)
      BY <1>3, <1>11 DEF WorkerInv, PlaceOK
    <2> QED
      BY <1>12, <1>13, <2>1, <2>2, <2>3, PlaceKept
  <1>15. ServeOK'
    BY <1>1, <1>9, ServeKept DEF Serving
  <1>16. OnceOK'
    <2>1. \A b \in Actors, d \in Callers : Fresh(b, d)' <=> Fresh(b, d)
      BY <1>1 DEF Fresh
    <2>2. /\ \A b \in Actors : ~Fresh(b, c)
          /\ \A t \in Slots : ~InQueue(t, c)
          /\ \A x \in Owners \ {o} : ~InExit(x, c)
          /\ runs[c] # 1
      BY <1>3, <1>11 DEF WorkerInv, OnceOK
    <2>3. \A t \in Slots : IsInjective(slot[t].pending)'
      <3>1. IsInjective(Append(q, c))
        BY <1>2, <1>3, <2>2, AppendTo DEF WorkerInv, OnceOK, InQueue
      <3>2. IsInjective(slot'[s].pending)
        BY <1>2, <1>5, <1>7, <3>1 DEF WorkerInv, OnceOK
      <3>3. \A t \in Slots \ {s} : IsInjective(slot'[t].pending)
        BY <1>7 DEF WorkerInv, OnceOK
      <3> QED
        BY <3>2, <3>3 DEF IsInjective
    <2>4. \A x \in Owners : IsInjective(exit[x].pending)'
      <3>1. IsInjective(exit'[o].pending)
        BY <1>3, <1>4, <1>6
      <3>2. \A x \in Owners \ {o} : IsInjective(exit'[x].pending)
        BY <1>6 DEF WorkerInv, OnceOK
      <3> QED
        BY <3>1, <3>2 DEF IsInjective
    <2>5. ASSUME NEW x \in Owners, NEW d \in Callers, InExit(x, d)'
          PROVE  InExit(x, d) /\ d # c
      BY <1>12, <2>2, <2>5
    <2>6. ASSUME NEW t \in Slots, NEW d \in Callers, InQueue(t, d)'
          PROVE  IF d = c THEN t = s ELSE InQueue(t, d)
      BY <1>13, <2>2, <2>6
    <2>7. ASSUME NEW d \in Callers
          PROVE  /\ \A a, b \in Actors : Fresh(a, d)' /\ Fresh(b, d)' => a = b
                 /\ \A t, u \in Slots : InQueue(t, d)' /\ InQueue(u, d)' => t = u
                 /\ \A x, y \in Owners : InExit(x, d)' /\ InExit(y, d)' => x = y
                 /\ \A a \in Actors, t \in Slots : ~(Fresh(a, d)' /\ InQueue(t, d)')
                 /\ \A a \in Actors, x \in Owners : ~(Fresh(a, d)' /\ InExit(x, d)')
                 /\ \A t \in Slots, x \in Owners : ~(InQueue(t, d)' /\ InExit(x, d)')
                 /\ runs'[d] <= 1
                 /\ runs'[d] = 1 => /\ \A a \in Actors : ~(Fresh(a, d)')
                                    /\ \A t \in Slots : ~(InQueue(t, d)')
                                    /\ \A x \in Owners : ~(InExit(x, d)')
      <3>1. CASE d = c
        BY <1>1, <2>1, <2>2, <2>5, <2>6, <3>1 DEF WorkerInv, OnceOK
      <3>2. CASE d # c
        BY <1>1, <2>1, <2>5, <2>6, <3>2 DEF WorkerInv, OnceOK
      <3> QED
        BY <3>1, <3>2
    <2> QED
      BY <2>3, <2>4, <2>7 DEF OnceOK
  <1> QED
    BY <1>8, <1>10, <1>14, <1>15, <1>16 DEF WorkerInv

-----------------------------------------------------------------------------
(* The maintenance loop, the world, and Stop. *)

LEMMA TickKeeps ==
  ASSUME WorkerInv,
         \/ LoopEnds \/ StopBegin \/ StopReturns
         \/ \E s \in Slots : SweepExpired(s) \/ CoolDown(s)
         \/ \E p \in up : ProcessDies(p)
         \/ \E c \in Callers : Deadline(c)
  PROVE  WorkerInv'
  <1>1. UNCHANGED <<slot, lease, act, exit, runs, starts>>
    BY DEF LoopEnds, StopBegin, StopReturns, SweepExpired, CoolDown, ProcessDies,
      Deadline
  <1>2. Aside
    BY <1>1 DEF Aside
  <1>3. SweepType'
    <2>1. CASE LoopEnds
      BY <2>1 DEF LoopEnds, WorkerInv, Types, SweepType
    <2>2. ASSUME NEW s \in Slots, SweepExpired(s) PROVE SweepType'
      BY <2>2 DEF SweepExpired, SweepType
    <2>3. CASE sweep' = sweep
      BY <2>3 DEF WorkerInv, Types, SweepType
    <2> QED
      BY <2>1, <2>2, <2>3 DEF StopBegin, StopReturns, CoolDown, ProcessDies, Deadline
  <1>4. CallType'
    <2>1. CASE \E c \in Callers : Deadline(c)
      BY <2>1 DEF Deadline, WorkerInv, Types, CallType
    <2>2. CASE ~\E c \in Callers : Deadline(c)
      <3>1. call' = call
        BY <2>2 DEF LoopEnds, StopBegin, StopReturns, SweepExpired, CoolDown, ProcessDies
      <3> QED
        BY <3>1 DEF WorkerInv, Types, CallType
    <2> QED
      BY <2>1, <2>2
  <1>5. Types'
    BY <1>1, <1>3, <1>4
      DEF WorkerInv, Types, SlotType, LeaseType, ActType, ExitType, CountType
  <1> QED
    BY <1>2, <1>5, AsideKeeps

(* A sweep that takes up an exit, and what an exit does to processes.         *)
LEMMA ExitMovesKeeps ==
  ASSUME WorkerInv,
         RecycleTake \/ SweepHealth \/ \E o \in Owners : Cleanup(o)
  PROVE  WorkerInv'
  <1> ExitType /\ SlotType /\ SweepType
    BY DEF WorkerInv, Types
  <1>1. UNCHANGED <<slot, lease, call, act, starts, runs>>
    BY DEF RecycleTake, SweepHealth, Cleanup
  <1>2. SweepType'
    BY DEF RecycleTake, SweepHealth, Cleanup, SweepType
  <1>3. ASSUME NEW o \in Owners, NEW r \in ExitRec, r.pending = exit[o].pending,
               r.slot \in Slots, exit' = [exit EXCEPT ![o] = r]
        PROVE  ExitType' /\ \A p \in Owners : exit'[p].pending = exit[p].pending
    BY <1>3, ExitFacts
  <1>4. ExitType' /\ \A p \in Owners : exit'[p].pending = exit[p].pending
    <2>1. CASE exit' = exit
      BY <2>1 DEF ExitType
    <2>2. CASE RecycleTake /\ exit' # exit
      <3> DEFINE s == sweep.slot
                 r == [exit[Sweeper] EXCEPT !.pc = "evict", !.slot = s,
                         !.old = slot[s].worker, !.lease = slot[s].lease]
      <3>1. exit' = [exit EXCEPT ![Sweeper] = r]
        BY <2>2 DEF RecycleTake
      <3>2. s \in Slots /\ slot[s] \in SlotRec /\ exit[Sweeper] \in ExitRec
            /\ Sweeper \in Owners
        BY <2>2 DEF RecycleTake, SweepType, SlotType, ExitType, Owners
      <3>3. slot[s].worker \in Nat /\ slot[s].lease \in Callers \cup {None}
        BY <3>2 DEF SlotRec
      <3>4. r \in ExitRec /\ r.pending = exit[Sweeper].pending /\ r.slot \in Slots
        BY <3>2, <3>3 DEF ExitRec
      <3> HIDE DEF r
      <3> QED
        BY <1>3, <3>1, <3>2, <3>4
    <2>3. CASE SweepHealth /\ exit' # exit
      <3> DEFINE s == sweep.slot
                 r == [exit[Sweeper] EXCEPT !.pc = "take", !.slot = s]
      <3>1. exit' = [exit EXCEPT ![Sweeper] = r]
        BY <2>3 DEF SweepHealth
      <3>2. s \in Slots /\ exit[Sweeper] \in ExitRec /\ Sweeper \in Owners
        BY <2>3 DEF SweepHealth, SweepType, ExitType, Owners
      <3>3. r \in ExitRec /\ r.pending = exit[Sweeper].pending /\ r.slot \in Slots
        BY <3>2 DEF ExitRec
      <3> HIDE DEF r
      <3> QED
        BY <1>3, <3>1, <3>2, <3>3
    <2>4. ASSUME NEW o \in Owners, Cleanup(o)
          PROVE  ExitType' /\ \A p \in Owners : exit'[p].pending = exit[p].pending
      <3> DEFINE r == [exit[o] EXCEPT !.pc = IF exit[o].pc = "kill" THEN "take" ELSE "requeue"]
      <3>1. exit' = [exit EXCEPT ![o] = r]
        BY <2>4 DEF Cleanup
      <3>2. exit[o] \in ExitRec /\ exit[o].slot \in Slots
        BY <2>4 DEF Cleanup, ExitType
      <3>3. r \in ExitRec /\ r.pending = exit[o].pending /\ r.slot \in Slots
        BY <3>2 DEF ExitRec
      <3> HIDE DEF r
      <3> QED
        BY <1>3, <3>1, <3>3
    <2> QED
      BY <2>1, <2>2, <2>3, <2>4
  <1>5. Types'
    BY <1>1, <1>2, <1>4
      DEF WorkerInv, Types, SlotType, LeaseType, CallType, ActType, CountType
  <1>6. Aside
    BY <1>1, <1>4 DEF Aside
  <1> QED
    BY <1>5, <1>6, AsideKeeps

(* Steps that only change the state of one slot's worker.                     *)
Managed(s, r) ==
    /\ r \in SlotRec /\ r.lease = slot[s].lease /\ r.reserved = slot[s].reserved
    /\ r.inflight = slot[s].inflight /\ r.pending \in {slot[s].pending, <<>>}

LEMMA ManagedKeeps ==
  ASSUME WorkerInv, NEW s \in Slots, NEW r, Managed(s, r),
         slot' = [slot EXCEPT ![s] = r],
         UNCHANGED <<lease, act, runs>>, CallType', ExitType', SweepType', CountType',
         \A o \in Owners : exit'[o].pending \in {exit[o].pending, <<>>}
  PROVE  WorkerInv'
  <1>1. SlotType' /\ slot'[s] = r /\ \A t \in Slots \ {s} : slot'[t] = slot[t]
    BY SlotFacts DEF WorkerInv, Types, Managed
  <1>2. Types'
    BY <1>1 DEF WorkerInv, Types, LeaseType, ActType
  <1>3. Aside
    BY <1>1 DEF Aside, Managed
  <1> QED
    BY <1>2, <1>3, AsideKeeps

LEMMA SweepKeeps ==
  ASSUME WorkerInv,
         \/ StartSlot \/ Started \/ StartFails
         \/ \E s \in Slots : SweepLook(s)
  PROVE  WorkerInv'
  <1> SlotType /\ SweepType /\ CountType
    BY DEF WorkerInv, Types
  <1>1. /\ UNCHANGED <<lease, call, act, exit, runs>>
        /\ CallType' /\ ExitType'
    BY DEF StartSlot, Started, StartFails, SweepLook, WorkerInv, Types,
      CallType, ExitType
  <1>2. sweep.pc \notin {"idle", "ended"} => sweep.slot \in Slots /\ slot[sweep.slot] \in SlotRec
    BY DEF SweepType, SlotType
  <1>3. CASE StartSlot
    <2> DEFINE r == [slot[sweep.slot] EXCEPT !.state = "starting"]
    <2>1. sweep.slot \in Slots /\ slot[sweep.slot] \in SlotRec
      BY <1>2, <1>3 DEF StartSlot
    <2>2. Managed(sweep.slot, r)
      BY <2>1 DEF Managed, SlotRec, States
    <2>3. slot' = [slot EXCEPT ![sweep.slot] = r]
      BY <1>3 DEF StartSlot
    <2>4. SweepType' /\ CountType'
      BY <1>3 DEF StartSlot, SweepType, CountType
    <2> HIDE DEF r
    <2> QED
      BY <1>1, <2>1, <2>2, <2>3, <2>4, ManagedKeeps
  <1>4. CASE Started
    <2> DEFINE n == starts[sweep.slot] + 1
               r == [slot[sweep.slot] EXCEPT !.worker = n, !.state = "ready",
                       !.retired = FALSE, !.failures = 0]
    <2>1. sweep.slot \in Slots /\ slot[sweep.slot] \in SlotRec
      BY <1>2, <1>4 DEF Started
    <2>2. n \in Nat /\ "ready" \in States
      BY <2>1 DEF CountType, States
    <2>3. slot' = [slot EXCEPT ![sweep.slot] = r]
      BY <1>4 DEF Started
    <2>4. SweepType' /\ CountType'
      BY <1>4, <2>2 DEF Started, SweepType, CountType
    <2> HIDE DEF n
    <2>5. Managed(sweep.slot, r)
      BY <2>1, <2>2 DEF Managed, SlotRec
    <2> HIDE DEF r
    <2> QED
      BY <1>1, <2>1, <2>3, <2>4, <2>5, ManagedKeeps
  <1>5. CASE StartFails
    <2> DEFINE n == slot[sweep.slot].failures + 1
               r == [slot[sweep.slot] EXCEPT !.failures = n, !.retired = TRUE,
                       !.state = "circuit_open"]
               x == [slot[sweep.slot] EXCEPT !.failures = n, !.state = "restarting"]
    <2>1. sweep.slot \in Slots /\ slot[sweep.slot] \in SlotRec
      BY <1>2, <1>5 DEF StartFails
    <2>2. n \in Nat /\ "circuit_open" \in States /\ "restarting" \in States
      BY <2>1 DEF SlotRec, States
    <2>3. \/ slot' = [slot EXCEPT ![sweep.slot] = r]
          \/ slot' = [slot EXCEPT ![sweep.slot] = x]
      BY <1>5 DEF StartFails
    <2>4. SweepType' /\ CountType'
      BY <1>5 DEF StartFails, SweepType, CountType
    <2> HIDE DEF n
    <2>5. Managed(sweep.slot, r) /\ Managed(sweep.slot, x)
      BY <2>1, <2>2 DEF Managed, SlotRec
    <2> HIDE DEF r, x
    <2> QED
      BY <1>1, <2>1, <2>3, <2>4, <2>5, ManagedKeeps
  <1>6. ASSUME NEW s \in Slots, SweepLook(s) PROVE WorkerInv'
    <2> DEFINE r == [slot[s] EXCEPT !.state = "restarting", !.retired = FALSE,
                       !.failures = 0]
    <2>1. slot[s] \in SlotRec
      BY DEF SlotType
    <2>2. Managed(s, r) /\ Managed(s, slot[s])
      BY <2>1 DEF Managed, SlotRec, States
    <2>3. \/ slot' = [slot EXCEPT ![s] = r]
          \/ slot' = [slot EXCEPT ![s] = slot[s]]
      BY <1>6 DEF SweepLook, SlotType
    <2>4. SweepType' /\ CountType'
      BY <1>6 DEF SweepLook, SweepType, CountType
    <2> HIDE DEF r
    <2> QED
      BY <1>1, <2>2, <2>3, <2>4, ManagedKeeps
  <1> QED
    BY <1>3, <1>4, <1>5, <1>6

LEMMA AnnounceKeeps ==
  ASSUME WorkerInv, Announce
  PROVE  WorkerInv'
  <1> DEFINE a == <<sweep.slot, starts[sweep.slot]>>
             w == [act[a] EXCEPT !.pc = "next"]
  <1> ActType /\ SweepType
    BY DEF WorkerInv, Types
  <1>1. /\ UNCHANGED <<slot, lease, call, exit, starts, runs>>
        /\ act' = [act EXCEPT ![a] = w] /\ sweep' = [sweep EXCEPT !.pc = "idle"]
    BY DEF Announce
  <1>2. SweepType'
    BY <1>1 DEF SweepType
  <1>3. CASE a \in Actors
    <2>1. a \in Resumers /\ a \notin Callers /\ act[a] \in ActRec
      <3>1. a \notin Callers
        BY WorkerAssumption DEF Announce, SweepType, WorkerInv, Types, CountType
      <3> QED
        BY <1>3, <3>1 DEF Actors, ActType
    <2>2. w \in ActRec /\ w.pc = "next" /\ w.call = act[a].call
      BY <2>1 DEF ActRec, ResumerPcs
    <2> HIDE DEF w
    <2>3. /\ act' \in [Actors -> ActRec] /\ act'[a].pc = "next"
          /\ act'[a].call = act[a].call /\ \A b \in Actors \ {a} : act'[b] = act[b]
      BY <1>1, <1>3, <2>2 DEF ActType
    <2>4. Types'
      <3>1. ActType'
        BY <1>3, <2>1, <2>3, ActKept DEF ResumerPcs
      <3> QED
        BY <1>1, <1>2, <3>1 DEF WorkerInv, Types, SlotType, LeaseType, CallType, ExitType, CountType
    <2>5. LeaseOK'
      BY <1>1, <2>1, <2>3, LeaseKept DEF Actors
    <2>6. PlaceOK'
      <3>1. \A d \in Callers : Past(d) => Past(d)'
        BY <1>1, <2>1, <2>3 DEF Past, Actors
      <3>2. \A b \in Actors : act'[b].pc \in Busy =>
            \E d \in Callers : act'[b].call = d /\ Past(d)'
        BY <2>3, <3>1 DEF WorkerInv, PlaceOK, Busy
      <3> QED
        BY <1>1, <3>1, <3>2, PlaceKept DEF InQueue, InExit
    <2>7. ServeOK'
      BY <1>1, <2>3, ServeKept DEF Serving
    <2>8. OnceOK'
      <3>1. \A b \in Actors, d \in Callers : Fresh(b, d)' => Fresh(b, d)
        BY <2>3 DEF Fresh
      <3>2. /\ \A t \in Slots : IsInjective(slot[t].pending)'
            /\ \A o \in Owners : IsInjective(exit[o].pending)'
        BY <1>1 DEF WorkerInv, OnceOK, IsInjective
      <3> QED
        BY <1>1, <3>1, <3>2, OnceKept DEF InQueue, InExit
    <2> QED
      BY <2>4, <2>5, <2>6, <2>7, <2>8 DEF WorkerInv
  <1>4. CASE a \notin Actors
    <2>1. act' = act
      BY <1>1, <1>4 DEF ActType
    <2>2. Types'
      BY <1>1, <1>2, <2>1
        DEF WorkerInv, Types, SlotType, LeaseType, CallType, ActType, ExitType, CountType
    <2>3. Aside
      BY <1>1, <2>1 DEF Aside
    <2> QED
      BY <2>2, <2>3, AsideKeeps
  <1> QED
    BY <1>3, <1>4

LEMMA ExitEndKeeps ==
  ASSUME WorkerInv, NEW o \in Owners, ExitEnd(o)
  PROVE  WorkerInv'
  <1> DEFINE s == exit[o].slot
             r == [slot[s] EXCEPT !.retired = TRUE, !.state = "circuit_open"]
             e == [exit[o] EXCEPT !.pc = "force"]
  <1> SlotType /\ ExitType
    BY DEF WorkerInv, Types
  <1>1. /\ exit[o].pc \in {"requeue", "force"}
        /\ UNCHANGED <<lease, call, act, sweep, starts, runs>>
        /\ \/ slot' = slot /\ exit' = [exit EXCEPT ![o] = NoExit]
           \/ slot' = [slot EXCEPT ![s] = r] /\ exit' = [exit EXCEPT ![o] = e]
    BY DEF ExitEnd, Retire
  <1>2. s \in Slots /\ slot[s] \in SlotRec /\ exit[o] \in ExitRec
    BY <1>1 DEF ExitType, SlotType
  <1>3. Managed(s, r) /\ Managed(s, slot[s])
    BY <1>2 DEF Managed, SlotRec, States
  <1>4. e \in ExitRec /\ e.slot = s /\ e.pending = exit[o].pending
    BY <1>2 DEF ExitRec
  <1>5. NoExit \in ExitRec /\ NoExit.pc = "none" /\ NoExit.pending = <<>>
    BY DEF ExitRec, NoExit
  <1> HIDE DEF e, r
  <1>6. CallType' /\ SweepType' /\ CountType'
    BY <1>1 DEF WorkerInv, Types, CallType, SweepType, CountType
  <1>7. CASE slot' = slot /\ exit' = [exit EXCEPT ![o] = NoExit]
    <2>1. ExitType' /\ \A p \in Owners : exit'[p].pending \in {exit[p].pending, <<>>}
      BY <1>5, <1>7, ExitFacts
    <2>2. slot' = [slot EXCEPT ![s] = slot[s]]
      BY <1>2, <1>7 DEF SlotType
    <2> QED
      BY <1>1, <1>2, <1>3, <1>6, <2>1, <2>2, ManagedKeeps
  <1>8. CASE slot' = [slot EXCEPT ![s] = r] /\ exit' = [exit EXCEPT ![o] = e]
    <2>1. ExitType' /\ \A p \in Owners : exit'[p].pending \in {exit[p].pending, <<>>}
      BY <1>2, <1>4, <1>8, ExitFacts
    <2> QED
      BY <1>1, <1>2, <1>3, <1>6, <1>8, <2>1, ManagedKeeps
  <1> QED
    BY <1>1, <1>7, <1>8

LEMMA StopSlotKeeps ==
  ASSUME WorkerInv, NEW s \in Slots, StopSlot(s)
  PROVE  WorkerInv'
  <1> DEFINE r == [slot[s] EXCEPT !.worker = 0, !.state = "stopped", !.pending = <<>>]
  <1> SlotType /\ CallType /\ slot[s] \in SlotRec
    BY DEF WorkerInv, Types, SlotType
  <1>1. /\ slot' = [slot EXCEPT ![s] = r]
        /\ UNCHANGED <<lease, act, exit, sweep, starts, runs>>
    BY DEF StopSlot
  <1>2. Managed(s, r)
    <2>1. "stopped" \in States /\ <<>> \in Seq(Callers)
      BY DEF States
    <2> QED
      BY <2>1 DEF Managed, SlotRec
  <1>3. CallType'
    <2> DEFINE new(c) == IF c \in Range(slot[s].pending)
                         THEN [call[c] EXCEPT !.done = TRUE] ELSE call[c]
    <2>1. \A c \in Callers : new(c) \in [live : BOOLEAN, done : BOOLEAN, attempt : Nat]
      BY DEF CallType
    <2>2. call' = [c \in Callers |-> new(c)]
      BY DEF StopSlot
    <2> HIDE DEF new
    <2> QED
      BY <2>1, <2>2 DEF CallType
  <1>4. ExitType' /\ SweepType' /\ CountType'
    BY <1>1 DEF WorkerInv, Types, ExitType, SweepType, CountType
  <1> HIDE DEF r
  <1> QED
    BY <1>1, <1>2, <1>3, <1>4, ManagedKeeps

-----------------------------------------------------------------------------
(* The invariant holds, with and without Stop. *)

LEMMA WorkerNext == WorkerInv /\ [Next]_vars => WorkerInv'
  <1> SUFFICES ASSUME WorkerInv, [Next]_vars PROVE WorkerInv'
    OBVIOUS
  <1>1. ASSUME NEW c \in Callers, CallerStep(c) \/ GiveUp(c) \/ Deadline(c)
        PROVE  WorkerInv'
    BY <1>1, AcquireKeeps, AttachKeeps, ReleaseKeeps, TakeSlotKeeps, TickKeeps
      DEF CallerStep
  <1>2. ASSUME NEW a \in Actors, DispatchStep(a) \/ AnswerStep(a)
        PROVE  WorkerInv'
    BY <1>2, RefuseKeeps, JoinQueueKeeps, RunKeeps, LeaveQueueKeeps, AnswerKeeps,
      CrashedKeeps DEF DispatchStep, AnswerStep
  <1>3. ASSUME NEW r \in Resumers, ResumeNext(r)
        PROVE  WorkerInv'
    BY <1>3, ResumeNextKeeps
  <1>4. ASSUME NEW o \in Owners, ExitStep(o)
        PROVE  WorkerInv'
    BY <1>4, ExitTakeKeeps, RevokeKeeps, ExitMovesKeeps, RequeueKeeps, ExitEndKeeps
      DEF ExitStep
  <1>5. CASE SweepStep \/ StartFails
    BY <1>5, SweepKeeps, ExitMovesKeeps, AnnounceKeeps DEF SweepStep
  <1>6. ASSUME NEW s \in Slots, SweepExpired(s) \/ CoolDown(s)
        PROVE  WorkerInv'
    BY <1>6, TickKeeps
  <1>7. CASE \E p \in up : ProcessDies(p)
    BY <1>7, TickKeeps
  <1>8. CASE StopBegin \/ StopStep \/ LoopEnds
    BY <1>8, TickKeeps, StopDrainKeeps, StopSlotKeeps DEF StopStep
  <1>9. CASE UNCHANGED vars
    <2>1. Types'
      BY <1>9 DEF vars, WorkerInv, Types, SlotType, LeaseType, CallType, ActType,
        ExitType, SweepType, CountType
    <2>2. Aside
      BY <1>9 DEF vars, Aside
    <2> QED
      BY <2>1, <2>2, AsideKeeps
  <1> QED
    BY <1>1, <1>2, <1>3, <1>4, <1>5, <1>6, <1>7, <1>8, <1>9 DEF Next, RunningNext

(* The inductive invariant of the worker manager.                             *)
THEOREM WorkerInvariant == Spec => []WorkerInv
  BY WorkerInits, WorkerNext, PTL DEF Spec

(* Two callers never hold one worker: Acquire, expiry, eviction, crash and    *)
(* Stop may interleave as they like.                                          *)
THEOREM LeasesExclusive == Spec => []LeaseExclusive
  <1>1. WorkerInv => LeaseExclusive
    BY DEF WorkerInv, LeaseOK
  <1> QED
    BY <1>1, WorkerInvariant, PTL

(* A worker serves one call at a time, also while the call of an evicted      *)
(* caller is still running.                                                   *)
THEOREM WorkerServesOne == Spec => []OneCallPerWorker
  <1>1. WorkerInv => OneCallPerWorker
    BY DEF WorkerInv, ServeOK, OneCallPerWorker, Serving
  <1> QED
    BY <1>1, WorkerInvariant, PTL

(* A call is handed to a worker at most once, whatever crashes and restarts   *)
(* it waits through.                                                          *)
THEOREM CallRunsOnce == Spec => []RunsOnce
  <1>1. WorkerInv => RunsOnce
    BY DEF WorkerInv, OnceOK, RunsOnce
  <1> QED
    BY <1>1, WorkerInvariant, PTL
=============================================================================
