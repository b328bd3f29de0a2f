------------------------- MODULE ResourcePoolProofs -------------------------
(***************************************************************************)
(* For every number of callers, classes and slots: the pool's accounting   *)
(* is exact, no slot idles while a caller waits for it, and no waiter is   *)
(* lost.                                                                   *)
(***************************************************************************)
EXTENDS ResourcePoolClients, FiniteSetTheorems, SequenceTheorems, TLAPS

(* Removing one place of a sequence shifts what stands behind it.          *)
LEMMA RemoveAtFacts ==
  ASSUME NEW S, NEW s \in Seq(S), NEW i \in DOMAIN s
  PROVE  /\ RemoveAt(s, i) \in Seq(S)
         /\ Len(RemoveAt(s, i)) = Len(s) - 1
         /\ \A j \in 1..(Len(s) - 1) :
              RemoveAt(s, i)[j] = IF j < i THEN s[j] ELSE s[j + 1]
<1> DEFINE a == SubSeq(s, 1, i - 1)  b == SubSeq(s, i + 1, Len(s))
<1>1. i \in 1..Len(s) /\ Len(s) \in Nat
  BY LenProperties
<1>2. a \in Seq(S) /\ Len(a) = i - 1 /\ \A j \in 1..(i - 1) : a[j] = s[j]
  <2>1. \A j \in 1..(i - 1) : s[j] \in S
    BY <1>1, ElementOfSeq
  <2> QED BY <1>1, <2>1, SubSeqProperties, SMT
<1>3. b \in Seq(S) /\ Len(b) = Len(s) - i
      /\ \A j \in 1..(Len(s) - i) : b[j] = s[i + j]
  <2>1. \A j \in (i + 1)..Len(s) : s[j] \in S
    BY <1>1, ElementOfSeq
  <2> QED BY <1>1, <2>1, SubSeqProperties, SMT
<1>4. RemoveAt(s, i) = a \o b
  BY DEF RemoveAt
<1> HIDE DEF a, b
<1> DEFINE w == a \o b
<1>5. /\ w \in Seq(S) /\ Len(w) = Len(a) + Len(b)
      /\ \A j \in 1..(Len(a) + Len(b)) :
           w[j] = IF j <= Len(a) THEN a[j] ELSE b[j - Len(a)]
  BY <1>2, <1>3, ConcatProperties
<1>8. RemoveAt(s, i) = w
  BY <1>4
<1> HIDE DEF w
<1>6. w \in Seq(S) /\ Len(w) = Len(s) - 1
      /\ \A j \in 1..(Len(s) - 1) : w[j] = IF j < i THEN a[j] ELSE b[j - (i - 1)]
  <2>1. Len(a) + Len(b) = Len(s) - 1
    BY <1>1, <1>2, <1>3
  <2>2. w \in Seq(S) /\ Len(w) = Len(s) - 1
    BY <1>5, <2>1
  <2>3. ASSUME NEW j \in 1..(Len(s) - 1)
        PROVE  w[j] = IF j < i THEN a[j] ELSE b[j - (i - 1)]
    <3>1. w[j] = IF j <= Len(a) THEN a[j] ELSE b[j - Len(a)]
      BY <1>5, <2>1
    <3>2. Len(a) = i - 1 /\ (j <= i - 1 <=> j < i)
      BY <1>1, <1>2
    <3> QED BY <3>1, <3>2
  <2> QED BY <2>2, <2>3
<1>7. ASSUME NEW j \in 1..(Len(s) - 1)
      PROVE  w[j] = IF j < i THEN s[j] ELSE s[j + 1]
  <2>1. CASE j < i
    BY <1>1, <1>2, <1>6, <2>1
  <2>2. CASE ~(j < i)
    <3>1. j - (i - 1) \in 1..(Len(s) - i) /\ i + (j - (i - 1)) = j + 1
      BY <1>1, <2>2
    <3> QED BY <1>3, <1>6, <2>2, <3>1
  <2> QED BY <2>1, <2>2
<1> QED BY <1>6, <1>7, <1>8, Zenon

-----------------------------------------------------------------------------
(* The inductive invariant: the count alone is not inductive, it needs     *)
(* that a grant is only ever mailed to a blocked caller of that class and  *)
(* that nobody stands in a list twice.                                     *)
IInv == TypeOK /\ SlotsExact /\ NoIdleSlot /\ WaitersExact

LEMMA OwnersFinite ==
  ASSUME NEW r \in Classes
  PROVE  IsFiniteSet(Owners(r)) /\ Cardinality(Owners(r)) \in Nat
BY PoolAssumption, FS_Subset, FS_CardinalityType DEF Owners

LEMMA InitIInv == Init => IInv
<1> SUFFICES ASSUME Init PROVE IInv
  OBVIOUS
<1> USE DEF Init, PoolInit
<1>1. TypeOK
  <2>1. <<>> \in Seq(Callers)
    BY EmptySeq
  <2> QED BY <2>1 DEF TypeOK, PoolTypeOK, Phases, Mail
<1>2. \A r \in Classes : Owners(r) = {}
  BY DEF Owners, Owns
<1>3. SlotsExact
  <2>1. Cardinality({}) = 0
    BY FS_EmptySet
  <2>2. \A r \in Classes : Capacity[r] \in Nat /\ inUse[r] = 0
    BY PoolAssumption
  <2>3. ASSUME NEW r \in Classes
        PROVE  inUse[r] = Cardinality(Owners(r)) /\ inUse[r] <= Capacity[r]
    <3>1. inUse[r] = 0 /\ 0 <= Capacity[r]
      BY <2>2
    <3>2. Cardinality(Owners(r)) = 0
      BY <1>2, <2>1
    <3> QED BY <3>1, <3>2
  <2> QED BY <2>3 DEF SlotsExact
<1>4. NoIdleSlot
  BY DEF NoIdleSlot
<1>5. WaitersExact
  BY DEF WaitersExact
<1> QED BY <1>1, <1>3, <1>4, <1>5 DEF IInv

(* The slot of caller c goes back, and on to the oldest waiter.            *)
LEMMA SlotReturned ==
  ASSUME IInv, NEW c \in Callers, NEW r \in Classes, c \in Owners(r),
         HandOff(r, inUse[r] - 1, [mail EXCEPT ![c] = "empty"]),
         Become(c, "out"), UNCHANGED <<want, poolClosed>>
  PROVE  IInv'
<1> DEFINE n == inUse[r]  m == [mail EXCEPT ![c] = "empty"]
<1>1. /\ TypeOK /\ SlotsExact /\ NoIdleSlot /\ WaitersExact
      /\ want[c] = r /\ n \in Nat /\ waiters[r] \in Seq(Callers)
      /\ mail \in [Callers -> Mail] /\ phase \in [Callers -> Phases]
      /\ inUse \in [Classes -> Nat] /\ waiters \in [Classes -> Seq(Callers)]
  BY DEF IInv, TypeOK, PoolTypeOK, Owners, Owns
<1>2. n = Cardinality(Owners(r)) /\ n <= Capacity[r] /\ n > 0
  BY <1>1, OwnersFinite, FS_EmptySet DEF SlotsExact
<1>3. \A x \in Classes : \A i \in DOMAIN waiters[x] : waiters[x][i] # c
  BY <1>1 DEF WaitersExact, Owners, Owns, Phases
<1>4. Capacity \in [Classes -> Nat]
  BY PoolAssumption
<1>5. CASE ~poolClosed /\ n - 1 < Capacity[r] /\ waiters[r] # <<>>
  <2> DEFINE h == Head(waiters[r])  w == Tail(waiters[r])
  <2>1. /\ inUse' = [inUse EXCEPT ![r] = (n - 1) + 1]
        /\ waiters' = [waiters EXCEPT ![r] = Tail(@)]
        /\ mail' = [m EXCEPT ![h] = "granted"]
        /\ phase' = [phase EXCEPT ![c] = "out"]
    BY <1>5 DEF HandOff, Become
  <2>2. /\ h \in Callers /\ w \in Seq(Callers) /\ Len(w) = Len(waiters[r]) - 1
        /\ \A i \in 1..Len(w) : w[i] = waiters[r][i + 1]
        /\ Len(waiters[r]) \in Nat \ {0}
    BY <1>1, <1>5, HeadTailProperties, EmptySeq
  <2>3. DOMAIN waiters[r] = 1..Len(waiters[r]) /\ DOMAIN w = 1..Len(w)
    BY <1>1, <2>2, LenProperties
  <2>4. h = waiters[r][1] /\ 1 \in DOMAIN waiters[r]
    BY <1>1, <1>5, <2>2, <2>3
  <2>5. h # c /\ phase[h] = "waiting" /\ want[h] = r /\ mail[h] = "empty"
    BY <1>1, <1>3, <2>4 DEF WaitersExact
  <2> HIDE DEF w, h
  <2>6. Owners(r)' = (Owners(r) \ {c}) \cup {h} /\ h \notin Owners(r) \ {c}
    BY <1>1, <2>1, <2>2, <2>5 DEF Owners, Owns
  <2>7. \A x \in Classes \ {r} : Owners(x)' = Owners(x)
    BY <1>1, <2>1, <2>2, <2>5 DEF Owners, Owns
  <2>8. TypeOK'
    <3>1. inUse' \in [Classes -> Nat]
      BY <1>1, <1>2, <2>1
    <3>3. mail' \in [Callers -> Mail] /\ phase' \in [Callers -> Phases]
      BY <1>1, <2>1, <2>2 DEF Mail, Phases
    <3>2. waiters' \in [Classes -> Seq(Callers)]
      BY <1>1, <2>1, <2>2 DEF w
    <3> QED BY <3>1, <3>2, <3>3 DEF IInv, TypeOK, PoolTypeOK
  <2>9. SlotsExact'
    <3>1. Cardinality(Owners(r)') = n
      <4>1. IsFiniteSet(Owners(r)) /\ c \in Owners(r)
        BY <1>1, OwnersFinite
      <4>2. IsFiniteSet(Owners(r) \ {c}) /\ Cardinality(Owners(r) \ {c}) = n - 1
        BY <1>2, <4>1, FS_RemoveElement
      <4>3. h \notin Owners(r) \ {c}
        BY <2>6
      <4>4. Cardinality((Owners(r) \ {c}) \cup {h}) = (n - 1) + 1
        BY <4>2, <4>3, FS_AddElement
      <4> QED BY <1>1, <2>6, <4>4
    <3>2. inUse'[r] = n /\ \A x \in Classes \ {r} : inUse'[x] = inUse[x]
      BY <1>1, <2>1
    <3>3. ASSUME NEW x \in Classes
          PROVE  inUse'[x] = Cardinality(Owners(x)') /\ inUse'[x] <= Capacity[x]
      <4>1. CASE x = r
        BY <1>2, <3>1, <3>2, <4>1
      <4>2. CASE x # r
        <5>1. inUse'[x] = inUse[x] /\ Owners(x)' = Owners(x)
          BY <2>7, <3>2, <4>2
        <5>2. inUse[x] = Cardinality(Owners(x)) /\ inUse[x] <= Capacity[x]
          BY <1>1 DEF SlotsExact
        <5> QED BY <5>1, <5>2
      <4> QED BY <4>1, <4>2
    <3> QED BY <3>3 DEF SlotsExact
  <2>10. NoIdleSlot'
    BY <1>1, <1>5, <2>1 DEF NoIdleSlot
  <2>11. WaitersExact'
    <3>1. \A x \in Classes : waiters'[x] = IF x = r THEN w ELSE waiters[x]
      BY <1>1, <2>1 DEF w
    <3>2. ASSUME NEW x \in Classes, NEW i \in DOMAIN waiters'[x]
          PROVE  /\ phase'[waiters'[x][i]] = "waiting" /\ want'[waiters'[x][i]] = x
                 /\ mail'[waiters'[x][i]] = "empty"
                 /\ \A j \in DOMAIN waiters'[x] :
                      waiters'[x][i] = waiters'[x][j] => i = j
      <4>1. CASE x = r
        <5>1. i + 1 \in DOMAIN waiters[r] /\ waiters'[x][i] = waiters[r][i + 1]
              /\ i \in Nat /\ i + 1 # 1
          BY <2>2, <2>3, <3>1, <4>1
        <5>2. waiters[r][i + 1] # h /\ waiters[r][i + 1] # c
              /\ waiters[r][i + 1] \in Callers
          <6>1. waiters[r][i + 1] # waiters[r][1]
            BY <1>1, <2>4, <5>1 DEF WaitersExact
          <6>2. waiters[r][i + 1] \in Callers
            BY <1>1, <2>3, <5>1, ElementOfSeq
          <6> QED BY <1>1, <1>3, <2>4, <5>1, <6>1, <6>2
        <5>3. /\ phase[waiters[r][i + 1]] = "waiting" /\ want[waiters[r][i + 1]] = r
              /\ mail[waiters[r][i + 1]] = "empty"
          BY <1>1, <5>1 DEF WaitersExact
        <5>4. ASSUME NEW j \in DOMAIN w, w[i] = w[j] PROVE i = j
          <6>1. j + 1 \in DOMAIN waiters[r] /\ w[j] = waiters[r][j + 1] /\ j \in Nat
            BY <2>2, <2>3
          <6>2. waiters[r][i + 1] = waiters[r][j + 1]
            BY <3>1, <4>1, <5>1, <5>4, <6>1
          <6>3. i + 1 = j + 1
            BY <1>1, <5>1, <6>1, <6>2 DEF WaitersExact
          <6> QED BY <5>1, <6>1, <6>3
        <5> QED BY <1>1, <2>1, <3>1, <4>1, <5>1, <5>2, <5>3, <5>4
      <4>2. CASE x # r
        <5>1. waiters'[x] = waiters[x]
          BY <3>1, <4>2
        <5>2. waiters[x][i] # c /\ waiters[x][i] # h
              /\ waiters[x][i] \in Callers
          BY <1>1, <1>3, <2>5, <4>2, <5>1, ElementOfSeq, LenProperties DEF WaitersExact
        <5> QED BY <1>1, <2>1, <5>1, <5>2 DEF WaitersExact
      <4> QED BY <4>1, <4>2
    <3>3. ASSUME NEW d \in Callers
          PROVE  mail'[d] # "empty" => phase'[d] = "waiting"
      BY <1>1, <2>1, <2>2, <2>5 DEF WaitersExact
    <3>4. ASSUME NEW d \in Callers, phase'[d] = "waiting", mail'[d] = "empty"
          PROVE  Listed(d, want[d])'
      <4>1. d # c /\ d # h /\ phase[d] = "waiting" /\ mail[d] = "empty"
        BY <1>1, <2>1, <2>2, <3>4
      <4>2. PICK i \in DOMAIN waiters[want[d]] : waiters[want[d]][i] = d
        BY <1>1, <4>1 DEF WaitersExact, Listed
      <4>3. CASE want[d] = r
        <5>1. i - 1 \in DOMAIN w /\ w[i - 1] = d
          <6>1. i \in 1..Len(waiters[r]) /\ i # 1 /\ waiters[r][i] = d
            BY <2>3, <2>4, <4>1, <4>2, <4>3
          <6>2. i - 1 \in 1..Len(w) /\ (i - 1) + 1 = i
            BY <2>2, <6>1
          <6> QED BY <2>2, <2>3, <6>1, <6>2
        <5> QED BY <1>1, <3>1, <4>3, <5>1 DEF Listed
      <4>4. CASE want[d] # r
        <5>1. want[d] \in Classes
          BY DEF IInv, TypeOK
        <5> QED BY <3>1, <4>2, <4>4, <5>1 DEF Listed
      <4> QED BY <4>3, <4>4
    <3>5. ~poolClosed'
      BY <1>5
    <3> QED BY <3>2, <3>3, <3>4, <3>5 DEF WaitersExact
  <2> QED BY <2>8, <2>9, <2>10, <2>11 DEF IInv
<1>6. CASE ~(~poolClosed /\ n - 1 < Capacity[r] /\ waiters[r] # <<>>)
  <2>1. /\ inUse' = [inUse EXCEPT ![r] = n - 1]
        /\ mail' = m /\ waiters' = waiters /\ phase' = [phase EXCEPT ![c] = "out"]
    BY <1>6 DEF HandOff, Become
  <2>2. waiters[r] = <<>>
    BY <1>1, <1>2, <1>4, <1>6 DEF WaitersExact
  <2>3. \A x \in Classes : Owners(x)' = Owners(x) \ {c} /\ (x # r => c \notin Owners(x))
    BY <1>1, <2>1 DEF Owners, Owns
  <2>4. TypeOK'
    <3>1. inUse' \in [Classes -> Nat]
      BY <1>1, <1>2, <2>1
    <3>2. mail' \in [Callers -> Mail] /\ phase' \in [Callers -> Phases]
      BY <1>1, <2>1 DEF Mail, Phases
    <3> QED BY <2>1, <3>1, <3>2 DEF IInv, TypeOK, PoolTypeOK
  <2>5. SlotsExact'
    <3>1. ASSUME NEW x \in Classes
          PROVE  inUse'[x] = Cardinality(Owners(x)') /\ inUse'[x] <= Capacity[x]
      <4>1. CASE x = r
        <5>1. Cardinality(Owners(r) \ {c}) = n - 1
          <6>1. IsFiniteSet(Owners(r)) /\ c \in Owners(r)
            BY OwnersFinite
          <6> QED BY <1>2, <6>1, FS_RemoveElement
        <5>2. inUse'[r] = n - 1 /\ n - 1 <= Capacity[r]
          BY <1>1, <1>2, <1>4, <2>1
        <5> QED BY <2>3, <4>1, <5>1, <5>2
      <4>2. CASE x # r
        <5>1. inUse'[x] = inUse[x] /\ Owners(x)' = Owners(x)
          BY <1>1, <2>1, <2>3, <4>2
        <5>2. inUse[x] = Cardinality(Owners(x)) /\ inUse[x] <= Capacity[x]
          BY <1>1 DEF SlotsExact
        <5> QED BY <5>1, <5>2
      <4> QED BY <4>1, <4>2
    <3> QED BY <3>1 DEF SlotsExact
  <2>6. NoIdleSlot'
    BY <1>1, <2>1, <2>2 DEF NoIdleSlot
  <2>7. WaitersExact'
    <3>1. ASSUME NEW x \in Classes, NEW i \in DOMAIN waiters[x]
          PROVE  /\ phase'[waiters[x][i]] = "waiting" /\ mail'[waiters[x][i]] = "empty"
                 /\ want[waiters[x][i]] = x
                 /\ \A j \in DOMAIN waiters[x] : waiters[x][i] = waiters[x][j] => i = j
      <4>1. waiters[x][i] # c /\ waiters[x][i] \in Callers
        BY <1>1, <1>3, ElementOfSeq, LenProperties
      <4> QED BY <1>1, <2>1, <4>1 DEF WaitersExact
    <3>2. ASSUME NEW d \in Callers
          PROVE  /\ mail'[d] # "empty" => phase'[d] = "waiting"
                 /\ phase'[d] = "waiting" /\ mail'[d] = "empty" => Listed(d, want[d])
      BY <1>1, <2>1 DEF WaitersExact
    <3>3. poolClosed => \A x \in Classes : waiters[x] = <<>>
      BY <1>1 DEF WaitersExact
    <3> QED BY <2>1, <3>1, <3>2, <3>3 DEF WaitersExact, Listed
  <2> QED BY <2>4, <2>5, <2>6, <2>7 DEF IInv
<1> QED BY <1>5, <1>6

(* A step that moves no slot and no ownership keeps the accounting.        *)
LEMMA SlotsKept ==
  ASSUME SlotsExact, inUse' = inUse, \A x \in Classes : Owners(x)' = Owners(x)
  PROVE  SlotsExact'
<1> SUFFICES ASSUME NEW x \in Classes
             PROVE  inUse'[x] = Cardinality(Owners(x)') /\ inUse'[x] <= Capacity[x]
  BY DEF SlotsExact
<1>1. inUse[x] = Cardinality(Owners(x)) /\ inUse[x] <= Capacity[x]
  BY DEF SlotsExact
<1> QED BY <1>1

(* A free slot is taken without waiting.                                   *)
LEMMA AcquireNowStep ==
  ASSUME IInv, NEW c \in Callers, NEW r \in Classes, AcquireNow(c, r)
  PROVE  IInv'
<1>1. /\ TypeOK /\ SlotsExact /\ NoIdleSlot /\ WaitersExact
      /\ inUse \in [Classes -> Nat] /\ Capacity \in [Classes -> Nat]
      /\ waiters \in [Classes -> Seq(Callers)] /\ mail \in [Callers -> Mail]
      /\ phase \in [Callers -> Phases] /\ want \in [Callers -> Classes]
  BY PoolAssumption DEF IInv, TypeOK, PoolTypeOK
<1>2. /\ ~poolClosed /\ inUse[r] < Capacity[r]
      /\ inUse' = [inUse EXCEPT ![r] = @ + 1]
      /\ phase[c] = "out" /\ phase' = [phase EXCEPT ![c] = "holding"]
      /\ want' = [want EXCEPT ![c] = r]
      /\ UNCHANGED <<waiters, mail, poolClosed>>
  BY DEF AcquireNow, TakeSlot, HasSlot, Become
<1>3. mail[c] = "empty"
  BY <1>1, <1>2 DEF WaitersExact
<1>4. \A x \in Classes : c \notin Owners(x)
                         /\ Owners(x)' = IF x = r THEN Owners(x) \cup {c} ELSE Owners(x)
  BY <1>1, <1>2, <1>3 DEF Owners, Owns
<1>5. TypeOK'
  BY <1>1, <1>2 DEF TypeOK, PoolTypeOK, Phases
<1>6. SlotsExact'
  <2>1. ASSUME NEW x \in Classes
        PROVE  inUse'[x] = Cardinality(Owners(x)') /\ inUse'[x] <= Capacity[x]
    <3>1. inUse[x] = Cardinality(Owners(x)) /\ inUse[x] <= Capacity[x]
      BY <1>1 DEF SlotsExact
    <3>2. CASE x = r
      <4>1. Cardinality(Owners(x) \cup {c}) = Cardinality(Owners(x)) + 1
        BY <1>4, OwnersFinite, FS_AddElement
      <4>2. inUse'[x] = inUse[x] + 1 /\ inUse[x] + 1 <= Capacity[x]
        BY <1>1, <1>2, <3>2
      <4>3. Owners(x)' = Owners(x) \cup {c}
        BY <1>4, <3>2
      <4> QED BY <3>1, <4>1, <4>2, <4>3
    <3>3. CASE x # r
      <4>1. inUse'[x] = inUse[x] /\ Owners(x)' = Owners(x)
        BY <1>1, <1>2, <1>4, <3>3
      <4> QED BY <3>1, <4>1
    <3> QED BY <3>2, <3>3
  <2> QED BY <2>1 DEF SlotsExact
<1>7. NoIdleSlot'
  BY <1>1, <1>2 DEF NoIdleSlot
<1>8. WaitersExact'
  <2>1. \A x \in Classes : \A i \in DOMAIN waiters[x] :
          waiters[x][i] # c /\ waiters[x][i] \in Callers
    BY <1>1, <1>2, ElementOfSeq, LenProperties DEF WaitersExact
  <2> QED BY <1>1, <1>2, <1>3, <2>1 DEF WaitersExact, Listed
<1> QED BY <1>5, <1>6, <1>7, <1>8 DEF IInv

(* A caller joins the end of a list.                                       *)
LEMMA AcquireLaterStep ==
  ASSUME IInv, NEW c \in Callers, NEW r \in Classes, AcquireLater(c, r)
  PROVE  IInv'
<1>1. /\ TypeOK /\ SlotsExact /\ NoIdleSlot /\ WaitersExact
      /\ inUse \in [Classes -> Nat] /\ Capacity \in [Classes -> Nat]
      /\ waiters \in [Classes -> Seq(Callers)] /\ mail \in [Callers -> Mail]
      /\ phase \in [Callers -> Phases] /\ want \in [Callers -> Classes]
  BY PoolAssumption DEF IInv, TypeOK, PoolTypeOK
<1> DEFINE w == waiters[r]  v == Append(waiters[r], c)
<1>2. /\ ~poolClosed /\ ~(inUse[r] < Capacity[r])
      /\ waiters' = [waiters EXCEPT ![r] = v]
      /\ phase[c] = "out" /\ phase' = [phase EXCEPT ![c] = "waiting"]
      /\ want' = [want EXCEPT ![c] = r]
      /\ UNCHANGED <<inUse, mail, poolClosed>>
  BY DEF AcquireLater, JoinWaiters, HasSlot, Become
<1>3. mail[c] = "empty"
  BY <1>1, <1>2 DEF WaitersExact
<1>4. \A x \in Classes : Owners(x)' = Owners(x)
  BY <1>1, <1>2, <1>3 DEF Owners, Owns
<1>5. /\ v \in Seq(Callers) /\ Len(v) = Len(w) + 1 /\ Len(w) \in Nat
      /\ DOMAIN v = 1..(Len(w) + 1) /\ DOMAIN w = 1..Len(w)
      /\ v[Len(w) + 1] = c /\ \A i \in 1..Len(w) : v[i] = w[i]
  <2>1. w \in Seq(Callers)
    BY <1>1
  <2> QED BY <2>1, AppendProperties, LenProperties
<1>6. \A x \in Classes : \A i \in DOMAIN waiters[x] :
        waiters[x][i] # c /\ waiters[x][i] \in Callers
  BY <1>1, <1>2, ElementOfSeq, LenProperties DEF WaitersExact
<1> HIDE DEF v
<1>7. TypeOK'
  BY <1>1, <1>2, <1>5 DEF TypeOK, PoolTypeOK, Phases
<1>8. SlotsExact'
  BY <1>1, <1>2, <1>4, SlotsKept
<1>9. NoIdleSlot'
  <2>1. inUse[r] = Capacity[r]
    BY <1>1, <1>2 DEF SlotsExact
  <2> QED BY <1>1, <1>2, <2>1 DEF NoIdleSlot
<1>10. WaitersExact'
  <2>1. ASSUME NEW x \in Classes, NEW i \in DOMAIN waiters'[x]
        PROVE  /\ phase'[waiters'[x][i]] = "waiting" /\ want'[waiters'[x][i]] = x
               /\ mail'[waiters'[x][i]] = "empty"
               /\ \A j \in DOMAIN waiters'[x] :
                    waiters'[x][i] = waiters'[x][j] => i = j
    <3>1. CASE x # r
      <4>1. waiters'[x] = waiters[x]
        BY <1>1, <1>2, <3>1
      <4> QED BY <1>1, <1>2, <1>6, <4>1 DEF WaitersExact
    <3>2. CASE x = r /\ i \in DOMAIN w
      <4>1. waiters'[x] = v /\ v[i] = w[i] /\ w[i] # c /\ w[i] \in Callers
        BY <1>1, <1>2, <1>5, <1>6, <3>2
      <4>2. ASSUME NEW j \in DOMAIN v, v[i] = v[j] PROVE i = j
        <5>1. j \in DOMAIN w /\ v[j] = w[j]
          BY <1>5, <4>1, <4>2
        <5>2. w[i] = w[j]
          BY <4>1, <4>2, <5>1
        <5> QED BY <1>1, <3>2, <5>1, <5>2 DEF WaitersExact
      <4> QED BY <1>1, <1>2, <3>2, <4>1, <4>2 DEF WaitersExact
    <3>3. CASE x = r /\ i \notin DOMAIN w
      <4>1. waiters'[x] = v /\ i = Len(w) + 1 /\ v[i] = c
        BY <1>1, <1>2, <1>5, <3>3
      <4>2. ASSUME NEW j \in DOMAIN v, v[j] = c PROVE i = j
        BY <1>5, <1>6, <4>1, <4>2
      <4> QED BY <1>1, <1>2, <1>3, <3>3, <4>1, <4>2
    <3> QED BY <3>1, <3>2, <3>3
  <2>2. ASSUME NEW d \in Callers, phase'[d] = "waiting", mail'[d] = "empty"
        PROVE  Listed(d, want[d])'
    <3>1. CASE d = c
      <4>1. want'[d] = r /\ waiters'[r] = v
        BY <1>1, <1>2, <3>1
      <4> QED BY <1>5, <3>1, <4>1 DEF Listed
    <3>2. CASE d # c
      <4>1. PICK i \in DOMAIN waiters[want[d]] : waiters[want[d]][i] = d
        BY <1>1, <1>2, <2>2, <3>2 DEF WaitersExact, Listed
      <4>2. want'[d] = want[d] /\ want[d] \in Classes
        BY <1>1, <1>2, <3>2
      <4>3. i \in DOMAIN waiters'[want[d]] /\ waiters'[want[d]][i] = d
        <5>1. CASE want[d] = r
          <6>1. waiters'[r] = v /\ i \in DOMAIN w /\ w[i] = d
            BY <1>1, <1>2, <4>1, <5>1
          <6> QED BY <1>5, <5>1, <6>1
        <5>2. CASE want[d] # r
          BY <1>1, <1>2, <4>1, <4>2, <5>2
        <5> QED BY <5>1, <5>2
      <4> QED BY <4>2, <4>3 DEF Listed
    <3> QED BY <3>1, <3>2
  <2>3. ASSUME NEW d \in Callers PROVE mail'[d] # "empty" => phase'[d] = "waiting"
    BY <1>1, <1>2 DEF WaitersExact
  <2> QED BY <1>2, <2>1, <2>2, <2>3 DEF WaitersExact
<1> QED BY <1>7, <1>8, <1>9, <1>10 DEF IInv

(* A blocked caller that has its answer stops waiting: it holds the slot   *)
(* it was mailed, or it leaves with nothing.                               *)
LEMMA AnswerRead ==
  ASSUME IInv, NEW c \in Callers, NEW p \in Phases, mail[c] # "empty",
         p = "holding" <=> mail[c] = "granted", p # "waiting",
         mail' = [mail EXCEPT ![c] = "empty"], Become(c, p),
         UNCHANGED <<inUse, waiters, poolClosed, want>>
  PROVE  IInv'
<1>1. /\ TypeOK /\ SlotsExact /\ NoIdleSlot /\ WaitersExact
      /\ waiters \in [Classes -> Seq(Callers)] /\ mail \in [Callers -> Mail]
      /\ phase \in [Callers -> Phases] /\ want \in [Callers -> Classes]
      /\ phase' = [phase EXCEPT ![c] = p]
  BY DEF IInv, TypeOK, PoolTypeOK, Become
<1>2. phase[c] = "waiting"
  BY <1>1 DEF WaitersExact
<1>3. \A x \in Classes : Owners(x)' = Owners(x)
  BY <1>1, <1>2 DEF Owners, Owns
<1>4. TypeOK'
  BY <1>1 DEF TypeOK, PoolTypeOK, Mail
<1>5. SlotsExact' /\ NoIdleSlot'
  BY <1>1, <1>3, SlotsKept DEF NoIdleSlot
<1>6. WaitersExact'
  <2>1. \A x \in Classes : \A i \in DOMAIN waiters[x] :
          waiters[x][i] # c /\ waiters[x][i] \in Callers
    BY <1>1, ElementOfSeq, LenProperties DEF WaitersExact
  <2> QED BY <1>1, <2>1 DEF WaitersExact, Listed
<1> QED BY <1>4, <1>5, <1>6 DEF IInv

(* A caller that times out without an answer leaves its list.              *)
LEMMA LeaveStep ==
  ASSUME IInv, NEW c \in Callers, NEW r \in Classes, r = want[c],
         phase[c] = "waiting", mail[c] = "empty",
         NEW k \in DOMAIN waiters[r], waiters[r][k] = c,
         waiters' = [waiters EXCEPT ![r] = RemoveAt(@, k)], Become(c, "out"),
         UNCHANGED <<inUse, mail, poolClosed, want>>
  PROVE  IInv'
<1> DEFINE w == waiters[r]  v == RemoveAt(waiters[r], k)
<1>1. /\ TypeOK /\ SlotsExact /\ NoIdleSlot /\ WaitersExact
      /\ waiters \in [Classes -> Seq(Callers)] /\ mail \in [Callers -> Mail]
      /\ phase \in [Callers -> Phases] /\ want \in [Callers -> Classes]
      /\ phase' = [phase EXCEPT ![c] = "out"] /\ w \in Seq(Callers)
  BY DEF IInv, TypeOK, PoolTypeOK, Become
<1>2. /\ v \in Seq(Callers) /\ Len(v) = Len(w) - 1
      /\ \A j \in 1..(Len(w) - 1) : v[j] = IF j < k THEN w[j] ELSE w[j + 1]
  BY <1>1, RemoveAtFacts
<1>3. /\ DOMAIN w = 1..Len(w) /\ DOMAIN v = 1..(Len(w) - 1) /\ Len(w) \in Nat
      /\ k \in 1..Len(w)
  BY <1>1, <1>2, LenProperties
<1> HIDE DEF v
<1>4. \A j \in DOMAIN w : w[j] = c => j = k
  BY <1>1 DEF WaitersExact
(* Where the entry at place i of the shorter list came from.               *)
<1> DEFINE from(i) == IF i < k THEN i ELSE i + 1
<1>5. \A i \in DOMAIN v : from(i) \in DOMAIN w /\ v[i] = w[from(i)] /\ from(i) # k
  BY <1>2, <1>3
<1>6. \A i, j \in DOMAIN v : from(i) = from(j) => i = j
  BY <1>3
<1>7. \A j \in DOMAIN w : j # k => \E i \in DOMAIN v : from(i) = j
  <2>1. ASSUME NEW j \in DOMAIN w, j < k PROVE \E i \in DOMAIN v : from(i) = j
    BY <1>3, <2>1
  <2>2. ASSUME NEW j \in DOMAIN w, j > k PROVE \E i \in DOMAIN v : from(i) = j
    <3>1. j - 1 \in DOMAIN v /\ from(j - 1) = j
      BY <1>3, <2>2
    <3> QED BY <3>1
  <2> QED BY <1>3, <2>1, <2>2
<1> HIDE DEF from
<1>8. \A x \in Classes : waiters'[x] = IF x = r THEN v ELSE waiters[x]
  BY <1>1 DEF v
<1>9. \A x \in Classes : Owners(x)' = Owners(x)
  BY <1>1 DEF Owners, Owns
<1>10. TypeOK'
  BY <1>1, <1>2 DEF TypeOK, PoolTypeOK, Phases, v
<1>11. SlotsExact'
  BY <1>1, <1>9, SlotsKept
<1>12. NoIdleSlot'
  <2>1. waiters[r] # <<>>
    BY <1>3
  <2> QED BY <1>1, <1>8, <2>1 DEF NoIdleSlot
<1>13. WaitersExact'
  <2>1. ASSUME NEW x \in Classes, NEW i \in DOMAIN waiters'[x]
        PROVE  /\ phase'[waiters'[x][i]] = "waiting" /\ want'[waiters'[x][i]] = x
               /\ mail'[waiters'[x][i]] = "empty"
               /\ \A j \in DOMAIN waiters'[x] :
                    waiters'[x][i] = waiters'[x][j] => i = j
    <3>1. CASE x = r
      <4>1. waiters'[x] = v /\ v[i] = w[from(i)] /\ from(i) \in DOMAIN w
        BY <1>5, <1>8, <3>1
      <4>2. w[from(i)] # c /\ w[from(i)] \in Callers
        BY <1>1, <1>3, <1>4, <1>5, <1>8, <3>1, <4>1, ElementOfSeq
      <4>3. ASSUME NEW j \in DOMAIN v, v[i] = v[j] PROVE i = j
        <5>1. from(j) \in DOMAIN w /\ w[from(i)] = w[from(j)]
          BY <1>5, <4>1, <4>3
        <5>2. from(i) = from(j)
          BY <1>1, <4>1, <5>1 DEF WaitersExact
        <5> QED BY <1>6, <4>1, <5>2
      <4> QED BY <1>1, <3>1, <4>1, <4>2, <4>3 DEF WaitersExact
    <3>2. CASE x # r
      <4>1. waiters'[x] = waiters[x]
        BY <1>8, <3>2
      <4>2. waiters[x][i] # c /\ waiters[x][i] \in Callers
        BY <1>1, <3>2, <4>1, ElementOfSeq, LenProperties DEF WaitersExact
      <4> QED BY <1>1, <4>1, <4>2 DEF WaitersExact
    <3> QED BY <3>1, <3>2
  <2>2. ASSUME NEW d \in Callers, phase'[d] = "waiting", mail'[d] = "empty"
        PROVE  Listed(d, want[d])'
    <3>1. d # c /\ phase[d] = "waiting" /\ want[d] \in Classes
      BY <1>1, <2>2
    <3>2. PICK j \in DOMAIN waiters[want[d]] : waiters[want[d]][j] = d
      BY <1>1, <2>2, <3>1 DEF WaitersExact, Listed
    <3>3. CASE want[d] = r
      <4>1. j # k
        BY <3>1, <3>2, <3>3
      <4>2. PICK i \in DOMAIN v : from(i) = j
        BY <1>7, <3>2, <3>3, <4>1
      <4>3. v[i] = d
        BY <1>5, <3>2, <3>3, <4>2
      <4> QED BY <1>8, <3>3, <4>3 DEF Listed
    <3>4. CASE want[d] # r
      BY <1>8, <3>1, <3>2, <3>4 DEF Listed
    <3> QED BY <3>3, <3>4
  <2>3. ASSUME NEW d \in Callers PROVE mail'[d] # "empty" => phase'[d] = "waiting"
    BY <1>1 DEF WaitersExact
  <2>4. poolClosed' => \A x \in Classes : waiters'[x] = <<>>
    BY <1>1, <1>3 DEF WaitersExact
  <2> QED BY <2>1, <2>2, <2>3, <2>4 DEF WaitersExact
<1> QED BY <1>10, <1>11, <1>12, <1>13 DEF IInv

(* The pool is closed: every listed caller is told.                        *)
LEMMA CloseStep ==
  ASSUME IInv, Close
  PROVE  IInv'
<1>1. /\ TypeOK /\ SlotsExact /\ NoIdleSlot /\ WaitersExact
      /\ waiters \in [Classes -> Seq(Callers)] /\ mail \in [Callers -> Mail]
      /\ phase \in [Callers -> Phases] /\ want \in [Callers -> Classes]
  BY DEF IInv, TypeOK, PoolTypeOK
<1>2. /\ poolClosed' = TRUE
      /\ mail' = [c \in Callers |-> IF c \in Blocked THEN "closed" ELSE mail[c]]
      /\ waiters' = [r \in Classes |-> <<>>]
      /\ UNCHANGED <<inUse, phase, want>>
  BY DEF Close, ClosePool
<1>3. \A c \in Blocked : phase[c] = "waiting" /\ mail[c] = "empty"
  BY <1>1 DEF Blocked, Range, WaitersExact
<1>4. \A c \in Callers : phase[c] = "waiting" /\ mail[c] = "empty" => c \in Blocked
  BY <1>1 DEF Blocked, Range, WaitersExact, Listed
<1>5. \A x \in Classes : Owners(x)' = Owners(x)
  BY <1>1, <1>2, <1>3 DEF Owners, Owns
<1>6. TypeOK'
  <2>1. <<>> \in Seq(Callers)
    BY EmptySeq
  <2> QED BY <1>1, <1>2, <2>1 DEF TypeOK, PoolTypeOK, Mail
<1>7. SlotsExact'
  BY <1>1, <1>2, <1>5, SlotsKept
<1>8. NoIdleSlot'
  BY <1>2 DEF NoIdleSlot
<1>9. WaitersExact'
  <2>1. \A c \in Callers : phase'[c] = "waiting" => mail'[c] # "empty"
    BY <1>1, <1>2, <1>4
  <2>2. \A c \in Callers : mail'[c] # "empty" => phase'[c] = "waiting"
    BY <1>1, <1>2, <1>3 DEF WaitersExact
  <2> QED BY <1>2, <2>1, <2>2 DEF WaitersExact
<1> QED BY <1>6, <1>7, <1>8, <1>9 DEF IInv

LEMMA NextIInv == IInv /\ [Next]_vars => IInv'
<1> SUFFICES ASSUME IInv, [Next]_vars PROVE IInv'
  OBVIOUS
<1>1. /\ mail \in [Callers -> Mail] /\ phase \in [Callers -> Phases]
      /\ want \in [Callers -> Classes] /\ inUse \in [Classes -> Nat]
      /\ SlotsExact /\ WaitersExact
  BY DEF IInv, TypeOK, PoolTypeOK
<1>2. ASSUME NEW c \in Callers, NEW r \in Classes, AcquireNow(c, r) PROVE IInv'
  BY <1>2, AcquireNowStep
<1>3. ASSUME NEW c \in Callers, NEW r \in Classes, AcquireLater(c, r) PROVE IInv'
  BY <1>3, AcquireLaterStep
<1>4. CASE UNCHANGED vars
  BY <1>4 DEF vars, IInv, TypeOK, PoolTypeOK, SlotsExact, NoIdleSlot, WaitersExact,
     Owners, Owns, Listed
<1>5. ASSUME NEW c \in Callers, NEW r \in Classes, AcquireRefused(c, r) PROVE IInv'
  <2>1. UNCHANGED vars
    BY <1>5 DEF AcquireRefused, Refused, TryRefused, poolVars, vars
  <2> QED BY <1>4, <2>1
<1>6. ASSUME NEW c \in Callers, Granted(c) PROVE IInv'
  BY <1>6, AnswerRead DEF Granted, ReadMail, Phases
<1>7. ASSUME NEW c \in Callers, FailedByClose(c) PROVE IInv'
  BY <1>7, AnswerRead DEF FailedByClose, ReadMail, Phases
<1>8. ASSUME NEW c \in Callers, TimedOut(c) PROVE IInv'
  <2>1. /\ phase[c] = "waiting" /\ want[c] \in Classes /\ Become(c, "out")
        /\ UNCHANGED <<want, poolClosed>>
    BY <1>1, <1>8 DEF TimedOut, Abandon
  <2>2. CASE mail[c] = "granted"
            /\ HandOff(want[c], inUse[want[c]] - 1, [mail EXCEPT ![c] = "empty"])
    <3>1. c \in Owners(want[c])
      BY <2>2 DEF Owners, Owns
    <3> QED BY <2>1, <2>2, <3>1, SlotReturned
  <2>3. CASE mail[c] = "closed" /\ mail' = [mail EXCEPT ![c] = "empty"]
            /\ UNCHANGED <<inUse, waiters>>
    BY <2>1, <2>3, AnswerRead DEF Phases
  <2>4. CASE /\ mail[c] = "empty" /\ UNCHANGED <<inUse, mail>>
            /\ \E i \in DOMAIN waiters[want[c]] :
                 /\ waiters[want[c]][i] = c
                 /\ waiters' = [waiters EXCEPT ![want[c]] = RemoveAt(@, i)]
    BY <2>1, <2>4, LeaveStep
  <2> QED BY <1>8, <2>2, <2>3, <2>4 DEF TimedOut, Abandon
<1>9. ASSUME NEW c \in Callers, GiveBack(c) PROVE IInv'
  <2>1. phase[c] = "holding" /\ want[c] \in Classes /\ c \in Owners(want[c])
    BY <1>1, <1>9 DEF GiveBack, Owners, Owns
  <2>2. mail = [mail EXCEPT ![c] = "empty"]
    BY <1>1, <2>1 DEF WaitersExact
  <2>3. inUse[want[c]] > 0
    BY <1>1, <2>1, OwnersFinite, FS_EmptySet DEF SlotsExact
  <2>4. HandOff(want[c], inUse[want[c]] - 1, [mail EXCEPT ![c] = "empty"])
    BY <1>9, <2>2, <2>3 DEF GiveBack, Release
  <2> QED BY <1>9, <2>1, <2>4, SlotReturned DEF GiveBack, Release
<1>10. CASE Close
  BY <1>10, CloseStep
<1> QED
  BY <1>2, <1>3, <1>4, <1>5, <1>6, <1>7, <1>8, <1>9, <1>10 DEF Next

THEOREM Invariance == Spec => []IInv
<1> QED BY InitIInv, NextIInv, PTL DEF Spec

(* The variables keep their types: no count goes below zero.               *)
THEOREM PoolTypeCorrect == Spec => []TypeOK
<1>1. IInv => TypeOK
  BY DEF IInv
<1> QED BY <1>1, Invariance, PTL

(* Whatever grants, timeouts, releases and the close interleave, the slots *)
(* in use are the leases held and the grants in the mail, and a class      *)
(* never passes its ceiling.                                               *)
THEOREM PoolSlotsExact == Spec => []SlotsExact
<1>1. IInv => SlotsExact
  BY DEF IInv
<1> QED BY <1>1, Invariance, PTL

(* A free slot is never left idle while a caller waits for it.             *)
THEOREM PoolNoIdleSlot == Spec => []NoIdleSlot
<1>1. IInv => NoIdleSlot
  BY DEF IInv
<1> QED BY <1>1, Invariance, PTL

(* A blocked caller is in the list of its class or has its answer.         *)
THEOREM PoolWaitersExact == Spec => []WaitersExact
<1>1. IInv => WaitersExact
  BY DEF IInv
<1> QED BY <1>1, Invariance, PTL

-----------------------------------------------------------------------------
(* Acquisition is FIFO: a listed caller that is not the first of its list  *)
(* gets no slot in this step.                                              *)
LEMMA HandOffServesFirst ==
  ASSUME IInv, NEW c \in Callers, NEW x \in Classes, NEW n,
         HandOff(x, n, [mail EXCEPT ![c] = "empty"]),
         NEW r \in Classes, NEW d \in Callers, NEW j \in DOMAIN waiters[r],
         waiters[r][j] = d, j # 1
  PROVE  mail'[d] # "granted"
<1>1. /\ mail \in [Callers -> Mail] /\ waiters[x] \in Seq(Callers) /\ WaitersExact
      /\ mail[d] = "empty" /\ want[d] = r
  BY DEF IInv, TypeOK, PoolTypeOK, WaitersExact
<1>2. CASE ~poolClosed /\ n < Capacity[x] /\ waiters[x] # <<>>
  <2> DEFINE h == Head(waiters[x])
  <2>1. h \in Callers /\ h = waiters[x][1] /\ 1 \in DOMAIN waiters[x]
    BY <1>1, <1>2, HeadTailProperties, EmptySeq, LenProperties
  <2>2. want[h] = x
    BY <1>1, <2>1 DEF WaitersExact
  <2>3. h # d
    <3>1. ASSUME h = d
          PROVE  FALSE
      <4>1. x = r
        BY <1>1, <2>2, <3>1
      <4>2. waiters[r][1] = waiters[r][j] /\ 1 \in DOMAIN waiters[r]
        BY <2>1, <3>1, <4>1
      <4> QED
        BY <1>1, <4>2 DEF WaitersExact
    <3> QED
      BY <3>1
  <2>4. mail' = [[mail EXCEPT ![c] = "empty"] EXCEPT ![h] = "granted"]
    BY <1>2 DEF HandOff
  <2> HIDE DEF h
  <2> QED
    BY <1>1, <2>1, <2>3, <2>4
<1>3. CASE ~(~poolClosed /\ n < Capacity[x] /\ waiters[x] # <<>>)
  <2>1. mail' = [mail EXCEPT ![c] = "empty"]
    BY <1>3 DEF HandOff
  <2> QED
    BY <1>1, <2>1
<1> QED
  BY <1>2, <1>3

LEMMA OnlyFirstIsServed ==
  ASSUME IInv, [Next]_vars,
         NEW r \in Classes, NEW d \in Callers, NEW j \in DOMAIN waiters[r],
         waiters[r][j] = d, j # 1
  PROVE  ~Owns(d, r)'
<1>1. /\ mail \in [Callers -> Mail] /\ phase \in [Callers -> Phases]
      /\ want \in [Callers -> Classes] /\ WaitersExact /\ inUse \in [Classes -> Nat]
      /\ phase[d] = "waiting" /\ mail[d] = "empty"
  BY DEF IInv, TypeOK, PoolTypeOK, WaitersExact
<1> SUFFICES phase'[d] # "holding" /\ mail'[d] # "granted"
  BY DEF Owns
<1>2. CASE UNCHANGED vars
  BY <1>1, <1>2 DEF vars
<1>3. ASSUME NEW c \in Callers, NEW x \in Classes,
             AcquireNow(c, x) \/ AcquireLater(c, x)
      PROVE  phase'[d] # "holding" /\ mail'[d] # "granted"
  BY <1>1, <1>3 DEF AcquireNow, AcquireLater, TakeSlot, JoinWaiters, Become
<1>4. ASSUME NEW c \in Callers, NEW x \in Classes, AcquireRefused(c, x)
      PROVE  phase'[d] # "holding" /\ mail'[d] # "granted"
  BY <1>2, <1>4 DEF AcquireRefused, Refused, TryRefused, poolVars, vars
<1>5. ASSUME NEW c \in Callers, Granted(c) \/ FailedByClose(c)
      PROVE  phase'[d] # "holding" /\ mail'[d] # "granted"
  BY <1>1, <1>5 DEF Granted, FailedByClose, ReadMail, Become
<1>6. ASSUME NEW c \in Callers, TimedOut(c)
      PROVE  phase'[d] # "holding" /\ mail'[d] # "granted"
  <2>1. want[c] \in Classes /\ phase' = [phase EXCEPT ![c] = "out"]
    BY <1>1, <1>6 DEF TimedOut, Become
  <2>2. phase'[d] # "holding"
    BY <1>1, <2>1
  <2>3. CASE HandOff(want[c], inUse[want[c]] - 1, [mail EXCEPT ![c] = "empty"])
    BY <2>1, <2>2, <2>3, HandOffServesFirst
  <2>4. CASE mail' = [mail EXCEPT ![c] = "empty"] \/ mail' = mail
    BY <1>1, <2>2, <2>4
  <2> QED
    BY <1>6, <2>3, <2>4 DEF TimedOut, Abandon
<1>7. ASSUME NEW c \in Callers, GiveBack(c)
      PROVE  phase'[d] # "holding" /\ mail'[d] # "granted"
  <2>1. phase[c] = "holding" /\ want[c] \in Classes /\ phase' = [phase EXCEPT ![c] = "out"]
    BY <1>1, <1>7 DEF GiveBack, Become
  <2>2. mail = [mail EXCEPT ![c] = "empty"]
    BY <1>1, <2>1 DEF WaitersExact
  <2>3. PICK n : HandOff(want[c], n, [mail EXCEPT ![c] = "empty"])
    BY <1>7, <2>2 DEF GiveBack, Release
  <2>4. mail'[d] # "granted"
    BY <2>1, <2>3, HandOffServesFirst
  <2> QED
    BY <1>1, <2>1, <2>4
<1>8. CASE Close
  BY <1>1, <1>8 DEF Close, ClosePool
<1> QED
  BY <1>2, <1>3, <1>4, <1>5, <1>6, <1>7, <1>8 DEF Next

(* While a caller is listed, nobody that joined the list after it gets a   *)
(* slot of that class.                                                     *)
THEOREM PoolIsFIFO == Spec => NoOvertaking
<1>1. ASSUME IInv, [Next]_vars,
             NEW r \in Classes, NEW c \in Callers, NEW d \in Callers, Before(c, d, r)
      PROVE  ~Owns(d, r)'
  <2>1. PICK i, j \in DOMAIN waiters[r] : i < j /\ waiters[r][j] = d
    BY <1>1 DEF Before
  <2>2. DOMAIN waiters[r] = 1..Len(waiters[r]) /\ Len(waiters[r]) \in Nat
    BY <1>1, LenProperties DEF IInv, TypeOK, PoolTypeOK
  <2>3. j # 1
    BY <2>1, <2>2
  <2> QED
    BY <1>1, <2>1, <2>3, OnlyFirstIsServed
<1>2. IInv /\ [Next]_vars =>
        [\A r \in Classes : \A c, d \in Callers :
           Before(c, d, r) /\ c \in Range(waiters'[r]) => ~Owns(d, r)']_vars
  BY <1>1
<1> QED
  BY <1>2, Invariance, PTL DEF Spec, NoOvertaking

-----------------------------------------------------------------------------
(* The pool implements a counting semaphore: what each step does to the    *)
(* set of owners.                                                          *)
slots == [r \in Classes |-> Owners(r)]

LEMMA AcquireIsAcquire ==
  ASSUME IInv, NEW c \in Callers, NEW r \in Classes, AcquireNow(c, r)
  PROVE  Sem!Acquire(c, r)
<1>1. /\ inUse \in [Classes -> Nat] /\ SlotsExact /\ WaitersExact
      /\ mail \in [Callers -> Mail] /\ phase \in [Callers -> Phases]
      /\ want \in [Callers -> Classes] /\ phase[c] = "out"
      /\ phase' = [phase EXCEPT ![c] = "holding"] /\ want' = [want EXCEPT ![c] = r]
      /\ mail' = mail /\ inUse[r] < Capacity[r]
  BY DEF IInv, TypeOK, PoolTypeOK, AcquireNow, TakeSlot, HasSlot, Become
<1>2. mail[c] = "empty"
  BY <1>1 DEF WaitersExact
<1>3. \A x \in Classes : c \notin Owners(x)
                         /\ Owners(x)' = IF x = r THEN Owners(x) \cup {c} ELSE Owners(x)
  BY <1>1, <1>2 DEF Owners, Owns
<1>4. Cardinality(slots[r]) < Capacity[r]
  BY <1>1 DEF SlotsExact, slots
<1>5. slots' = [slots EXCEPT ![r] = @ \cup {c}]
  BY <1>3 DEF slots
<1>6. Sem!Free(c)
  BY <1>3 DEF Sem!Free
<1> QED
  <2>1. Cardinality([x \in Classes |-> Owners(x)][r]) < Capacity[r]
    BY <1>4 DEF slots
  <2>2. [x \in Classes |-> Owners(x)]'
          = [[x \in Classes |-> Owners(x)] EXCEPT ![r] = @ \cup {c}]
    BY <1>5 DEF slots
  <2>3. \A S : Sem!Cardinality(S) = Cardinality(S)
    BY DEF Sem!Cardinality, Cardinality, Sem!IsFiniteSet, IsFiniteSet
  <2> QED BY <1>6, <2>1, <2>2, <2>3, Zenon DEF Sem!Acquire

LEMMA ReturnIsReleaseOrPass ==
  ASSUME IInv, NEW c \in Callers, NEW r \in Classes, c \in Owners(r),
         HandOff(r, inUse[r] - 1, [mail EXCEPT ![c] = "empty"]),
         Become(c, "out"), UNCHANGED want
  PROVE  Sem!Release(c, r) \/ \E d \in Callers : Sem!Pass(c, d, r)
<1> DEFINE m == [mail EXCEPT ![c] = "empty"]  h == Head(waiters[r])
<1>1. /\ WaitersExact /\ waiters[r] \in Seq(Callers) /\ want[c] = r
      /\ mail \in [Callers -> Mail] /\ phase \in [Callers -> Phases]
      /\ want \in [Callers -> Classes] /\ phase' = [phase EXCEPT ![c] = "out"]
  BY DEF IInv, TypeOK, PoolTypeOK, Become, Owners, Owns
<1>2. \A x \in Classes : x # r => c \notin Owners(x)
  BY <1>1 DEF Owners, Owns
<1>3. CASE ~poolClosed /\ inUse[r] - 1 < Capacity[r] /\ waiters[r] # <<>>
  <2>1. mail' = [m EXCEPT ![h] = "granted"]
    BY <1>3 DEF HandOff
  <2>2. h \in Callers /\ h = waiters[r][1] /\ 1 \in DOMAIN waiters[r]
    BY <1>1, <1>3, HeadTailProperties, EmptySeq, LenProperties
  <2>3. phase[h] = "waiting" /\ want[h] = r /\ mail[h] = "empty"
    BY <1>1, <2>2 DEF WaitersExact
  <2>4. h # c
    BY <2>3 DEF Owners, Owns
  <2> HIDE DEF h
  <2>5. \A x \in Classes : h \notin Owners(x)
    BY <2>3 DEF Owners, Owns
  <2>6. \A x \in Classes : Owners(x)' = IF x = r THEN (Owners(x) \ {c}) \cup {h}
                                         ELSE Owners(x)
    BY <1>1, <2>1, <2>2, <2>3, <2>4 DEF Owners, Owns
  <2>7. slots' = [slots EXCEPT ![r] = (@ \ {c}) \cup {h}]
    BY <2>6 DEF slots
  <2> QED BY <2>2, <2>5, <2>7 DEF Sem!Pass, Sem!Free, slots
<1>4. CASE ~(~poolClosed /\ inUse[r] - 1 < Capacity[r] /\ waiters[r] # <<>>)
  <2>1. mail' = m
    BY <1>4 DEF HandOff
  <2>2. \A x \in Classes : Owners(x)' = IF x = r THEN Owners(x) \ {c} ELSE Owners(x)
    BY <1>1, <2>1 DEF Owners, Owns
  <2>3. slots' = [slots EXCEPT ![r] = @ \ {c}]
    BY <2>2 DEF slots
  <2> QED BY <2>3 DEF Sem!Release, slots
<1> QED BY <1>3, <1>4

(* Every step of the pool is a step of the semaphore or leaves it alone.   *)
LEMMA StepImplements ==
  ASSUME IInv, [Next]_vars
  PROVE  [Sem!Next]_slots
<1>1. /\ mail \in [Callers -> Mail] /\ phase \in [Callers -> Phases]
      /\ want \in [Callers -> Classes] /\ inUse \in [Classes -> Nat]
      /\ SlotsExact /\ WaitersExact
  BY DEF IInv, TypeOK, PoolTypeOK
<1>2. ASSUME \A x \in Classes : Owners(x)' = Owners(x) PROVE slots' = slots
  BY <1>2 DEF slots
<1>3. CASE UNCHANGED vars
  BY <1>2, <1>3 DEF vars, Owners, Owns
<1>4. ASSUME NEW c \in Callers, NEW r \in Classes, AcquireNow(c, r)
      PROVE  [Sem!Next]_slots
  BY <1>4, AcquireIsAcquire DEF Sem!Next
<1>5. ASSUME NEW c \in Callers, NEW r \in Classes, AcquireLater(c, r)
      PROVE  [Sem!Next]_slots
  <2>1. phase[c] = "out" /\ mail[c] = "empty" /\ mail' = mail
        /\ phase' = [phase EXCEPT ![c] = "waiting"] /\ want' = [want EXCEPT ![c] = r]
    BY <1>1, <1>5 DEF AcquireLater, JoinWaiters, Become, WaitersExact
  <2> QED BY <1>1, <1>2, <2>1 DEF Owners, Owns
<1>6. ASSUME NEW c \in Callers, NEW r \in Classes, AcquireRefused(c, r)
      PROVE  [Sem!Next]_slots
  BY <1>3, <1>6 DEF AcquireRefused, Refused, TryRefused, poolVars, vars
<1>7. ASSUME NEW c \in Callers, Granted(c) \/ FailedByClose(c)
      PROVE  [Sem!Next]_slots
  <2>1. \A x \in Classes : Owners(x)' = Owners(x)
    BY <1>1, <1>7 DEF Granted, FailedByClose, ReadMail, Become, Owners, Owns
  <2> QED BY <1>2, <2>1
<1>8. ASSUME NEW c \in Callers, TimedOut(c) PROVE [Sem!Next]_slots
  <2>1. /\ phase[c] = "waiting" /\ want[c] \in Classes /\ Become(c, "out")
        /\ UNCHANGED want
    BY <1>1, <1>8 DEF TimedOut
  <2>2. CASE mail[c] = "granted"
            /\ HandOff(want[c], inUse[want[c]] - 1, [mail EXCEPT ![c] = "empty"])
    <3>1. c \in Owners(want[c])
      BY <2>2 DEF Owners, Owns
    <3> QED BY <2>1, <2>2, <3>1, ReturnIsReleaseOrPass DEF Sem!Next
  <2>3. CASE mail[c] # "granted" /\ (mail' = [mail EXCEPT ![c] = "empty"] \/ mail' = mail)
    <3>1. \A x \in Classes : Owners(x)' = Owners(x)
      BY <1>1, <2>1, <2>3 DEF Become, Owners, Owns
    <3> QED BY <1>2, <3>1
  <2> QED BY <1>8, <2>2, <2>3 DEF TimedOut, Abandon
<1>9. ASSUME NEW c \in Callers, GiveBack(c) PROVE [Sem!Next]_slots
  <2>1. phase[c] = "holding" /\ want[c] \in Classes /\ c \in Owners(want[c])
    BY <1>1, <1>9 DEF GiveBack, Owners, Owns
  <2>2. mail = [mail EXCEPT ![c] = "empty"]
    BY <1>1, <2>1 DEF WaitersExact
  <2>3. inUse[want[c]] > 0
    BY <1>1, <2>1, OwnersFinite, FS_EmptySet DEF SlotsExact
  <2>4. HandOff(want[c], inUse[want[c]] - 1, [mail EXCEPT ![c] = "empty"])
    BY <1>9, <2>2, <2>3 DEF GiveBack, Release
  <2> QED BY <1>9, <2>1, <2>4, ReturnIsReleaseOrPass DEF GiveBack, Sem!Next
<1>10. CASE Close
  <2>1. \A c \in Blocked : mail[c] = "empty" /\ phase[c] = "waiting"
    BY <1>1 DEF Blocked, Range, WaitersExact
  <2>2. \A x \in Classes : Owners(x)' = Owners(x)
    BY <1>1, <1>10, <2>1 DEF Close, ClosePool, Owners, Owns
  <2> QED BY <1>2, <2>2
<1> QED
  BY <1>3, <1>4, <1>5, <1>6, <1>7, <1>8, <1>9, <1>10 DEF Next

(* The pool implements one counting semaphore per class: no caller owns    *)
(* two slots, and a slot passes from a holder to a waiter in one step.     *)
THEOREM PoolImplementsSemaphore == Spec => ImplementsSemaphore
<1>1. Init => slots = [r \in Classes |-> {}]
  BY DEF Init, PoolInit, slots, Owners, Owns
<1>2. Spec => slots = [r \in Classes |-> {}] /\ [][Sem!Next]_slots
  BY <1>1, Invariance, StepImplements, PTL DEF Spec
<1> QED BY <1>2, PTL DEF ImplementsSemaphore, Sem!Spec, Sem!Init, slots
=============================================================================
