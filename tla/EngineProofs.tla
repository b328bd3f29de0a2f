----------------------------- MODULE EngineProofs -----------------------------
(* Proofs about the engine as others see it: the process, which the           *)
(* supervisor keeps, and the events, which subscribers read. The two parts    *)
(* share no state.                                                            *)
(*                                                                            *)
(* Supervisor, for any number of handlers, starts, failures and deaths, as    *)
(* long as a killed process is waited for before a restart. Whatever the      *)
(* handlers do, the flag that keeps a process from being started twice is     *)
(* right: every process but the last one has been waited for, so no late      *)
(* return of cmd.Wait can reset the flag of another one, and a process whose  *)
(* flag is down does not run. The shutdown's kill therefore leaves nothing    *)
(* running, and what runs later was started later.                            *)
(*                                                                            *)
(* EventStream, for any number of producers, subscribers, timers, events and   *)
(* deltas and any sizes of buffer and frame, with Engine.Close at any moment.  *)
(* Of the events on their way to the bus, all but the end of the log have been *)
(* raced by a later append. A subscriber that has read its history knows the   *)
(* log up to an event; of what came later, each event that was not raced is in *)
(* its channel, behind what is missing before it, or is the one on its way and *)
(* aimed at it. A full channel ends the subscription, so no such event is ever *)
(* left out in front of what is sent next.                                     *)
EXTENDS SupervisorProperties, EventStreamProperties, FiniteSetTheorems, SequenceTheorems,
        TLAPS

ChildrenOK ==
    /\ current \in Nat /\ current <= MaxStarts /\ alive \in BOOLEAN
    /\ child \in [Starts -> {"none", "runs", "ended", "reaped"}]
    /\ \A n \in Starts : n # current => child[n] \in {"none", "reaped"}
    /\ \A n \in Starts : n > current => child[n] = "none"
    /\ alive => current \in Starts /\ child[current] \in {"runs", "ended"}
    /\ ~alive => \A n \in Starts : child[n] # "runs"

LEMMA StartKeeps ==
  ASSUME PromptWait, ChildrenOK, StartProcess
  PROVE  ChildrenOK'
  <1>1. /\ current + 1 \in Starts /\ ~alive /\ Waited = {}
        /\ child' = [child EXCEPT ![current + 1] = "runs"]
        /\ current' = current + 1 /\ alive' = TRUE
    BY SupervisorAssumption DEF ChildrenOK, StartProcess, Startable, Starts
  <1>2. \A n \in Starts : child[n] \in {"none", "reaped"}
    BY <1>1 DEF ChildrenOK, Waited
  <1> QED
    BY <1>1, <1>2, SupervisorAssumption DEF ChildrenOK, Starts

LEMMA KillKeeps ==
  ASSUME ChildrenOK, Kill
  PROVE  ChildrenOK'
  BY DEF ChildrenOK, Kill

LEMMA ChildrenNext ==
  ASSUME PromptWait, ChildrenOK, [Next]_vars
  PROVE  ChildrenOK'
  <1>1. CASE UNCHANGED processVars
    BY <1>1 DEF processVars, ChildrenOK
  <1>2. CASE Launch
    BY <1>1, <1>2, StartKeeps DEF Launch, StartRefused
  <1>3. ASSUME NEW n \in Starts, Dies(n) PROVE ChildrenOK'
    <2>1. n = current /\ alive
      BY <1>3 DEF Dies, ChildrenOK
    <2> QED
      BY <1>3, <2>1 DEF Dies, ChildrenOK
  <1>4. ASSUME NEW n \in Starts, WaitReturns(n) PROVE ChildrenOK'
    <2>1. n = current
      BY <1>4 DEF WaitReturns, ChildrenOK
    <2> QED
      BY <1>4, <2>1 DEF WaitReturns, ChildrenOK
  <1>5. ASSUME NEW h \in Handlers, HandlerStep(h) PROVE ChildrenOK'
    <2>1. CASE KillUnhealthy(h)
      BY <2>1, KillKeeps DEF KillUnhealthy
    <2>2. CASE Restart(h)
      BY <1>1, <2>2, StartKeeps DEF Restart, StartRefused
    <2>3. CASE \/ CollectCrash(h) \/ Recover(h) \/ RecordFailure(h) \/ Degrade(h)
               \/ BackedOff(h) \/ RestartFailed(h) \/ Restarted(h)
      BY <1>1, <2>3 DEF CollectCrash, Recover, RecordFailure, Degrade, BackedOff,
         RestartFailed, Restarted
    <2> QED
      BY <1>5, <2>1, <2>2, <2>3 DEF HandlerStep
  <1>6. CASE ShutdownKill
    BY <1>6, KillKeeps DEF ShutdownKill
  <1>7. CASE \/ Tick \/ BeatGetsOld \/ WindowPasses \/ WatchEnds \/ AskShutdown \/ Exit
             \/ UNCHANGED vars
    BY <1>1, <1>7 DEF Tick, BeatGetsOld, WindowPasses, WatchEnds, AskShutdown, Exit, vars,
       processVars
  <1> QED
    BY <1>2, <1>3, <1>4, <1>5, <1>6, <1>7 DEF Next

(* The flag that guards a start is right about the processes, whoever starts, *)
(* kills or waits for them (ManagedProcess.alive).                            *)
THEOREM ProcessFlagIsRight == PromptWait => (Spec => []ChildrenOK)
  <1>1. Init => ChildrenOK
    <2> SUFFICES ASSUME Init PROVE ChildrenOK
      OBVIOUS
    <2>1. 0 <= MaxStarts
      BY SupervisorAssumption
    <2>2. \A n \in Starts : child[n] = "none"
      BY DEF Init
    <2>3. child \in [Starts -> {"none", "runs", "ended", "reaped"}]
      BY DEF Init
    <2>4. current = 0 /\ alive = FALSE
      BY DEF Init
    <2> QED
      BY <2>1, <2>2, <2>3, <2>4 DEF ChildrenOK
  <1>2. CASE PromptWait
    <2>1. ChildrenOK /\ [Next]_vars => ChildrenOK'
      BY <1>2, ChildrenNext
    <2> QED
      BY <1>1, <2>1, PTL DEF Spec
  <1> QED
    BY <1>2

(* Two engines never run at once, however many handlers recover the entity at *)
(* the same time.                                                             *)
THEOREM NeverTwoEngines == PromptWait => (Spec => []OneEngine)
  <1>1. ASSUME ChildrenOK PROVE OneEngine
    <2>1. Running \subseteq {current}
      BY <1>1 DEF ChildrenOK, Running
    <2>2. IsFiniteSet({current}) /\ Cardinality({current}) = 1
      BY FS_Singleton
    <2>3. Cardinality(Running) <= Cardinality({current})
      BY <2>1, <2>2, FS_Subset
    <2> QED
      BY <2>2, <2>3 DEF OneEngine
  <1> QED
    BY <1>1, ProcessFlagIsRight, PTL
-----------------------------------------------------------------------------
(* The shutdown.  Its kill hits the only process that can run; from then on   *)
(* whatever runs has been started late.                                       *)

KilledInv == shutdown \in {"killed", "gone"} => Running \subseteq late

\* A step that starts nothing, and forgets nothing of what started late.
LEMMA KilledKept ==
  ASSUME KilledInv, Running' \subseteq Running, late \subseteq late',
         shutdown' \in {"killed", "gone"} => shutdown \in {"killed", "gone"}
  PROVE  KilledInv'
  BY DEF KilledInv

LEMMA KilledStart ==
  ASSUME ChildrenOK, KilledInv, StartProcess, UNCHANGED shutdown, shutdown # "gone"
  PROVE  KilledInv'
  <1>1. Running' \subseteq Running \cup {current + 1}
    BY DEF StartProcess, Running, ChildrenOK
  <1>2. shutdown = "killed" => late' = late \cup {current + 1}
    BY DEF StartProcess
  <1> QED
    BY <1>1, <1>2 DEF KilledInv

\* Kill starts nothing, and leaves nothing running.
LEMMA KillStopsAll ==
  ASSUME ChildrenOK, Kill
  PROVE  Running' = {}
  BY DEF ChildrenOK, Kill, Running

LEMMA KilledNext ==
  ASSUME ChildrenOK, KilledInv, [Next]_vars
  PROVE  KilledInv'
  <1>1. CASE UNCHANGED <<child, late, shutdown>>
    BY <1>1, KilledKept DEF Running
  <1>2. CASE Launch
    <2>1. UNCHANGED shutdown /\ shutdown = "no"
      BY <1>2 DEF Launch
    <2> QED
      BY <2>1 DEF KilledInv
  <1>3. ASSUME NEW n \in Starts, Dies(n) \/ WaitReturns(n) PROVE KilledInv'
    <2>1. Running' \subseteq Running /\ UNCHANGED <<late, shutdown>>
      BY <1>3 DEF Dies, WaitReturns, Running, ChildrenOK
    <2> QED
      BY <2>1, KilledKept
  <1>4. ASSUME NEW h \in Handlers, HandlerStep(h) PROVE KilledInv'
    <2>1. CASE KillUnhealthy(h)
      BY <2>1, KillStopsAll DEF KillUnhealthy, KilledInv
    <2>2. CASE Restart(h)
      BY <1>1, <2>2, KilledStart DEF Restart, StartRefused, processVars, Up
    <2>3. CASE \/ CollectCrash(h) \/ Recover(h) \/ RecordFailure(h) \/ Degrade(h)
               \/ BackedOff(h) \/ RestartFailed(h) \/ Restarted(h)
      BY <1>1, <2>3 DEF CollectCrash, Recover, RecordFailure, Degrade, BackedOff,
         RestartFailed, Restarted, processVars
    <2> QED
      BY <1>4, <2>1, <2>2, <2>3 DEF HandlerStep
  <1>5. CASE ShutdownKill
    BY <1>5, KillStopsAll DEF ShutdownKill, KilledInv
  <1>6. CASE Exit \/ AskShutdown
    <2>1. /\ Running' = Running /\ UNCHANGED late
          /\ shutdown' \in {"killed", "gone"} => shutdown \in {"killed", "gone"}
      BY <1>6 DEF Exit, AskShutdown, Running, processVars
    <2> QED
      BY <2>1, KilledKept
  <1>7. CASE Tick \/ BeatGetsOld \/ WindowPasses \/ WatchEnds \/ UNCHANGED vars
    BY <1>1, <1>7 DEF Tick, BeatGetsOld, WindowPasses, WatchEnds, vars, processVars
  <1> QED
    BY <1>2, <1>3, <1>4, <1>5, <1>6, <1>7 DEF Next

(* What outlives the supervisor was started after its kill, by a handler that *)
(* was past its back-off: the kill itself misses no process.                  *)
THEOREM ShutdownMissesNone == PromptWait => (Spec => []ShutdownKillsAll)
  <1>1. Init => KilledInv
    BY DEF Init, KilledInv
  <1>2. ChildrenOK /\ KilledInv /\ [Next]_vars => KilledInv'
    BY KilledNext
  <1>3. KilledInv => ShutdownKillsAll
    BY DEF KilledInv, ShutdownKillsAll
  <1> QED
    BY <1>1, <1>2, <1>3, ProcessFlagIsRight, PTL DEF Spec
-----------------------------------------------------------------------------
(* The event streams. *)

HandRow == [pc : {"idle", "flush", "publish", "send"}, seq : Nat, frame : Seq(Nat),
            targets : SUBSET Subscribers]
SubRow == [pc : {"none", "read", "replay", "check", "live", "over", "left"},
           after : Nat, last : Nat, got : Seq(Nat), history : Nat, ch : Seq(Nat),
           open : BOOLEAN, early : BOOLEAN, blind : BOOLEAN]

StreamTypes ==
    /\ log \in Nat /\ deltas \in Nat /\ pending \in Seq(Nat)
    /\ hand \in [Goroutines -> HandRow]
    /\ sub \in [Subscribers -> SubRow]

(* What is on its way is a producer's, and the end of the log or raced.       *)
HandOK == \A x \in Goroutines : hand[x].seq # 0 =>
    /\ x \in Producers /\ hand[x].pc \in {"publish", "send"}
    /\ hand[x].seq <= log /\ (hand[x].seq = log \/ hand[x].seq \in raced)

Reading == {"read", "replay", "check", "live"}
Joined == {"replay", "check", "live"}     \* the history has been read

(* The last event that a stream has delivered or has in its history.          *)
Known(s) == IF sub[s].pc = "live" THEN sub[s].last ELSE sub[s].history

InChannel(s, v) == \E i \in 1 .. Len(sub[s].ch) : sub[s].ch[i] = v
Aimed(s, v) == \E x \in Goroutines :
    /\ hand[x].seq = v
    /\ hand[x].pc = "publish" \/ (hand[x].pc = "send" /\ s \in hand[x].targets)

GotOrdered(s) == \A i, j \in 1 .. Len(sub[s].got) :
    /\ sub[s].got[i] \in (sub[s].after + 1) .. sub[s].last
    /\ i < j => sub[s].got[i] < sub[s].got[j]
GotAll(s) == \A v \in ((sub[s].after + 1) .. sub[s].last) \ raced :
    \E i \in 1 .. Len(sub[s].got) : sub[s].got[i] = v

HistoryOK(s) ==
    /\ sub[s].after <= sub[s].last
    /\ sub[s].pc = "read" => sub[s].after <= log /\ ~sub[s].blind
    /\ sub[s].pc \in {"none", "read", "over", "left"} => sub[s].last = sub[s].after
    /\ sub[s].pc = "replay" => sub[s].last <= sub[s].history
    /\ sub[s].pc = "check" => sub[s].last = sub[s].history
    /\ sub[s].pc \in {"over", "left"} => sub[s].got = <<>>

(* A channel leaves nothing out behind what is known, but what was raced.     *)
Linked(s) == \A i \in 1 .. Len(sub[s].ch) :
    /\ sub[s].ch[i] <= log
    /\ sub[s].pc \in Joined => \A v \in ((Known(s) + 1) .. (sub[s].ch[i] - 1)) \ raced :
         \E j \in 1 .. (i - 1) : sub[s].ch[j] = v

Arrived(s) == sub[s].pc \in Joined /\ sub[s].open =>
    \A v \in ((Known(s) + 1) .. log) \ raced : InChannel(s, v) \/ Aimed(s, v)

StreamOK(s) ==
    /\ HistoryOK(s) /\ GotOrdered(s)
    /\ ~sub[s].blind => GotAll(s) /\ Linked(s) /\ Arrived(s)

StreamInv == StreamTypes /\ HandOK /\ \A s \in Subscribers : StreamOK(s)

-----------------------------------------------------------------------------
LEMMA StreamStarts == StreamInit => StreamInv
  <1> SUFFICES ASSUME StreamInit PROVE StreamInv
    OBVIOUS
  <1>1. EmptyHand \in HandRow /\ NoSub \in SubRow
    BY DEF EmptyHand, NoSub, HandRow, SubRow
  <1>2. StreamTypes
    BY <1>1 DEF StreamInit, StreamTypes
  <1>3. HandOK
    BY DEF StreamInit, HandOK, EmptyHand
  <1>4. ASSUME NEW s \in Subscribers PROVE StreamOK(s)
    BY DEF StreamInit, NoSub, StreamOK, HistoryOK, GotOrdered, GotAll, Linked, Arrived, Joined
  <1> QED
    BY <1>2, <1>3, <1>4 DEF StreamInv

(* What a stream has shown, in a step that shows it nothing.                  *)
LEMMA GotKept ==
  ASSUME NEW s \in Subscribers, raced \subseteq raced', sub'[s].got = sub[s].got,
         sub'[s].last = sub[s].last, sub'[s].after = sub[s].after
  PROVE  (GotOrdered(s) => GotOrdered(s)') /\ (GotAll(s) => GotAll(s)')
  BY DEF GotOrdered, GotAll

(* A subscriber that a step leaves alone: nothing that was aimed at it may be *)
(* lost, and what is appended to the log must be aimed at it.                 *)
LEMMA StreamKept ==
  ASSUME StreamTypes, NEW s \in Subscribers, StreamOK(s), sub'[s] = sub[s],
         raced \subseteq raced',
         \/ log' = log
         \/ log' = log + 1 /\ Aimed(s, log)',
         sub[s].open => \A v \in 1 .. log : Aimed(s, v) => Aimed(s, v)'
  PROVE  StreamOK(s)'
  <1>1. log \in Nat /\ sub[s] \in SubRow
    BY DEF StreamTypes
  <1>2. Known(s)' = Known(s) /\ Known(s) \in Nat
    BY <1>1 DEF Known, SubRow
  <1>3. log' \in Nat /\ log <= log'
    BY <1>1
  <1>4. HistoryOK(s)' /\ GotOrdered(s)'
    BY <1>1, <1>3, GotKept DEF StreamOK, HistoryOK, SubRow
  <1>5. ASSUME ~sub[s].blind PROVE GotAll(s)' /\ Linked(s)'
    <2>1. GotAll(s)'
      BY <1>5, GotKept DEF StreamOK
    <2>2. Linked(s)'
      <3> SUFFICES ASSUME NEW i \in 1 .. Len(sub[s].ch)
                   PROVE  /\ sub[s].ch[i] <= log'
                          /\ sub[s].pc \in Joined =>
                               \A v \in ((Known(s) + 1) .. (sub[s].ch[i] - 1)) \ raced' :
                                 \E j \in 1 .. (i - 1) : sub[s].ch[j] = v
        BY <1>2 DEF Linked
      <3>1. Linked(s)
        BY <1>5 DEF StreamOK
      <3>2. sub[s].ch[i] \in Int
        BY <1>1 DEF SubRow
      <3>3. sub[s].ch[i] <= log
        BY <3>1 DEF Linked
      <3>4. sub[s].ch[i] <= log'
        BY <1>1, <1>3, <3>2, <3>3
      <3>5. sub[s].pc \in Joined =>
              \A v \in ((Known(s) + 1) .. (sub[s].ch[i] - 1)) \ raced :
                \E j \in 1 .. (i - 1) : sub[s].ch[j] = v
        BY <3>1 DEF Linked
      <3> QED
        BY <3>4, <3>5
    <2> QED
      BY <2>1, <2>2
  <1>6. ASSUME ~sub[s].blind PROVE Arrived(s)'
    <2> SUFFICES ASSUME sub[s].pc \in Joined, sub[s].open,
                        NEW v \in ((Known(s) + 1) .. log') \ raced'
                 PROVE  InChannel(s, v)' \/ Aimed(s, v)'
      BY <1>2 DEF Arrived
    <2>1. CASE v \in (Known(s) + 1) .. log
      <3>1. InChannel(s, v) \/ Aimed(s, v)
        BY <1>6, <2>1 DEF StreamOK, Arrived
      <3>2. InChannel(s, v) => InChannel(s, v)'
        BY DEF InChannel
      <3>3. v \in 1 .. log
        BY <1>2, <2>1
      <3> QED
        BY <3>1, <3>2, <3>3
    <2>2. CASE v \notin (Known(s) + 1) .. log
      <3>1. v = log + 1 /\ log' = log + 1
        BY <1>1, <1>2, <2>2
      <3> QED
        BY <3>1
    <2> QED
      BY <2>1, <2>2
  <1> QED
    BY <1>4, <1>5, <1>6 DEF StreamOK

(* A step of one goroutine that neither appends nor loses its event.          *)
LEMMA AimKept ==
  ASSUME StreamTypes, HandOK, NEW s \in Subscribers, NEW x \in Goroutines,
         \A y \in Goroutines \ {x} : hand'[y] = hand[y],
         \A v \in 1 .. log : hand[x].seq = v => Aimed(s, v)' \/ ~sub[s].open
  PROVE  sub[s].open => \A v \in 1 .. log : Aimed(s, v) => Aimed(s, v)'
  <1> SUFFICES ASSUME sub[s].open, NEW v \in 1 .. log, Aimed(s, v) PROVE Aimed(s, v)'
    OBVIOUS
  <1>1. PICK y \in Goroutines : /\ hand[y].seq = v
                                /\ \/ hand[y].pc = "publish"
                                   \/ hand[y].pc = "send" /\ s \in hand[y].targets
    BY DEF Aimed
  <1>2. CASE y = x
    BY <1>1, <1>2 DEF StreamTypes
  <1>3. CASE y # x
    BY <1>1, <1>3 DEF Aimed
  <1> QED
    BY <1>2, <1>3

-----------------------------------------------------------------------------
(* Goroutines. *)

LEMMA Goroutine ==
  Producers \subseteq Goroutines /\ Timers \subseteq Goroutines /\ Closer \in Goroutines
  BY DEF Goroutines

(* A goroutine that has no durable event, before or after.                    *)
LEMMA NoEventStep ==
  ASSUME StreamInv, NEW x \in Goroutines, hand[x].seq = 0,
         hand' \in [Goroutines -> HandRow],
         \A y \in Goroutines \ {x} : hand'[y] = hand[y],
         hand'[x].seq = 0,
         deltas' \in Nat, pending' \in Seq(Nat), UNCHANGED <<log, raced, sub>>
  PROVE  StreamInv'
  <1>1. StreamTypes' /\ HandOK'
    BY DEF StreamInv, StreamTypes, HandOK
  <1>2. ASSUME NEW s \in Subscribers PROVE StreamOK(s)'
    BY <1>2, AimKept, StreamKept DEF StreamInv
  <1> QED
    BY <1>1, <1>2 DEF StreamInv

LEMMA IdleHasNone ==
  ASSUME HandOK, NEW x \in Goroutines, hand[x].pc \in {"idle", "flush"}
  PROVE  hand[x].seq = 0
  BY DEF HandOK

LEMMA EmitStep ==
  ASSUME StreamInv, NEW p \in Producers, Emit(p)
  PROVE  StreamInv'
  <1>1. p \in Goroutines /\ hand[p].pc = "idle" /\ hand[p].seq = 0
    BY Goroutine, IdleHasNone DEF Emit, StreamInv
  <1> DEFINE row == [pc |-> "publish", seq |-> log + 1, frame |-> <<>>, targets |-> {}]
  <1>2. row \in HandRow
    BY DEF HandRow, StreamInv, StreamTypes
  <1>3. hand' = [hand EXCEPT ![p] = row] /\ log' = log + 1 /\ UNCHANGED <<deltas, pending, sub>>
        /\ raced' = raced \cup OnTheWay
    BY DEF Emit, Carry
  <1>4. hand'[p] = row /\ \A y \in Goroutines \ {p} : hand'[y] = hand[y]
    BY <1>1, <1>3 DEF StreamInv, StreamTypes
  <1>5. hand' \in [Goroutines -> HandRow]
    BY <1>1, <1>2, <1>3 DEF StreamInv, StreamTypes
  <1>6. StreamTypes'
    BY <1>3, <1>5 DEF StreamInv, StreamTypes
  <1>7. HandOK'
    <2> SUFFICES ASSUME NEW y \in Goroutines, hand'[y].seq # 0
                 PROVE  /\ y \in Producers /\ hand'[y].pc \in {"publish", "send"}
                        /\ hand'[y].seq <= log'
                        /\ hand'[y].seq = log' \/ hand'[y].seq \in raced'
      BY DEF HandOK
    <2>1. CASE y = p
      BY <1>3, <1>4, <2>1 DEF StreamInv, StreamTypes
    <2>2. CASE y # p
      <3>1. hand'[y] = hand[y] /\ hand[y].seq \in OnTheWay
        BY <1>4, <2>2 DEF OnTheWay
      <3>2. /\ y \in Producers /\ hand[y].pc \in {"publish", "send"} /\ hand[y].seq <= log
            /\ hand[y].seq \in Nat /\ log \in Nat
        BY <3>1 DEF StreamInv, StreamTypes, HandOK, HandRow
      <3> QED
        BY <1>3, <3>1, <3>2
    <2> QED
      BY <2>1, <2>2
  <1>8. ASSUME NEW s \in Subscribers PROVE StreamOK(s)'
    <2>1. Aimed(s, log)'
      BY <1>1, <1>3, <1>4 DEF Aimed
    <2>2. sub[s].open => \A v \in 1 .. log : Aimed(s, v) => Aimed(s, v)'
      BY <1>1, <1>4, AimKept DEF StreamInv
    <2> QED
      BY <1>3, <2>1, <2>2, StreamKept DEF StreamInv
  <1> QED
    BY <1>6, <1>7, <1>8 DEF StreamInv

LEMMA DeltaStep ==
  ASSUME StreamInv, NEW p \in Producers, p = Loop, Delta
  PROVE  StreamInv'
  <1>1. p \in Goroutines /\ hand[p].pc = "idle" /\ hand[p].seq = 0
    BY Goroutine, IdleHasNone DEF Delta, StreamInv
  <1>2. deltas' = deltas + 1 /\ deltas' \in Nat /\ UNCHANGED <<log, raced, sub>>
    BY DEF Delta, StreamInv, StreamTypes
  <1>3. <<deltas + 1>> \in Seq(Nat) /\ Append(pending, deltas + 1) \in Seq(Nat)
    BY DEF StreamInv, StreamTypes
  <1> DEFINE row == [pc |-> "publish", seq |-> 0, frame |-> <<deltas + 1>>, targets |-> {}]
             flush == [pc |-> "flush", seq |-> 0, frame |-> <<>>, targets |-> {}]
  <1>4. row \in HandRow /\ flush \in HandRow /\ row.seq = 0 /\ flush.seq = 0
    BY <1>3 DEF HandRow
  <1>5. pending' \in Seq(Nat)
    BY <1>3 DEF Delta, StreamInv, StreamTypes
  <1>6. \/ hand' = [hand EXCEPT ![p] = row]
        \/ hand' = [hand EXCEPT ![p] = flush]
        \/ hand' = hand
    BY DEF Delta, Carry, Now, EmptyHand
  <1> HIDE DEF row, flush
  <1>7. /\ hand' \in [Goroutines -> HandRow] /\ hand'[p].seq = 0
        /\ \A y \in Goroutines \ {p} : hand'[y] = hand[y]
    BY <1>1, <1>4, <1>6 DEF StreamInv, StreamTypes
  <1> QED
    BY <1>1, <1>2, <1>5, <1>7, NoEventStep

(* The timer's callback and Close begin to flush; flushKey takes the frame.   *)
LEMMA FlushSteps ==
  ASSUME StreamInv, NEW x \in Goroutines,
         (Fire(x) /\ x \in Timers) \/ (CloseCoalescer /\ x = Closer) \/ Flush(x),
         hand[x].seq = 0
  PROVE  StreamInv'
  <1> DEFINE row(pc) == [pc |-> pc, seq |-> 0, frame |-> <<>>, targets |-> {}]
             carry == [pc |-> "publish", seq |-> 0, frame |-> pending, targets |-> {}]
  <1>1. /\ \A pc \in {"idle", "flush"} : row(pc) \in HandRow /\ row(pc).seq = 0
        /\ carry \in HandRow /\ carry.seq = 0
    BY DEF HandRow, StreamInv, StreamTypes
  <1>2. \/ \E pc \in {"idle", "flush"} : hand' = [hand EXCEPT ![x] = row(pc)]
        \/ hand' = [hand EXCEPT ![x] = carry]
    BY DEF Fire, CloseCoalescer, Flush, Now, Carry, EmptyHand
  <1>3. deltas' \in Nat /\ pending' \in Seq(Nat) /\ UNCHANGED <<log, raced, sub>>
    <2>1. <<>> \in Seq(Nat) /\ deltas \in Nat /\ pending \in Seq(Nat)
      BY DEF StreamInv, StreamTypes
    <2>2. UNCHANGED <<log, raced, deltas, sub>> /\ pending' \in {pending, <<>>}
      BY DEF Fire, CloseCoalescer, Flush, Taken
    <2> QED
      BY <2>1, <2>2
  <1> HIDE DEF row, carry
  <1>4. /\ hand' \in [Goroutines -> HandRow] /\ hand'[x].seq = 0
        /\ \A y \in Goroutines \ {x} : hand'[y] = hand[y]
    BY <1>1, <1>2 DEF StreamInv, StreamTypes
  <1> QED
    BY <1>3, <1>4, NoEventStep

-----------------------------------------------------------------------------
(* The bus. *)

LEMMA PublishStep ==
  ASSUME StreamInv, NEW x \in Goroutines, Publish(x)
  PROVE  StreamInv'
  <1> USE DEF StreamInv
  <1>1. hand[x] \in HandRow /\ Registered \subseteq Subscribers /\ EmptyHand \in HandRow
    BY DEF StreamTypes, Registered, EmptyHand, HandRow
  <1> DEFINE row == IF Registered = {} THEN EmptyHand
                    ELSE [hand[x] EXCEPT !.pc = "send", !.targets = Registered]
  <1>2. row \in HandRow
    BY <1>1 DEF HandRow
  <1>3. hand' = [hand EXCEPT ![x] = row] /\ UNCHANGED <<log, raced, deltas, pending, sub>>
    BY DEF Publish
  <1>4. /\ row.seq # 0 => row.seq = hand[x].seq /\ row.pc = "send"
        /\ Registered # {} => row.seq = hand[x].seq /\ row.pc = "send" /\ row.targets = Registered
    BY <1>1 DEF EmptyHand, HandRow
  <1> HIDE DEF row
  <1>5. hand'[x] = row /\ \A y \in Goroutines \ {x} : hand'[y] = hand[y]
    BY <1>3 DEF StreamTypes
  <1>6. StreamTypes'
    BY <1>2, <1>3 DEF StreamTypes
  <1>7. HandOK'
    BY <1>3, <1>4, <1>5 DEF HandOK
  <1>8. ASSUME NEW s \in Subscribers PROVE StreamOK(s)'
    <2>1. ASSUME NEW v \in 1 .. log, hand[x].seq = v, sub[s].open PROVE Aimed(s, v)'
      BY <1>4, <1>5, <2>1 DEF Aimed, Registered
    <2> QED
      BY <1>3, <1>5, <2>1, AimKept, StreamKept
  <1> QED
    BY <1>6, <1>7, <1>8

(* What sending to one subscriber does to the goroutine that sends.           *)
LEMMA SentFacts ==
  ASSUME StreamInv, NEW x \in Goroutines, NEW s \in Subscribers, hand[x].pc = "send",
         Sent(x, s), UNCHANGED <<log, raced>>
  PROVE  /\ hand' \in [Goroutines -> HandRow] /\ HandOK'
         /\ \A y \in Goroutines \ {x} : hand'[y] = hand[y]
         /\ \A r \in Subscribers \ {s} :
              \A v \in 1 .. log : Aimed(r, v) => Aimed(r, v)'
  <1> USE DEF StreamInv
  <1>1. hand[x] \in HandRow /\ EmptyHand \in HandRow
    BY DEF StreamTypes, EmptyHand, HandRow
  <1> DEFINE row == IF hand[x].targets = {s} THEN EmptyHand
                    ELSE [hand[x] EXCEPT !.targets = hand[x].targets \ {s}]
  <1>2. row \in HandRow
    BY <1>1 DEF HandRow
  <1>3. hand' = [hand EXCEPT ![x] = row]
    BY DEF Sent
  <1>4. /\ row.seq # 0 => row.seq = hand[x].seq /\ row.pc = "send"
        /\ hand[x].targets # {s} => /\ row.seq = hand[x].seq /\ row.pc = "send"
                                    /\ row.targets = hand[x].targets \ {s}
    BY <1>1 DEF EmptyHand, HandRow
  <1> HIDE DEF row
  <1>5. hand'[x] = row /\ \A y \in Goroutines \ {x} : hand'[y] = hand[y]
    BY <1>3 DEF StreamTypes
  <1>6. HandOK'
    BY <1>4, <1>5 DEF HandOK
  <1>7. ASSUME NEW r \in Subscribers \ {s}, NEW v \in 1 .. log, Aimed(r, v)
        PROVE  Aimed(r, v)'
    <2>1. PICK y \in Goroutines : /\ hand[y].seq = v
                                  /\ \/ hand[y].pc = "publish"
                                     \/ hand[y].pc = "send" /\ r \in hand[y].targets
      BY <1>7 DEF Aimed
    <2>2. y = x => hand'[x].seq = v /\ hand'[x].pc = "send" /\ r \in hand'[x].targets
      BY <1>4, <1>5, <2>1
    <2> QED
      BY <1>5, <2>1, <2>2 DEF Aimed
  <1> QED
    BY <1>2, <1>3, <1>5, <1>6, <1>7 DEF StreamTypes

(* The channel of a subscriber takes the next event: the one before it is     *)
(* known, or is in the channel, since only the last event can be on its way.  *)
LEMMA SentIsLinked ==
  ASSUME StreamInv, NEW x \in Goroutines, NEW s \in Subscribers, sub[s].open, ~sub[s].blind,
         hand[x].pc = "send", UNCHANGED <<log, raced>>,
         \A y \in Goroutines \ {x} : hand'[y] = hand[y],
         sub'[s] = [sub[s] EXCEPT !.ch = Append(sub[s].ch, hand[x].seq)]
  PROVE  Linked(s)' /\ Arrived(s)'
  <1> DEFINE q == sub[s].ch  n == hand[x].seq  k == Known(s)
  <1>1. /\ sub[s] \in SubRow /\ q \in Seq(Nat) /\ n \in Nat /\ log \in Nat /\ k \in Nat
        /\ Linked(s) /\ Arrived(s)
    BY DEF StreamInv, StreamTypes, StreamOK, HandRow, SubRow, Known
  <1>2. /\ sub'[s].ch = Append(q, n) /\ sub'[s].pc = sub[s].pc /\ sub'[s].open
        /\ Known(s)' = k
    BY <1>1 DEF SubRow, Known
  <1>3. /\ Len(Append(q, n)) = Len(q) + 1 /\ Append(q, n)[Len(q) + 1] = n
        /\ \A i \in 1 .. Len(q) : Append(q, n)[i] = q[i]
    BY <1>1
  <1>4. n <= log
    BY <1>1 DEF StreamInv, HandOK
  <1>5. ASSUME sub[s].pc \in Joined, NEW v \in ((k + 1) .. (n - 1)) \ raced
        PROVE  \E j \in 1 .. Len(q) : q[j] = v
    <2>1. v \in (k + 1) .. log /\ v # 0 /\ v # log
      BY <1>1, <1>4
    <2>2. ~Aimed(s, v)
      BY <2>1 DEF Aimed, StreamInv, HandOK
    <2> QED
      BY <1>1, <1>5, <2>1, <2>2 DEF Arrived, InChannel
  <1>6. Linked(s)'
    <2> HIDE DEF q, n, k
    <2> SUFFICES ASSUME NEW i \in 1 .. (Len(q) + 1)
                 PROVE  /\ Append(q, n)[i] <= log
                        /\ sub[s].pc \in Joined =>
                             \A v \in ((k + 1) .. (Append(q, n)[i] - 1)) \ raced :
                               \E j \in 1 .. (i - 1) : Append(q, n)[j] = v
      BY <1>2, <1>3 DEF Linked
    <2>1. CASE i = Len(q) + 1
      BY <1>1, <1>3, <1>4, <1>5, <2>1
    <2>2. CASE i # Len(q) + 1
      <3>1. i \in 1 .. Len(q)
        BY <1>1, <2>2
      <3>2. /\ q[i] <= log
            /\ sub[s].pc \in Joined => \A v \in ((k + 1) .. (q[i] - 1)) \ raced :
                 \E j \in 1 .. (i - 1) : q[j] = v
        BY <1>1, <3>1 DEF Linked, q, k
      <3> QED
        BY <1>1, <1>3, <3>1, <3>2
    <2> QED
      BY <2>1, <2>2
  <1>7. Arrived(s)'
    <2> SUFFICES ASSUME sub[s].pc \in Joined, NEW v \in ((k + 1) .. log) \ raced
                 PROVE  InChannel(s, v)' \/ Aimed(s, v)'
      BY <1>2 DEF Arrived
    <2>1. CASE InChannel(s, v)
      BY <1>1, <1>2, <1>3, <2>1 DEF InChannel
    <2>2. CASE n = v
      <3>1. Len(q) + 1 \in 1 .. Len(sub'[s].ch) /\ sub'[s].ch[Len(q) + 1] = v
        BY <1>1, <1>2, <1>3, <2>2
      <3> QED
        BY <3>1 DEF InChannel
    <2>3. CASE n # v /\ Aimed(s, v)
      <3>1. PICK y \in Goroutines : /\ hand[y].seq = v
                                    /\ \/ hand[y].pc = "publish"
                                       \/ hand[y].pc = "send" /\ s \in hand[y].targets
        BY <2>3 DEF Aimed
      <3>2. y # x
        BY <2>3, <3>1
      <3> QED
        BY <3>1, <3>2 DEF Aimed
    <2> QED
      BY <1>1, <2>1, <2>2, <2>3 DEF Arrived
  <1> QED
    BY <1>6, <1>7

LEMMA SendStep ==
  ASSUME StreamInv, NEW x \in Goroutines, NEW s \in Subscribers, Send(x, s)
  PROVE  StreamInv'
  <1>1. hand[x].pc = "send" /\ Sent(x, s) /\ UNCHANGED <<log, raced, deltas, pending>>
    BY DEF Send
  <1>2. /\ hand' \in [Goroutines -> HandRow] /\ HandOK'
        /\ \A y \in Goroutines \ {x} : hand'[y] = hand[y]
        /\ \A r \in Subscribers \ {s} : \A v \in 1 .. log : Aimed(r, v) => Aimed(r, v)'
    BY <1>1, SentFacts
  <1>3. sub \in [Subscribers -> SubRow] /\ sub[s] \in SubRow /\ hand[x].seq \in Nat
    BY DEF StreamInv, StreamTypes, HandRow
  <1>4. CASE ~sub[s].open
    <2>1. sub' = sub
      BY <1>4 DEF Send
    <2>2. StreamTypes'
      BY <1>1, <1>2, <2>1 DEF StreamInv, StreamTypes
    <2>3. ASSUME NEW r \in Subscribers PROVE StreamOK(r)'
      BY <1>1, <1>2, <1>4, <2>1, StreamKept DEF StreamInv
    <2> QED
      BY <1>2, <2>2, <2>3 DEF StreamInv
  <1>5. CASE sub[s].open
    <2> DEFINE full == [sub[s] EXCEPT !.open = FALSE]
               took == [sub[s] EXCEPT !.ch = Append(sub[s].ch, hand[x].seq)]
    <2>1. full \in SubRow /\ took \in SubRow
      <3>1. Append(sub[s].ch, hand[x].seq) \in Seq(Nat)
        BY <1>3 DEF SubRow
      <3> QED
        BY <1>3, <3>1 DEF SubRow
    <2>2. sub' = [sub EXCEPT ![s] = full] \/ sub' = [sub EXCEPT ![s] = took]
      BY <1>3, <1>5 DEF Send, Overflow
    <2> HIDE DEF full, took
    <2>3. sub' \in [Subscribers -> SubRow] /\ \A r \in Subscribers \ {s} : sub'[r] = sub[r]
      BY <1>3, <2>1, <2>2
    <2>4. StreamTypes'
      BY <1>1, <1>2, <2>3 DEF StreamInv, StreamTypes
    <2>5. ASSUME NEW r \in Subscribers \ {s} PROVE StreamOK(r)'
      BY <1>1, <1>2, <2>3, StreamKept DEF StreamInv
    <2>6. StreamOK(s)'
      <3>1. CASE sub'[s] = full
        <4>1. /\ ~sub'[s].open /\ sub'[s].pc = sub[s].pc /\ sub'[s].ch = sub[s].ch
              /\ sub'[s].last = sub[s].last /\ sub'[s].history = sub[s].history
              /\ sub'[s].after = sub[s].after /\ sub'[s].got = sub[s].got
              /\ sub'[s].blind = sub[s].blind
          BY <1>3, <3>1 DEF full, SubRow
        <4> QED
          <5>1. StreamOK(s) /\ Known(s)' = Known(s)
            BY <4>1 DEF StreamInv, Known
          <5>2. HistoryOK(s)' /\ GotOrdered(s)' /\ (~sub[s].blind => GotAll(s)')
            BY <1>1, <4>1, <5>1, GotKept DEF StreamOK, HistoryOK
          <5>3. ~sub[s].blind => Linked(s)' /\ Arrived(s)'
            BY <1>1, <4>1, <5>1 DEF StreamOK, Linked, Arrived
          <5> QED
            BY <4>1, <5>2, <5>3 DEF StreamOK
      <3>2. CASE sub'[s] = took
        <4>1. /\ sub'[s].pc = sub[s].pc /\ sub'[s].last = sub[s].last
              /\ sub'[s].history = sub[s].history /\ sub'[s].after = sub[s].after
              /\ sub'[s].got = sub[s].got /\ sub'[s].blind = sub[s].blind
          BY <1>3, <3>2 DEF took, SubRow
        <4>2. HistoryOK(s)' /\ GotOrdered(s)' /\ (~sub[s].blind => GotAll(s)')
          BY <1>1, <4>1, GotKept DEF StreamInv, StreamOK, HistoryOK
        <4>3. ~sub[s].blind => Linked(s)' /\ Arrived(s)'
          BY <1>1, <1>2, <1>5, <3>2, SentIsLinked DEF took
        <4> QED
          BY <4>1, <4>2, <4>3 DEF StreamOK
      <3> QED
        BY <1>3, <2>1, <2>2, <3>1, <3>2
    <2> QED
      BY <1>2, <2>4, <2>5, <2>6 DEF StreamInv
  <1> QED
    BY <1>4, <1>5

-----------------------------------------------------------------------------
(* The subscribers. *)

LEMMA OwnStep ==
  ASSUME StreamInv, NEW s \in Subscribers, NEW r \in SubRow, sub' = [sub EXCEPT ![s] = r],
         UNCHANGED <<log, raced, hand, deltas, pending>>, StreamOK(s)'
  PROVE  StreamInv'
  <1>1. /\ sub' \in [Subscribers -> SubRow]
        /\ \A u \in Subscribers \ {s} : sub'[u] = sub[u]
    BY DEF StreamInv, StreamTypes
  <1>2. StreamTypes' /\ HandOK'
    BY <1>1 DEF StreamInv, StreamTypes, HandOK
  <1>3. ASSUME NEW u \in Subscribers PROVE StreamOK(u)'
    <2>1. CASE u # s
      <3>1. \A v \in 1 .. log : Aimed(u, v) => Aimed(u, v)'
        BY DEF Aimed
      <3> QED
        BY <1>1, <2>1, <3>1, StreamKept DEF StreamInv
    <2> QED
      BY <2>1
  <1> QED
    BY <1>2, <1>3 DEF StreamInv

(* A stream that is over is its place only.                                   *)
LEMMA ByeStep ==
  ASSUME StreamInv, NEW s \in Subscribers, NEW last \in Nat, NEW pc \in {"over", "left"},
         sub' = [sub EXCEPT ![s] = [NoSub EXCEPT !.pc = pc, !.after = last, !.last = last]],
         UNCHANGED <<log, raced, hand, deltas, pending>>
  PROVE  StreamInv'
  <1> DEFINE r == [NoSub EXCEPT !.pc = pc, !.after = last, !.last = last]
  <1>0. /\ NoSub \in SubRow /\ NoSub.got = <<>> /\ NoSub.ch = <<>> /\ ~NoSub.open
    BY DEF NoSub, SubRow
  <1>1. /\ r \in SubRow /\ r.pc = pc /\ r.after = last /\ r.last = last /\ r.got = <<>>
        /\ r.ch = <<>> /\ ~r.open
    BY <1>0 DEF SubRow
  <1>2. sub' = [sub EXCEPT ![s] = r]
    OBVIOUS
  <1> HIDE DEF r
  <1>3. sub'[s] = r
    BY <1>2 DEF StreamInv, StreamTypes
  <1>4. StreamOK(s)'
    <2>0. /\ sub'[s].pc \notin {"read", "replay", "check", "live"}
          /\ sub'[s].pc \in {"over", "left"}
          /\ sub'[s].after = last /\ sub'[s].last = last /\ sub'[s].got = <<>>
          /\ sub'[s].ch = <<>>
      BY <1>1, <1>3
    <2>1. HistoryOK(s)'
      BY <2>0 DEF HistoryOK
    <2>4. Linked(s)' /\ Arrived(s)'
      BY <2>0 DEF Linked, Arrived, Joined
    <2>3. GotOrdered(s)' /\ GotAll(s)'
      BY <2>0 DEF GotOrdered, GotAll
    <2> QED
      BY <2>1, <2>3, <2>4 DEF StreamOK
  <1> QED
    BY <1>1, <1>2, <1>4, OwnStep

LEMMA SubscribeStep ==
  ASSUME StreamInv, NEW s \in Subscribers, NEW after \in Nat, Subscribe(s, after)
  PROVE  StreamInv'
  <1> DEFINE r == [NoSub EXCEPT !.pc = "read", !.after = after, !.last = after, !.open = TRUE]
  <1>0. /\ NoSub \in SubRow /\ NoSub.got = <<>> /\ NoSub.ch = <<>> /\ ~NoSub.blind
    BY DEF NoSub, SubRow
  <1>1. /\ r \in SubRow /\ r.pc = "read" /\ r.after = after /\ r.last = after
        /\ r.got = <<>> /\ r.ch = <<>> /\ ~r.blind
    BY <1>0 DEF SubRow
  <1>2. sub' = [sub EXCEPT ![s] = r] /\ UNCHANGED <<log, raced, hand, deltas, pending>> /\ after <= log
    BY DEF Subscribe
  <1> HIDE DEF r
  <1>3. sub'[s] = r
    BY <1>2 DEF StreamInv, StreamTypes
  <1>4. StreamOK(s)'
    BY <1>1, <1>2, <1>3 DEF StreamOK, HistoryOK, GotOrdered, GotAll, Linked, Arrived, Joined
  <1> QED
    BY <1>1, <1>2, <1>4, OwnStep

LEMMA ReadStep ==
  ASSUME StreamInv, NEW s \in Subscribers, ReadHistory(s)
  PROVE  StreamInv'
  <1>1. sub[s] \in SubRow /\ StreamOK(s) /\ sub[s].pc = "read" /\ log \in Nat
    BY DEF ReadHistory, StreamInv, StreamTypes
  <1>2. PICK readable \in BOOLEAN :
          sub' = [sub EXCEPT ![s].history = IF readable THEN log ELSE sub[s].after,
                             ![s].blind = ~readable /\ sub[s].after < log,
                             ![s].pc = "replay"]
    BY DEF ReadHistory
  <1> DEFINE seen == IF readable THEN log ELSE sub[s].after
             blind == ~readable /\ sub[s].after < log
             r == [sub[s] EXCEPT !.history = seen, !.blind = blind, !.pc = "replay"]
  <1>0. /\ seen \in Nat /\ blind \in BOOLEAN /\ seen \in {log, sub[s].after}
        /\ ~blind => seen = log \/ sub[s].after >= log
    BY <1>1 DEF SubRow
  <1>12. sub' = [sub EXCEPT ![s] = r]
    BY <1>1, <1>2 DEF StreamInv, StreamTypes
  <1> HIDE DEF seen, blind
  <1>3. /\ r \in SubRow /\ r.pc = "replay" /\ r.after = sub[s].after /\ r.last = sub[s].last
        /\ r.got = sub[s].got /\ r.ch = sub[s].ch /\ r.open = sub[s].open
        /\ r.history \in {log, sub[s].after} /\ (~r.blind => r.history = log \/ sub[s].after >= log)
    BY <1>0, <1>1 DEF SubRow
  <1>4. sub' = [sub EXCEPT ![s] = r]
    BY <1>12
  <1> HIDE DEF r
  <1>5. sub'[s] = r /\ UNCHANGED <<log, raced, hand, deltas, pending>>
    BY <1>4 DEF StreamInv, StreamTypes, ReadHistory
  <1>6. /\ sub[s].after = sub[s].last /\ sub[s].after <= log /\ ~sub[s].blind
        /\ GotOrdered(s) /\ GotAll(s) /\ \A i \in 1 .. Len(sub[s].ch) : sub[s].ch[i] <= log
    BY <1>1 DEF StreamOK, HistoryOK, Linked
  <1>7. HistoryOK(s)' /\ GotOrdered(s)' /\ GotAll(s)'
    <2>1. /\ raced \subseteq raced' /\ sub'[s].got = sub[s].got
          /\ sub'[s].last = sub[s].last /\ sub'[s].after = sub[s].after
      BY <1>3, <1>5
    <2>2. GotOrdered(s)' /\ GotAll(s)'
      BY <1>6, <2>1, GotKept
    <2>3. HistoryOK(s)'
      BY <1>1, <1>3, <1>5, <1>6 DEF HistoryOK, SubRow
    <2> QED
      BY <2>2, <2>3
  <1>8. ~r.blind => Known(s)' = log
    BY <1>1, <1>3, <1>5, <1>6 DEF Known, SubRow
  <1>9. sub[s].ch \in Seq(Nat)
    BY <1>1 DEF SubRow
  <1>10. ~r.blind => Linked(s)' /\ Arrived(s)'
    BY <1>1, <1>3, <1>5, <1>6, <1>8, <1>9 DEF Linked, Arrived
  <1>11. StreamOK(s)'
    BY <1>5, <1>7, <1>10 DEF StreamOK
  <1> QED
    BY <1>3, <1>4, <1>5, <1>11, OwnStep

(* A stream that gets one event more.                                         *)
LEMMA GotOneMore ==
  ASSUME NEW s \in Subscribers, sub[s] \in SubRow, GotOrdered(s),
         sub[s].after <= sub[s].last, NEW n \in Nat, n > sub[s].last,
         sub'[s].got = Append(sub[s].got, n), sub'[s].last = n,
         sub'[s].after = sub[s].after, UNCHANGED raced
  PROVE  /\ GotOrdered(s)'
         /\ GotAll(s) /\ (sub[s].last + 1) .. (n - 1) \subseteq raced => GotAll(s)'
  <1> DEFINE g == sub[s].got  h == Append(g, n)  a == sub[s].after  l == sub[s].last
  <1>1. a \in Nat /\ l \in Nat /\ g \in Seq(Nat) /\ a <= l /\ n > l
    BY DEF SubRow
  <1>2. /\ Len(h) = Len(g) + 1 /\ Len(g) \in Nat /\ h[Len(g) + 1] = n
        /\ \A i \in 1 .. Len(g) : h[i] = g[i]
    BY <1>1
  <1>3. \A i, j \in 1 .. Len(g) : g[i] \in (a + 1) .. l /\ (i < j => g[i] < g[j])
    BY DEF GotOrdered
  <1>4. sub'[s].got = h /\ sub'[s].last = n /\ sub'[s].after = a
    OBVIOUS
  <1>5. GotAll(s) => \A v \in ((a + 1) .. l) \ raced : \E i \in 1 .. Len(g) : g[i] = v
    BY DEF GotAll
  <1> HIDE DEF g, h, a
  <1>6. ASSUME NEW i \in 1 .. Len(h), NEW j \in 1 .. Len(h)
        PROVE  h[i] \in (a + 1) .. n /\ (i < j => h[i] < h[j])
    <2>1. i \in 1 .. Len(g) \/ i = Len(g) + 1
      BY <1>2
    <2>2. j \in 1 .. Len(g) \/ j = Len(g) + 1
      BY <1>2
    <2>3. h[i] \in (a + 1) .. n
      BY <1>1, <1>2, <1>3, <2>1
    <2>4. ASSUME i < j PROVE h[i] < h[j]
      <3>1. i \in 1 .. Len(g) /\ h[i] = g[i] /\ g[i] \in (a + 1) .. l
        BY <1>2, <1>3, <2>1, <2>2, <2>4
      <3> QED
        BY <1>1, <1>2, <1>3, <2>2, <2>4, <3>1
    <2> QED
      BY <2>3, <2>4
  <1>7. ASSUME GotAll(s), (l + 1) .. (n - 1) \subseteq raced,
               NEW v \in ((a + 1) .. n) \ raced
        PROVE  \E i \in 1 .. Len(h) : h[i] = v
    <2>1. v \in (a + 1) .. l \/ v = n
      BY <1>1, <1>7
    <2>2. CASE v \in (a + 1) .. l
      <3>1. PICK i \in 1 .. Len(g) : g[i] = v
        BY <1>5, <1>7, <2>2
      <3> QED
        BY <1>2, <3>1
    <2>3. CASE v = n
      BY <1>2, <2>3
    <2> QED
      BY <2>1, <2>2, <2>3
  <1>8. GotOrdered(s)'
    BY <1>4, <1>6 DEF GotOrdered
  <1>9. GotAll(s) /\ (l + 1) .. (n - 1) \subseteq raced => GotAll(s)'
    BY <1>4, <1>7 DEF GotAll
  <1> QED
    BY <1>8, <1>9

(* A channel that the step leaves alone.                                      *)
LEMMA SameChannel ==
  ASSUME NEW s \in Subscribers, sub'[s].ch = sub[s].ch, sub'[s].open = sub[s].open,
         UNCHANGED <<log, raced, hand>>, sub[s].pc \in Joined, Known(s)' = Known(s),
         Linked(s), Arrived(s)
  PROVE  Linked(s)' /\ Arrived(s)'
  <1>1. Linked(s)'
    BY DEF Linked
  <1>2. \A v : /\ InChannel(s, v) => InChannel(s, v)'
               /\ Aimed(s, v) => Aimed(s, v)'
    BY DEF InChannel, Aimed
  <1>3. Arrived(s)'
    BY <1>2 DEF Arrived
  <1> QED
    BY <1>1, <1>3

LEMMA ReplayStep ==
  ASSUME StreamInv, NEW s \in Subscribers, Replay(s)
  PROVE  StreamInv'
  <1>1. /\ sub[s] \in SubRow /\ StreamOK(s) /\ sub[s].pc = "replay"
        /\ UNCHANGED <<log, raced, hand, deltas, pending>>
    BY DEF Replay, StreamInv, StreamTypes
  <1>2. CASE sub[s].last < sub[s].history
    <2> DEFINE r == [sub[s] EXCEPT !.last = sub[s].last + 1,
                                   !.got = Append(sub[s].got, sub[s].last + 1)]
    <2>1. Append(sub[s].got, sub[s].last + 1) \in Seq(Nat) /\ sub[s].last + 1 \in Nat
      BY <1>1 DEF SubRow
    <2>2. /\ r \in SubRow /\ r.last = sub[s].last + 1 /\ r.pc = sub[s].pc /\ r.ch = sub[s].ch
          /\ r.got = Append(sub[s].got, sub[s].last + 1) /\ r.after = sub[s].after
          /\ r.history = sub[s].history /\ r.open = sub[s].open /\ r.blind = sub[s].blind
      BY <1>1, <2>1 DEF SubRow
    <2>3. sub[s].last + 1 # 0
      BY <1>1 DEF SubRow
    <2>4. sub' = [sub EXCEPT ![s] = r]
      BY <1>2, <2>3 DEF Replay, Deliver
    <2> HIDE DEF r
    <2>5. sub'[s] = r
      BY <2>4 DEF StreamInv, StreamTypes
    <2>6. HistoryOK(s)' /\ Known(s)' = Known(s)
      <3>1. /\ sub[s].after <= sub[s].last /\ sub[s].after \in Nat /\ sub[s].last \in Nat
            /\ sub[s].history \in Nat
        BY <1>1 DEF StreamOK, HistoryOK, SubRow
      <3>2. sub[s].after <= sub[s].last + 1 /\ sub[s].last + 1 <= sub[s].history
        BY <1>2, <3>1
      <3> QED
        BY <1>1, <2>2, <2>5, <3>2 DEF HistoryOK, Known
    <2>7. GotOrdered(s)' /\ (~sub[s].blind => GotAll(s)')
      <3>1. /\ sub[s].last + 1 \in Nat /\ sub[s].last + 1 > sub[s].last
            /\ (sub[s].last + 1) .. ((sub[s].last + 1) - 1) \subseteq raced
        BY <1>1 DEF SubRow
      <3> QED
        BY <1>1, <2>2, <2>5, <3>1, GotOneMore DEF StreamOK, HistoryOK
    <2>8. ~sub[s].blind => Linked(s)' /\ Arrived(s)'
      BY <1>1, <2>2, <2>5, <2>6, SameChannel DEF StreamOK, Joined
    <2> QED
      BY <1>1, <2>2, <2>4, <2>5, <2>6, <2>7, <2>8, OwnStep DEF StreamOK
  <1>3. CASE ~(sub[s].last < sub[s].history)
    <2> DEFINE r == [sub[s] EXCEPT !.pc = "check"]
    <2>1. /\ r \in SubRow /\ r.pc = "check" /\ r.last = sub[s].last /\ r.ch = sub[s].ch
          /\ r.got = sub[s].got /\ r.after = sub[s].after
          /\ r.history = sub[s].history /\ r.open = sub[s].open /\ r.blind = sub[s].blind
      BY <1>1 DEF SubRow
    <2>2. sub' = [sub EXCEPT ![s] = r]
      BY <1>3 DEF Replay
    <2> HIDE DEF r
    <2>3. sub'[s] = r
      BY <2>2 DEF StreamInv, StreamTypes
    <2>4. HistoryOK(s)' /\ Known(s)' = Known(s)
      BY <1>1, <1>3, <2>1, <2>3 DEF StreamOK, HistoryOK, Known, SubRow
    <2>5. GotOrdered(s)' /\ (~sub[s].blind => GotAll(s)')
      BY <1>1, <2>1, <2>3, GotKept DEF StreamOK
    <2>6. ~sub[s].blind => Linked(s)' /\ Arrived(s)'
      BY <1>1, <2>1, <2>3, <2>4, SameChannel DEF StreamOK, Joined
    <2> QED
      BY <1>1, <2>1, <2>2, <2>3, <2>4, <2>5, <2>6, OwnStep DEF StreamOK
  <1> QED
    BY <1>2, <1>3

LEMMA CheckStep ==
  ASSUME StreamInv, NEW s \in Subscribers, CheckTerminal(s)
  PROVE  StreamInv'
  <1>1. /\ sub[s] \in SubRow /\ StreamOK(s) /\ sub[s].pc = "check" /\ sub[s].last \in Nat
        /\ UNCHANGED <<log, raced, hand, deltas, pending>>
    BY DEF CheckTerminal, StreamInv, StreamTypes, SubRow
  <1>2. CASE finished
    BY <1>1, <1>2, ByeStep DEF CheckTerminal, Bye
  <1>3. CASE ~finished
    <2> DEFINE r == [sub[s] EXCEPT !.pc = "live", !.early = final = 0]
    <2>1. /\ r \in SubRow /\ r.pc = "live" /\ r.last = sub[s].last /\ r.ch = sub[s].ch
          /\ r.got = sub[s].got /\ r.after = sub[s].after
          /\ r.history = sub[s].history /\ r.open = sub[s].open /\ r.blind = sub[s].blind
      BY <1>1 DEF SubRow
    <2>2. sub' = [sub EXCEPT ![s] = r]
      BY <1>3 DEF CheckTerminal
    <2> HIDE DEF r
    <2>3. sub'[s] = r
      BY <2>2 DEF StreamInv, StreamTypes
    <2>4. HistoryOK(s)' /\ Known(s)' = Known(s)
      BY <1>1, <2>1, <2>3 DEF StreamOK, HistoryOK, Known, SubRow
    <2>5. GotOrdered(s)' /\ (~sub[s].blind => GotAll(s)')
      BY <1>1, <2>1, <2>3, GotKept DEF StreamOK
    <2>6. ~sub[s].blind => Linked(s)' /\ Arrived(s)'
      BY <1>1, <2>1, <2>3, <2>4, SameChannel DEF StreamOK, Joined
    <2> QED
      BY <1>1, <2>1, <2>2, <2>3, <2>4, <2>5, <2>6, OwnStep DEF StreamOK
  <1> QED
    BY <1>2, <1>3

(* The head of the channel is seen already, or what it passes over was raced. *)
LEMMA LiveIsLinked ==
  ASSUME StreamInv, NEW s \in Subscribers, sub[s].pc = "live", sub[s].ch # <<>>,
         ~sub[s].blind, UNCHANGED <<log, raced, hand>>, sub'[s] \in SubRow,
         sub'[s].pc = "live", sub'[s].ch = Tail(sub[s].ch), sub'[s].open = sub[s].open,
         sub'[s].last = IF Head(sub[s].ch) > sub[s].last THEN Head(sub[s].ch) ELSE sub[s].last
  PROVE  /\ Linked(s)' /\ Arrived(s)'
         /\ (sub[s].last + 1) .. (Head(sub[s].ch) - 1) \subseteq raced
  <1> DEFINE q == sub[s].ch  k == sub[s].last  t == Tail(q)  m == sub'[s].last
  <1>1. /\ q \in Seq(Nat) /\ k \in Nat /\ log \in Nat /\ Linked(s) /\ Arrived(s)
        /\ Known(s) = k /\ Known(s)' = m
    BY DEF StreamInv, StreamTypes, StreamOK, SubRow, Known
  <1>2. /\ t \in Seq(Nat) /\ Len(t) = Len(q) - 1 /\ Len(q) \in Nat \ {0} /\ Head(q) = q[1]
        /\ \A i \in 1 .. Len(q) : q[i] \in Nat
        /\ \A i \in 1 .. Len(t) : i + 1 \in 1 .. Len(q) /\ t[i] = q[i + 1]
    BY <1>1
  <1>3. \A i \in 1 .. Len(q) :
          /\ q[i] <= log
          /\ \A v \in ((k + 1) .. (q[i] - 1)) \ raced : \E j \in 1 .. (i - 1) : q[j] = v
    BY <1>1 DEF Linked, Joined
  <1>4. (k + 1) .. (q[1] - 1) \subseteq raced /\ q[1] \in Nat
    <2>1. 1 \in 1 .. Len(q) /\ 1 .. (1 - 1) = {}
      BY <1>2
    <2> QED
      BY <1>2, <1>3, <2>1
  <1>5. m \in Nat /\ m >= k /\ m >= q[1]
    BY <1>1, <1>2, <1>4
  <1>6. sub'[s].ch = t
    OBVIOUS
  <1> HIDE DEF t, q, m, k
  <1>7. ASSUME NEW i \in 1 .. Len(t), NEW v \in ((m + 1) .. (t[i] - 1)) \ raced
        PROVE  \E j \in 1 .. (i - 1) : t[j] = v
    <2>0. i + 1 \in 1 .. Len(q) /\ t[i] = q[i + 1] /\ q[i + 1] \in Nat
      BY <1>2
    <2>1. v \in ((k + 1) .. (q[i + 1] - 1)) \ raced /\ v > q[1]
      BY <1>1, <1>4, <1>5, <2>0
    <2>2. PICK j \in 1 .. i : q[j] = v
      <3>1. (i + 1) - 1 = i
        OBVIOUS
      <3>2. \E j \in 1 .. ((i + 1) - 1) : q[j] = v
        BY <1>3, <2>0, <2>1
      <3> QED
        BY <3>1, <3>2
    <2>3. j # 1
      BY <1>4, <2>1, <2>2
    <2>4. j - 1 \in 1 .. (i - 1) /\ j - 1 \in 1 .. Len(t) /\ (j - 1) + 1 = j
      BY <1>2, <2>3
    <2>5. t[j - 1] = q[j]
      BY <1>2, <2>4
    <2> QED
      BY <2>2, <2>4, <2>5
  <1>8. Linked(s)'
    <2>1. \A i \in 1 .. Len(t) : t[i] <= log
      BY <1>2, <1>3
    <2>2. ASSUME NEW i \in 1 .. Len(t)
          PROVE  \A v \in ((m + 1) .. (t[i] - 1)) \ raced : \E j \in 1 .. (i - 1) : t[j] = v
      BY <1>7
    <2>3. log' = log /\ raced' = raced /\ Known(s)' = m /\ sub'[s].ch = t
      BY <1>1, <1>6
    <2>4. ASSUME NEW i \in 1 .. Len(sub'[s].ch)
          PROVE  /\ sub'[s].ch[i] <= log'
                 /\ \A v \in ((Known(s)' + 1) .. (sub'[s].ch[i] - 1)) \ raced' :
                      \E j \in 1 .. (i - 1) : sub'[s].ch[j] = v
      <3>1. i \in 1 .. Len(t) /\ sub'[s].ch[i] = t[i]
        BY <2>3
      <3>2. sub'[s].ch[i] <= log'
        BY <2>1, <2>3, <3>1
      <3>3. ASSUME NEW v \in ((Known(s)' + 1) .. (sub'[s].ch[i] - 1)) \ raced'
            PROVE  \E j \in 1 .. (i - 1) : sub'[s].ch[j] = v
        <4>1. v \in ((m + 1) .. (t[i] - 1)) \ raced
          BY <2>3, <3>1
        <4>2. \E j \in 1 .. (i - 1) : t[j] = v
          BY <2>2, <3>1, <4>1
        <4> QED
          BY <2>3, <4>2
      <3> QED
        BY <3>2, <3>3
    <2> QED
      BY <2>4 DEF Linked
  <1>9. Arrived(s)'
    <2> SUFFICES ASSUME sub[s].open, NEW v \in ((m + 1) .. log) \ raced
                 PROVE  InChannel(s, v)' \/ Aimed(s, v)'
      BY <1>1 DEF Arrived
    <2>1. v \in ((k + 1) .. log) \ raced /\ v > q[1] /\ v \in Nat
      BY <1>1, <1>2, <1>5
    <2>2. InChannel(s, v) \/ Aimed(s, v)
      BY <1>1, <2>1 DEF Arrived, Joined
    <2>3. CASE InChannel(s, v)
      <3>1. PICK i \in 1 .. Len(q) : q[i] = v
        BY <2>3 DEF InChannel, q
      <3>3. i # 1
        BY <1>4, <2>1, <3>1
      <3>4. i - 1 \in 1 .. Len(t) /\ (i - 1) + 1 = i
        BY <1>2, <3>3
      <3>2. i - 1 \in 1 .. Len(t) /\ t[i - 1] = v
        BY <1>2, <3>1, <3>4
      <3> QED
        BY <1>6, <3>2 DEF InChannel
    <2>4. CASE Aimed(s, v)
      BY <2>4 DEF Aimed
    <2> QED
      BY <2>2, <2>3, <2>4
  <1> QED
    BY <1>2, <1>4, <1>8, <1>9 DEF q, k

LEMMA LiveStep ==
  ASSUME StreamInv, NEW s \in Subscribers, Live(s)
  PROVE  StreamInv'
  <1> DEFINE n == Head(sub[s].ch)
             next == [sub[s] EXCEPT !.ch = Tail(sub[s].ch)]
             got == [sub[s] EXCEPT !.ch = Tail(sub[s].ch), !.last = n,
                                   !.got = Append(sub[s].got, n)]
  <1>1. /\ sub[s] \in SubRow /\ StreamOK(s) /\ sub[s].pc = "live" /\ sub[s].ch # <<>>
        /\ UNCHANGED <<log, raced, hand, deltas, pending>>
    BY DEF Live, StreamInv, StreamTypes
  <1>2. /\ n \in Nat /\ Tail(sub[s].ch) \in Seq(Nat) /\ Append(sub[s].got, n) \in Seq(Nat)
        /\ sub[s].last \in Nat /\ sub[s].after \in Nat
    BY <1>1 DEF SubRow
  <1>3. /\ next \in SubRow /\ next.pc = "live" /\ next.ch = Tail(sub[s].ch)
        /\ next.last = sub[s].last /\ next.got = sub[s].got /\ next.after = sub[s].after
        /\ next.history = sub[s].history /\ next.open = sub[s].open
        /\ next.blind = sub[s].blind
    BY <1>1, <1>2 DEF SubRow
  <1>4. /\ got \in SubRow /\ got.pc = "live" /\ got.ch = Tail(sub[s].ch)
        /\ got.last = n /\ got.got = Append(sub[s].got, n) /\ got.after = sub[s].after
        /\ got.history = sub[s].history /\ got.open = sub[s].open
        /\ got.blind = sub[s].blind
    BY <1>1, <1>2 DEF SubRow
  <1>5. \/ n <= sub[s].last /\ sub' = [sub EXCEPT ![s] = next]
        \/ n > sub[s].last /\ sub' = [sub EXCEPT ![s] = got]
        \/ sub' = [sub EXCEPT ![s] = [NoSub EXCEPT !.pc = "over", !.after = n, !.last = n]]
    <2>1. CASE Seen(s, n)
      BY <1>1, <1>2, <2>1 DEF Live, Seen
    <2>2. CASE ~Seen(s, n) /\ n # 0 /\ n = final
      BY <1>1, <1>2, <2>2 DEF Live, Deliver, Bye, SubRow
    <2>3. CASE ~Seen(s, n) /\ ~(n # 0 /\ n = final)
      <3>1. Deliver(s, n).ch = sub[s].ch
        BY <1>1, <1>2 DEF Deliver, SubRow
      <3>2. sub' = [sub EXCEPT ![s] = [Deliver(s, n) EXCEPT !.ch = Tail(sub[s].ch)]]
        BY <2>3, <3>1 DEF Live
      <3>3. CASE n = 0
        BY <1>2, <3>2, <3>3 DEF Deliver
      <3>4. CASE n # 0
        <4>1. [Deliver(s, n) EXCEPT !.ch = Tail(sub[s].ch)] = got
          BY <1>1, <1>2, <3>4 DEF Deliver, SubRow
        <4>2. n > sub[s].last
          BY <1>2, <2>3, <3>4 DEF Seen
        <4> QED
          BY <3>2, <4>1, <4>2
      <3> QED
        BY <3>3, <3>4
    <2> QED
      BY <2>1, <2>2, <2>3
  <1> HIDE DEF n, next, got
  <1>6. CASE n <= sub[s].last /\ sub' = [sub EXCEPT ![s] = next]
    <2>1. sub'[s] = next
      BY <1>6 DEF StreamInv, StreamTypes
    <2>2. HistoryOK(s)'
      BY <1>1, <1>3, <2>1 DEF StreamOK, HistoryOK
    <2>3. GotOrdered(s)' /\ (~sub[s].blind => GotAll(s)')
      BY <1>1, <1>3, <2>1, GotKept DEF StreamOK
    <2>4. ~sub[s].blind => Linked(s)' /\ Arrived(s)'
      <3>1. ~(n > sub[s].last)
        BY <1>2, <1>6
      <3> QED
        BY <1>1, <1>3, <2>1, <3>1, LiveIsLinked DEF n
    <2> QED
      BY <1>1, <1>3, <1>6, <2>1, <2>2, <2>3, <2>4, OwnStep DEF StreamOK
  <1>7. CASE n > sub[s].last /\ sub' = [sub EXCEPT ![s] = got]
    <2>1. sub'[s] = got
      BY <1>7 DEF StreamInv, StreamTypes
    <2>2. HistoryOK(s)'
      <3>1. sub[s].after <= n
        BY <1>1, <1>2, <1>7 DEF StreamOK, HistoryOK
      <3> QED
        BY <1>4, <2>1, <3>1 DEF HistoryOK
    <2>3. ~sub[s].blind => /\ Linked(s)' /\ Arrived(s)'
                           /\ (sub[s].last + 1) .. (n - 1) \subseteq raced
      BY <1>1, <1>4, <1>7, <2>1, LiveIsLinked DEF n
    <2>4. GotOrdered(s)' /\ (~sub[s].blind => GotAll(s)')
      BY <1>1, <1>2, <1>4, <1>7, <2>1, <2>3, GotOneMore DEF StreamOK, HistoryOK
    <2> QED
      BY <1>1, <1>4, <1>7, <2>1, <2>2, <2>3, <2>4, OwnStep DEF StreamOK
  <1>8. CASE sub' = [sub EXCEPT ![s] = [NoSub EXCEPT !.pc = "over", !.after = n, !.last = n]]
    BY <1>1, <1>2, <1>8, ByeStep
  <1> QED
    BY <1>5, <1>6, <1>7, <1>8

LEMMA StopStep ==
  ASSUME StreamInv, NEW s \in Subscribers, Leave(s) \/ Disconnected(s)
  PROVE  StreamInv'
  <1>1. sub[s].last \in Nat
    BY DEF StreamInv, StreamTypes, SubRow
  <1> QED
    BY <1>1, ByeStep DEF Leave, Disconnected, Stop, Bye

(* eventBus.Close closes every channel: what is in it is still read.          *)
LEMMA CloseBusStep ==
  ASSUME StreamInv, CloseBus
  PROVE  StreamInv'
  <1>1. UNCHANGED <<log, raced, hand, deltas, pending>>
    BY DEF CloseBus
  <1>2. ASSUME NEW s \in Subscribers
        PROVE  /\ sub'[s] \in SubRow /\ sub'[s].pc = sub[s].pc /\ sub'[s].ch = sub[s].ch
               /\ sub'[s].last = sub[s].last /\ sub'[s].history = sub[s].history
               /\ sub'[s].after = sub[s].after /\ sub'[s].got = sub[s].got
               /\ sub'[s].blind = sub[s].blind /\ ~sub'[s].open
    BY DEF CloseBus, StreamInv, StreamTypes, SubRow
  <1>3. StreamTypes' /\ HandOK'
    <2>1. sub' \in [Subscribers -> SubRow]
      BY <1>2 DEF CloseBus
    <2> QED
      BY <1>1, <2>1 DEF StreamInv, StreamTypes, HandOK
  <1>4. ASSUME NEW s \in Subscribers PROVE StreamOK(s)'
    <2>1. StreamOK(s) /\ Known(s)' = Known(s)
      BY <1>2 DEF StreamInv, Known
    <2>2. HistoryOK(s)' /\ GotOrdered(s)' /\ (~sub[s].blind => GotAll(s)')
      BY <1>1, <1>2, <2>1, GotKept DEF StreamOK, HistoryOK
    <2>3. ~sub[s].blind => Linked(s)' /\ Arrived(s)'
      BY <1>1, <1>2, <2>1 DEF StreamOK, Linked, Arrived
    <2> QED
      BY <1>2, <2>2, <2>3 DEF StreamOK
  <1> QED
    BY <1>3, <1>4 DEF StreamInv

-----------------------------------------------------------------------------
LEMMA StreamSteps ==
  ASSUME StreamInv, [StreamNext]_streamVars
  PROVE  StreamInv'
  <1>1. ASSUME UNCHANGED <<log, raced, hand, sub, deltas, pending>> PROVE StreamInv'
    <2>1. \A s \in Subscribers : \A v \in 1 .. log : Aimed(s, v) => Aimed(s, v)'
      BY <1>1 DEF Aimed
    <2> QED
      BY <1>1, <2>1, StreamKept DEF StreamInv, StreamTypes, HandOK
  <1>2. CASE (\E p \in Producers : Emit(p)) \/ SetOutcome \/ Delta
    BY <1>1, <1>2, EmitStep, DeltaStep, StreamAssumption DEF SetOutcome
  <1>3. ASSUME NEW t \in Timers, Fire(t) PROVE StreamInv'
    <2>1. t \in Goroutines /\ hand[t].seq = 0
      BY <1>3, Goroutine, IdleHasNone DEF StreamInv, Fire
    <2> QED
      BY <1>3, <2>1, FlushSteps
  <1>4. ASSUME NEW x \in Goroutines, Step(x) PROVE StreamInv'
    <2>1. CASE Flush(x)
      BY <2>1, IdleHasNone, FlushSteps DEF StreamInv, Flush
    <2> QED
      BY <1>4, <2>1, PublishStep, SendStep DEF Step
  <1>5. ASSUME NEW s \in Subscribers,
               Read(s) \/ Leave(s) \/ \E after \in 0 .. MaxEmitted : Subscribe(s, after)
        PROVE  StreamInv'
    <2>1. CASE Read(s)
      BY <2>1, ReadStep, ReplayStep, CheckStep, LiveStep, StopStep DEF Read
    <2>2. CASE \E after \in 0 .. MaxEmitted : Subscribe(s, after)
      BY <2>2, SubscribeStep
    <2> QED
      BY <1>5, <2>1, <2>2, StopStep
  <1>6. CASE CloseCoalescer \/ CloseBus \/ UNCHANGED streamVars
    <2>1. hand[Closer].seq = 0
      BY Goroutine, StreamAssumption DEF StreamInv, HandOK
    <2> QED
      BY <1>1, <1>6, <2>1, CloseBusStep, FlushSteps, Goroutine DEF streamVars
  <1> QED
    BY <1>2, <1>3, <1>4, <1>5, <1>6 DEF StreamNext

(* The inductive invariant holds in every behaviour.                          *)
THEOREM StreamInvariant == StreamSpec => []StreamInv
  <1>1. StreamInv /\ [StreamNext]_streamVars => StreamInv'
    BY StreamSteps
  <1> QED
    BY StreamStarts, <1>1, PTL DEF StreamSpec

(* Whatever goroutines append and publish at the same time, a stream shows    *)
(* each event once and in order, and lacks none but those that the next       *)
(* append raced: reading the history, sends to a bounded channel, a           *)
(* disconnection and Engine.Close lose nothing (streamRun, eventBus.Publish). *)
THEOREM StreamHolesAreRaces == StreamSpec => []HolesAreRaces
  <1>1. ASSUME StreamInv, NEW s \in Subscribers
        PROVE  /\ \A i, j \in DOMAIN sub[s].got : i < j => sub[s].got[i] < sub[s].got[j]
               /\ Range(sub[s].got) \subseteq sub[s].after + 1 .. sub[s].last
               /\ ~sub[s].blind => (sub[s].after + 1 .. sub[s].last) \ raced
                                      \subseteq Range(sub[s].got)
    <2>1. DOMAIN sub[s].got = 1 .. Len(sub[s].got) /\ StreamOK(s)
      BY <1>1 DEF StreamInv, StreamTypes, SubRow
    <2> QED
      BY <2>1 DEF StreamOK, GotOrdered, GotAll, Range
  <1>2. StreamInv => HolesAreRaces
    BY <1>1 DEF HolesAreRaces
  <1> QED
    BY <1>2, StreamInvariant, PTL

-----------------------------------------------------------------------------
(* Where the deltas are. *)

LEMMA NoDeltas == Range(<<>>) = {} /\ IsInjective(<<>>)
  BY DEF Range, IsInjective

LEMMA OneMore ==
  ASSUME NEW s \in Seq(Nat), NEW d \in Nat
  PROVE  /\ Range(Append(s, d)) = Range(s) \cup {d}
         /\ IsInjective(s) /\ d \notin Range(s) => IsInjective(Append(s, d))
  <1> DEFINE a == Append(s, d)
  <1>1. /\ Len(s) \in Nat /\ DOMAIN s = 1 .. Len(s) /\ DOMAIN a = 1 .. (Len(s) + 1)
        /\ \A i \in 1 .. Len(s) : a[i] = s[i]
        /\ a[Len(s) + 1] = d
    BY AppendProperties, LenProperties
  <1>2. \A i \in DOMAIN a : i \in DOMAIN s \/ i = Len(s) + 1
    BY <1>1
  <1>3. \A i \in DOMAIN s : i \in DOMAIN a /\ a[i] = s[i]
    BY <1>1
  <1>4. Len(s) + 1 \in DOMAIN a
    BY <1>1
  <1> HIDE DEF a
  <1>5. Range(a) = Range(s) \cup {d}
    BY <1>1, <1>2, <1>3, <1>4 DEF Range
  <1>6. IsInjective(s) /\ d \notin Range(s) => IsInjective(a)
    BY <1>1, <1>2, <1>3 DEF Range, IsInjective
  <1> QED
    BY <1>5, <1>6 DEF a

LEMMA Together ==
  ASSUME NEW s \in Seq(Nat), NEW t \in Seq(Nat), IsInjective(s), IsInjective(t),
         Range(s) \cap Range(t) = {}
  PROVE  IsInjective(s \o t)
  <1> DEFINE a == s \o t
  <1>1. /\ Len(s) \in Nat /\ Len(t) \in Nat /\ DOMAIN s = 1 .. Len(s) /\ DOMAIN t = 1 .. Len(t)
        /\ DOMAIN a = 1 .. (Len(s) + Len(t))
        /\ \A i \in 1 .. Len(s) : a[i] = s[i]
        /\ \A i \in (Len(s) + 1) .. (Len(s) + Len(t)) : a[i] = t[i - Len(s)]
    BY ConcatProperties, LenProperties
  <1> HIDE DEF a
  <1> SUFFICES ASSUME NEW i \in DOMAIN a, NEW j \in DOMAIN a, a[i] = a[j] PROVE i = j
    BY DEF IsInjective, a
  <1>2. ASSUME NEW k \in DOMAIN a, k > Len(s)
        PROVE  k - Len(s) \in DOMAIN t /\ a[k] = t[k - Len(s)] /\ a[k] \in Range(t)
    BY <1>1, <1>2 DEF Range
  <1>3. ASSUME NEW k \in DOMAIN a, k <= Len(s)
        PROVE  k \in DOMAIN s /\ a[k] = s[k] /\ a[k] \in Range(s)
    BY <1>1, <1>3 DEF Range
  <1>4. i \in Nat /\ j \in Nat
    BY <1>1
  <1>5. CASE i <= Len(s) /\ j <= Len(s)
    BY <1>3, <1>5 DEF IsInjective
  <1>6. CASE i > Len(s) /\ j > Len(s)
    <2>1. i - Len(s) = j - Len(s)
      BY <1>2, <1>6 DEF IsInjective
    <2> QED
      BY <1>1, <1>4, <2>1
  <1>7. CASE i <= Len(s) /\ j > Len(s)
    BY <1>2, <1>3, <1>7
  <1>8. CASE i > Len(s) /\ j <= Len(s)
    BY <1>2, <1>3, <1>8
  <1> QED
    BY <1>1, <1>4, <1>5, <1>6, <1>7, <1>8

DeltaTypes ==
    /\ log \in Nat /\ deltas \in Nat /\ pending \in Seq(Nat) /\ shown \in Seq(Nat)
    /\ hand \in [Goroutines -> HandRow]
DeltaInv ==
    /\ DeltaTypes /\ DeltasConserved
    /\ "coalescer" \notin closed => hand[Closer].pc = "idle"

LEMMA EmptyCarried ==
  ASSUME DeltaTypes, NEW x \in Goroutines
  PROVE  /\ Carried(x) \in Seq(Nat)
         /\ hand[x].pc # "publish" => Carried(x) = <<>>
  BY DEF DeltaTypes, Carried, HandRow

LEMMA DeltaStarts == StreamInit => DeltaInv
  <1> SUFFICES ASSUME StreamInit PROVE DeltaInv
    OBVIOUS
  <1>1. EmptyHand \in HandRow /\ EmptyHand.pc = "idle"
    BY DEF EmptyHand, HandRow
  <1>2. DeltaTypes
    BY <1>1 DEF StreamInit, DeltaTypes
  <1>3. \A x \in Goroutines : Carried(x) = <<>>
    BY <1>1 DEF StreamInit, Carried
  <1>4. 1 .. deltas = {}
    BY DEF StreamInit
  <1>5. DeltasConserved
    BY <1>3, <1>4, NoDeltas DEF StreamInit, DeltasConserved
  <1>6. hand[Closer].pc = "idle"
    BY <1>1 DEF StreamInit, Goroutines
  <1> QED
    BY <1>2, <1>5, <1>6 DEF DeltaInv

(* A step that moves no delta.                                                *)
LEMMA DeltasStay ==
  ASSUME DeltasConserved, UNCHANGED <<deltas, pending, shown>>,
         \A x \in Goroutines : Carried(x)' = Carried(x)
  PROVE  DeltasConserved'
  BY DEF DeltasConserved

LEMMA HandMoves ==
  ASSUME DeltaTypes, NEW x \in Goroutines, NEW h \in HandRow, hand' = [hand EXCEPT ![x] = h]
  PROVE  /\ hand' \in [Goroutines -> HandRow]
         /\ \A y \in Goroutines \ {x} : hand'[y] = hand[y] /\ Carried(y)' = Carried(y)
         /\ hand'[x] = h
         /\ Carried(x)' = IF h.pc = "publish" THEN h.frame ELSE <<>>
  <1>1. hand \in [Goroutines -> HandRow]
    BY DEF DeltaTypes
  <1>2. hand'[x] = h /\ \A y \in Goroutines \ {x} : hand'[y] = hand[y]
    BY <1>1
  <1> QED
    BY <1>1, <1>2 DEF Carried

(* A new delta joins the frame.                                               *)
LEMMA DeltaJoins ==
  ASSUME DeltaTypes, DeltasConserved, deltas' = deltas + 1, shown' = shown,
         pending' = Append(pending, deltas + 1),
         \A x \in Goroutines : Carried(x)' = Carried(x)
  PROVE  DeltasConserved'
  <1> DEFINE d == deltas + 1
  <1>1. d \in Nat /\ d \notin 1 .. deltas /\ 1 .. deltas' = 1 .. deltas \cup {d}
    BY DEF DeltaTypes
  <1>2. d \notin Range(pending) /\ d \notin Range(shown)
        /\ \A x \in Goroutines : d \notin Range(Carried(x))
    BY <1>1 DEF DeltasConserved
  <1>3. /\ Range(pending') = Range(pending) \cup {d} /\ IsInjective(pending')
    BY <1>1, <1>2, OneMore DEF DeltaTypes, DeltasConserved
  <1> HIDE DEF d
  <1>4. {Range(Carried(x)) : x \in Goroutines}' = {Range(Carried(x)) : x \in Goroutines}
    OBVIOUS
  <1>5. Range(pending') \cup Range(shown') \cup UNION {Range(Carried(x)) : x \in Goroutines}'
          = 1 .. deltas'
    BY <1>1, <1>3, <1>4 DEF DeltasConserved
  <1> QED
    BY <1>2, <1>3, <1>5 DEF DeltasConserved

(* What goroutine x carries is F now, a new delta or the frame.               *)
LEMMA DeltaTaken ==
  ASSUME DeltaTypes, DeltasConserved, shown' = shown, NEW x \in Goroutines, Carried(x) = <<>>,
         \A y \in Goroutines \ {x} : Carried(y)' = Carried(y),
         \/ /\ Carried(x)' = <<deltas + 1>> /\ pending' = pending /\ deltas' = deltas + 1
         \/ /\ Carried(x)' = pending /\ pending' = <<>> /\ deltas' = deltas
  PROVE  DeltasConserved'
  <1> DEFINE F == Carried(x)'
             U == UNION {Range(Carried(y)) : y \in Goroutines}
  <1>1. Range(Carried(x)) = {}
    BY NoDeltas
  <1>2. U' = U \cup Range(F)
    <2>1. \A y \in Goroutines : y # x => Range(Carried(y)') = Range(Carried(y))
      OBVIOUS
    <2>2. ASSUME NEW d PROVE d \in U' <=> d \in U \cup Range(F)
      <3>1. d \in U' <=> \E y \in Goroutines : d \in Range(Carried(y)')
        OBVIOUS
      <3>2. d \in U <=> \E y \in Goroutines : d \in Range(Carried(y))
        OBVIOUS
      <3> HIDE DEF U
      <3> QED
        BY <1>1, <2>1, <3>1, <3>2
    <2> QED
      BY <2>2
  <1>3. /\ IsInjective(F)
        /\ Range(F) \cap (Range(pending') \cup Range(shown)) = {}
        /\ \A y \in Goroutines \ {x} : Range(F) \cap Range(Carried(y)) = {}
        /\ Range(pending') \cup Range(shown) \cup U \cup Range(F) = 1 .. deltas'
        /\ IsInjective(pending') /\ Range(pending') \cap Range(shown) = {}
        /\ Range(pending') \subseteq Range(pending)
    <2>1. CASE F = <<deltas + 1>> /\ pending' = pending /\ deltas' = deltas + 1
      <3> DEFINE d == deltas + 1
      <3>1. d \in Nat /\ d \notin 1 .. deltas /\ 1 .. deltas' = 1 .. deltas \cup {d}
        BY <2>1 DEF DeltaTypes
      <3>2. Range(F) = {d} /\ IsInjective(F)
        BY <2>1 DEF Range, IsInjective
      <3>3. Range(pending) \cup Range(shown) \cup U = 1 .. deltas
        BY DEF DeltasConserved
      <3>4. \A y \in Goroutines : Range(Carried(y)) \subseteq U
        OBVIOUS
      <3> HIDE DEF U, F, d
      <3> QED
        BY <2>1, <3>1, <3>2, <3>3, <3>4 DEF DeltasConserved
    <2>2. CASE F = pending /\ pending' = <<>> /\ deltas' = deltas
      <3>1. Range(pending) \cup Range(shown) \cup U = 1 .. deltas
        BY DEF DeltasConserved
      <3> HIDE DEF U, F
      <3> QED
        BY <2>2, <3>1, NoDeltas DEF DeltasConserved
    <2> QED
      BY <2>1, <2>2
  <1>4. Range(pending') \cup Range(shown') \cup UNION {Range(Carried(y)) : y \in Goroutines}'
          = 1 .. deltas'
    BY <1>2, <1>3
  <1>5. ASSUME NEW y \in Goroutines
        PROVE  /\ IsInjective(Carried(y)')
               /\ Range(Carried(y)') \cap (Range(pending') \cup Range(shown')) = {}
               /\ \A z \in Goroutines \ {y} : Range(Carried(y)') \cap Range(Carried(z)') = {}
    <2>1. CASE y = x
      BY <1>3, <2>1
    <2>2. CASE y # x
      <3>1. /\ IsInjective(Carried(y)) /\ Carried(y)' = Carried(y)
            /\ Range(Carried(y)) \cap (Range(pending) \cup Range(shown)) = {}
            /\ \A z \in Goroutines \ {y} : Range(Carried(y)) \cap Range(Carried(z)) = {}
        BY <2>2 DEF DeltasConserved
      <3>2. ASSUME NEW z \in Goroutines \ {y}
            PROVE  Range(Carried(y)') \cap Range(Carried(z)') = {}
        <4>1. CASE z = x
          BY <1>3, <2>2, <3>1, <4>1
        <4>2. CASE z # x
          BY <3>1, <4>2
        <4> QED
          BY <4>1, <4>2
      <3> HIDE DEF F, U
      <3> QED
        BY <1>3, <3>1, <3>2
    <2> QED
      BY <2>1, <2>2
  <1> QED
    BY <1>3, <1>4, <1>5 DEF DeltasConserved

(* What goroutine x carries goes to the bus.                                  *)
LEMMA DeltasShown ==
  ASSUME DeltaTypes, DeltasConserved, UNCHANGED <<deltas, pending>>, NEW x \in Goroutines,
         shown' = shown \o Carried(x), Carried(x)' = <<>>,
         \A y \in Goroutines \ {x} : Carried(y)' = Carried(y)
  PROVE  DeltasConserved'
  <1> DEFINE F == Carried(x)
             U == UNION {Range(Carried(y)) : y \in Goroutines}
  <1>1. F \in Seq(Nat) /\ shown \in Seq(Nat)
    BY EmptyCarried DEF DeltaTypes
  <1>2. IsInjective(F) /\ IsInjective(shown) /\ Range(shown) \cap Range(F) = {}
    BY DEF DeltasConserved
  <1>3. Range(shown') = Range(shown) \cup Range(F) /\ IsInjective(shown')
    <2> HIDE DEF F
    <2>1. shown' = shown \o F
      BY DEF F
    <2> QED
      BY <1>1, <1>2, <2>1, RangeConcatenation, Together
  <1>4. Range(Carried(x)') = {} /\ IsInjective(Carried(x)')
    BY NoDeltas
  <1>5. U = U' \cup Range(F)
    <2>1. \A y \in Goroutines : y # x => Range(Carried(y)') = Range(Carried(y))
      OBVIOUS
    <2>2. ASSUME NEW d PROVE d \in U <=> d \in U' \cup Range(F)
      <3>1. d \in U' <=> \E y \in Goroutines : d \in Range(Carried(y)')
        OBVIOUS
      <3>2. d \in U <=> \E y \in Goroutines : d \in Range(Carried(y))
        OBVIOUS
      <3> HIDE DEF U
      <3> QED
        BY <1>4, <2>1, <3>1, <3>2
    <2> QED
      BY <2>2
  <1>6. Range(pending) \cup Range(shown) \cup U = 1 .. deltas
    BY DEF DeltasConserved
  <1>7. Range(pending') \cup Range(shown') \cup UNION {Range(Carried(y)) : y \in Goroutines}'
          = 1 .. deltas'
    BY <1>3, <1>5, <1>6
  <1>8. Range(pending') \cap Range(shown') = {}
    BY <1>3 DEF DeltasConserved
  <1>9. ASSUME NEW y \in Goroutines
        PROVE  /\ IsInjective(Carried(y)')
               /\ Range(Carried(y)') \cap (Range(pending') \cup Range(shown')) = {}
               /\ \A z \in Goroutines \ {y} : Range(Carried(y)') \cap Range(Carried(z)') = {}
    <2>1. CASE y = x
      BY <1>4, <2>1
    <2>2. CASE y # x
      <3>1. /\ IsInjective(Carried(y)) /\ Carried(y)' = Carried(y)
            /\ Range(Carried(y)) \cap (Range(pending) \cup Range(shown)) = {}
            /\ \A z \in Goroutines \ {y} : Range(Carried(y)) \cap Range(Carried(z)) = {}
        BY <2>2 DEF DeltasConserved
      <3>2. ASSUME NEW z \in Goroutines \ {y}
            PROVE  Range(Carried(y)') \cap Range(Carried(z)') = {}
        <4>1. CASE z = x
          BY <1>4, <4>1
        <4>2. CASE z # x
          BY <3>1, <4>2
        <4> QED
          BY <4>1, <4>2
      <3>3. Range(Carried(y)) \cap Range(F) = {}
        BY <2>2, <3>1
      <3> QED
        BY <1>3, <3>1, <3>2, <3>3
    <2> QED
      BY <2>1, <2>2
  <1> QED
    BY <1>3, <1>7, <1>8, <1>9 DEF DeltasConserved

(* Carried is empty in every hand but one that publishes.                     *)
LEMMA HandIdles ==
  ASSUME DeltaTypes, NEW x \in Goroutines, hand[x].pc # "publish", NEW h \in HandRow,
         h.pc # "publish", hand' = [hand EXCEPT ![x] = h]
  PROVE  /\ hand' \in [Goroutines -> HandRow]
         /\ \A y \in Goroutines : Carried(y)' = Carried(y)
         /\ \A y \in Goroutines \ {x} : hand'[y] = hand[y]
  BY HandMoves, EmptyCarried

LEMMA NowHand ==
  ASSUME NEW x \in Goroutines, Now(x, "idle") \/ Now(x, "flush"), DeltaTypes,
         hand[x].pc # "publish"
  PROVE  /\ hand' \in [Goroutines -> HandRow]
         /\ \A y \in Goroutines : Carried(y)' = Carried(y)
         /\ \A y \in Goroutines \ {x} : hand'[y] = hand[y]
  <1> DEFINE idle == [pc |-> "idle", seq |-> 0, frame |-> <<>>, targets |-> {}]
             flush == [pc |-> "flush", seq |-> 0, frame |-> <<>>, targets |-> {}]
  <1>1. idle \in HandRow /\ idle.pc # "publish" /\ flush \in HandRow /\ flush.pc # "publish"
    BY DEF HandRow
  <1>2. hand' = [hand EXCEPT ![x] = idle] \/ hand' = [hand EXCEPT ![x] = flush]
    BY DEF Now, EmptyHand
  <1> HIDE DEF idle, flush
  <1> QED
    BY <1>1, <1>2, HandIdles

LEMMA CarryHand ==
  ASSUME NEW x \in Goroutines, NEW seq \in Nat, NEW frame \in Seq(Nat), DeltaTypes,
         Carry(x, seq, frame)
  PROVE  /\ hand' \in [Goroutines -> HandRow]
         /\ Carried(x)' = frame
         /\ \A y \in Goroutines \ {x} : hand'[y] = hand[y] /\ Carried(y)' = Carried(y)
  <1> DEFINE h == [pc |-> "publish", seq |-> seq, frame |-> frame, targets |-> {}]
  <1>1. h \in HandRow /\ h.pc = "publish" /\ h.frame = frame
    BY DEF HandRow
  <1>2. hand' = [hand EXCEPT ![x] = h]
    BY DEF Carry
  <1> HIDE DEF h
  <1> QED
    BY <1>1, <1>2, HandMoves

(* Every step of the stream that is about a delta.                            *)
LEMMA DeltasStep ==
  ASSUME StreamAssumption, DeltaInv, StreamNext
  PROVE  DeltaInv'
  <1>1. DeltaTypes /\ DeltasConserved /\ ("coalescer" \notin closed => hand[Closer].pc = "idle")
    BY DEF DeltaInv
  <1>2. Closer \in Goroutines /\ Producers \subseteq Goroutines /\ Timers \subseteq Goroutines
        /\ Closer \notin Producers /\ Closer \notin Timers
    BY DEF Goroutines, StreamAssumption
  <1>3. log \in Nat /\ deltas \in Nat /\ pending \in Seq(Nat) /\ shown \in Seq(Nat)
        /\ hand \in [Goroutines -> HandRow]
    BY <1>1 DEF DeltaTypes
  <1>4. ASSUME UNCHANGED <<log, deltas, pending, shown, hand>>,
               closed' = closed \/ "coalescer" \in closed'
        PROVE  DeltaInv'
    <2>1. \A x \in Goroutines : Carried(x)' = Carried(x)
      BY <1>4 DEF Carried
    <2>2. DeltasConserved'
      BY <1>1, <1>4, <2>1, DeltasStay
    <2> QED
      BY <1>1, <1>4, <2>2 DEF DeltaInv, DeltaTypes
  <1>5. ASSUME NEW p \in Producers, Emit(p) PROVE DeltaInv'
    <2>1. Carry(p, log + 1, <<>>) /\ log + 1 \in Nat /\ <<>> \in Seq(Nat)
          /\ hand[p].pc # "publish" /\ p \in Goroutines
      BY <1>2, <1>3, <1>5 DEF Emit
    <2>2. /\ hand' \in [Goroutines -> HandRow] /\ Carried(p)' = <<>>
          /\ \A y \in Goroutines \ {p} : hand'[y] = hand[y] /\ Carried(y)' = Carried(y)
      BY <1>1, <2>1, CarryHand
    <2>3. \A y \in Goroutines : Carried(y)' = Carried(y)
      BY <1>1, <2>1, <2>2, EmptyCarried
    <2>4. UNCHANGED <<deltas, pending, shown, closed>> /\ log' = log + 1
      BY <1>5 DEF Emit
    <2>5. DeltasConserved'
      BY <1>1, <2>3, <2>4, DeltasStay
    <2> QED
      BY <1>1, <1>2, <1>3, <2>2, <2>4, <2>5 DEF DeltaInv, DeltaTypes
  <1>6. ASSUME SetOutcome PROVE DeltaInv'
    BY <1>4, <1>6 DEF SetOutcome
  <1>7. ASSUME NEW p \in Producers, p = Loop, Delta PROVE DeltaInv'
    <2> DEFINE frame == Append(pending, deltas + 1)
    <2>1. p \in Goroutines /\ hand[p].pc = "idle" /\ deltas' = deltas + 1
          /\ UNCHANGED <<log, closed, shown>> /\ p # Closer
      BY <1>2, <1>7 DEF Delta
    <2>2. frame \in Seq(Nat)
      BY <1>3
    <2>3. CASE "coalescer" \in closed /\ Carry(p, 0, <<deltas + 1>>) /\ pending' = pending
      <3>1. <<deltas + 1>> \in Seq(Nat) /\ 0 \in Nat
        BY <1>3
      <3>2. /\ hand' \in [Goroutines -> HandRow] /\ Carried(p)' = <<deltas + 1>>
            /\ \A y \in Goroutines \ {p} : hand'[y] = hand[y] /\ Carried(y)' = Carried(y)
        BY <1>1, <2>1, <2>3, <3>1, CarryHand
      <3>3. Carried(p) = <<>>
        BY <1>1, <2>1, EmptyCarried
      <3>4. DeltasConserved'
        BY <1>1, <2>1, <2>3, <3>2, <3>3, DeltaTaken
      <3> QED
        BY <1>1, <1>3, <2>1, <2>3, <3>2, <3>4 DEF DeltaInv, DeltaTypes
    <2>4. CASE pending' = frame /\ (Now(p, "flush") \/ UNCHANGED hand)
      <3>1. /\ hand' \in [Goroutines -> HandRow]
            /\ \A y \in Goroutines : Carried(y)' = Carried(y)
            /\ \A y \in Goroutines \ {p} : hand'[y] = hand[y]
        <4>1. CASE Now(p, "flush")
          BY <1>1, <2>1, <4>1, NowHand
        <4>2. CASE UNCHANGED hand
          BY <1>3, <4>2 DEF Carried
        <4> QED
          BY <2>4, <4>1, <4>2
      <3>2. DeltasConserved'
        BY <1>1, <2>1, <2>4, <3>1, DeltaJoins
      <3> QED
        BY <1>1, <1>2, <1>3, <2>1, <2>2, <2>4, <3>1, <3>2 DEF DeltaInv, DeltaTypes
    <2> QED
      BY <1>7, <2>3, <2>4 DEF Delta
  <1>8. ASSUME NEW t \in Timers, Fire(t) PROVE DeltaInv'
    <2>1. t \in Goroutines /\ t # Closer /\ hand[t].pc # "publish" /\ Now(t, "flush")
          /\ UNCHANGED <<log, deltas, pending, shown, closed>>
      BY <1>2, <1>8 DEF Fire
    <2>2. /\ hand' \in [Goroutines -> HandRow]
          /\ \A y \in Goroutines : Carried(y)' = Carried(y)
          /\ \A y \in Goroutines \ {t} : hand'[y] = hand[y]
      BY <1>1, <2>1, NowHand
    <2>3. DeltasConserved'
      BY <1>1, <2>1, <2>2, DeltasStay
    <2> QED
      BY <1>1, <1>2, <1>3, <2>1, <2>2, <2>3 DEF DeltaInv, DeltaTypes
  <1>9. ASSUME NEW x \in Goroutines, Flush(x) PROVE DeltaInv'
    <2>1. hand[x].pc = "flush" /\ pending' = <<>> /\ UNCHANGED <<log, deltas, shown, closed>>
      BY <1>9 DEF Flush, Taken
    <2>2. x = Closer => "coalescer" \in closed
      BY <1>1, <2>1
    <2>3. <<>> \in Seq(Nat)
      OBVIOUS
    <2>4. CASE pending = <<>> /\ Now(x, "idle")
      <3>1. /\ hand' \in [Goroutines -> HandRow]
            /\ \A y \in Goroutines : Carried(y)' = Carried(y)
            /\ \A y \in Goroutines \ {x} : hand'[y] = hand[y]
        BY <1>1, <2>1, <2>4, NowHand
      <3>2. DeltasConserved'
        BY <1>1, <2>1, <2>4, <3>1, DeltasStay
      <3> QED
        BY <1>1, <1>2, <1>3, <2>1, <2>2, <2>3, <3>1, <3>2 DEF DeltaInv, DeltaTypes
    <2>5. CASE Carry(x, 0, pending)
      <3>1. /\ hand' \in [Goroutines -> HandRow] /\ Carried(x)' = pending
            /\ \A y \in Goroutines \ {x} : hand'[y] = hand[y] /\ Carried(y)' = Carried(y)
        BY <1>1, <1>3, <2>5, CarryHand
      <3>2. Carried(x) = <<>>
        BY <1>1, <2>1, EmptyCarried
      <3>3. DeltasConserved'
        BY <1>1, <2>1, <3>1, <3>2, DeltaTaken
      <3> QED
        BY <1>1, <1>2, <1>3, <2>1, <2>2, <2>3, <3>1, <3>3 DEF DeltaInv, DeltaTypes
    <2> QED
      BY <1>9, <2>4, <2>5 DEF Flush
  <1>10. ASSUME NEW x \in Goroutines, Publish(x) PROVE DeltaInv'
    <2> DEFINE h == IF Registered = {} THEN EmptyHand
                    ELSE [hand[x] EXCEPT !.pc = "send", !.targets = Registered]
    <2>1. hand[x].pc = "publish" /\ shown' = shown \o hand[x].frame /\ hand[x] \in HandRow
          /\ UNCHANGED <<log, deltas, pending, closed>>
          /\ hand' = [hand EXCEPT ![x] = h]
      BY <1>3, <1>10 DEF Publish
    <2>2. h \in HandRow /\ h.pc # "publish"
      <3>1. Registered \subseteq Subscribers /\ EmptyHand \in HandRow
        BY DEF Registered, EmptyHand, HandRow
      <3>2. h \in HandRow
        BY <2>1, <3>1 DEF HandRow
      <3>3. h.pc # "publish"
        BY <2>1, <3>1 DEF EmptyHand, HandRow
      <3> QED
        BY <3>2, <3>3
    <2> HIDE DEF h
    <2>3. /\ hand' \in [Goroutines -> HandRow] /\ Carried(x)' = <<>>
          /\ \A y \in Goroutines \ {x} : hand'[y] = hand[y] /\ Carried(y)' = Carried(y)
      BY <1>1, <2>1, <2>2, HandMoves
    <2>4. Carried(x) = hand[x].frame /\ Carried(x) \in Seq(Nat)
      BY <1>1, <2>1, EmptyCarried DEF Carried
    <2>5. shown' \in Seq(Nat)
      BY <1>3, <2>1, <2>4, ConcatProperties
    <2>6. DeltasConserved'
      BY <1>1, <2>1, <2>3, <2>4, DeltasShown
    <2>7. x = Closer => "coalescer" \in closed
      BY <1>1, <2>1
    <2> QED
      BY <1>1, <1>2, <1>3, <2>1, <2>3, <2>5, <2>6, <2>7 DEF DeltaInv, DeltaTypes
  <1>11. ASSUME NEW x \in Goroutines, NEW s \in Subscribers, Send(x, s) PROVE DeltaInv'
    <2> DEFINE h == IF hand[x].targets = {s} THEN EmptyHand
                    ELSE [hand[x] EXCEPT !.targets = hand[x].targets \ {s}]
    <2>1. hand[x].pc = "send" /\ hand[x] \in HandRow
          /\ UNCHANGED <<log, deltas, pending, shown, closed>>
          /\ hand' = [hand EXCEPT ![x] = h]
      BY <1>3, <1>11 DEF Send, Sent
    <2>2. h \in HandRow
      <3>1. EmptyHand \in HandRow
        BY DEF EmptyHand, HandRow
      <3> QED
        BY <2>1, <3>1 DEF HandRow
    <2>3. h.pc # "publish"
      BY <2>1 DEF HandRow, EmptyHand
    <2> HIDE DEF h
    <2>4. /\ hand' \in [Goroutines -> HandRow]
          /\ \A y \in Goroutines : Carried(y)' = Carried(y)
          /\ \A y \in Goroutines \ {x} : hand'[y] = hand[y]
      BY <1>1, <2>1, <2>2, <2>3, HandIdles
    <2>5. DeltasConserved'
      BY <1>1, <2>1, <2>4, DeltasStay
    <2>6. x = Closer => "coalescer" \in closed
      BY <1>1, <2>1
    <2> QED
      BY <1>1, <1>2, <1>3, <2>1, <2>4, <2>5, <2>6 DEF DeltaInv, DeltaTypes
  <1>12. ASSUME NEW s \in Subscribers,
                Read(s) \/ Leave(s) \/ \E after \in 0..MaxEmitted : Subscribe(s, after)
         PROVE  DeltaInv'
    BY <1>4, <1>12 DEF Read, ReadHistory, Replay, CheckTerminal, Live, Disconnected, Leave, Subscribe
  <1>13. ASSUME CloseCoalescer PROVE DeltaInv'
    <2>1. "coalescer" \in closed' /\ Now(Closer, "flush") /\ hand[Closer].pc # "publish"
          /\ UNCHANGED <<log, deltas, pending, shown>>
      BY <1>1, <1>13 DEF CloseCoalescer
    <2>2. /\ hand' \in [Goroutines -> HandRow]
          /\ \A y \in Goroutines : Carried(y)' = Carried(y)
      BY <1>1, <1>2, <2>1, NowHand
    <2>3. DeltasConserved'
      BY <1>1, <2>1, <2>2, DeltasStay
    <2> QED
      BY <1>1, <1>3, <2>1, <2>2, <2>3 DEF DeltaInv, DeltaTypes
  <1>14. ASSUME CloseBus PROVE DeltaInv'
    BY <1>4, <1>14 DEF CloseBus
  <1>15. Loop \in Producers
    BY DEF StreamAssumption
  <1> QED
    BY <1>5, <1>6, <1>7, <1>8, <1>9, <1>10, <1>11, <1>12, <1>13, <1>14, <1>15
       DEF StreamNext, Step

LEMMA DeltaStutter == DeltaInv /\ UNCHANGED streamVars => DeltaInv'
  <1> SUFFICES ASSUME DeltaInv, UNCHANGED streamVars PROVE DeltaInv'
    OBVIOUS
  <1>1. UNCHANGED <<log, deltas, pending, shown, hand, closed>>
    BY DEF streamVars
  <1>2. DeltasConserved'
    BY <1>1, DeltasStay DEF DeltaInv, Carried
  <1> QED
    BY <1>1, <1>2 DEF DeltaInv, DeltaTypes

(* Where the deltas are, in every state: what is pending, carried and shown   *)
(* is what has been emitted, and a Closer that has not closed has no frame.   *)
THEOREM DeltaInvariant == StreamSpec => []DeltaInv
  <1>1. DeltaInv /\ [StreamNext]_streamVars => DeltaInv'
    BY StreamAssumption, DeltasStep, DeltaStutter
  <1> QED
    BY <1>1, DeltaStarts, PTL DEF StreamSpec

(* Every delta is in exactly one place, however flush at the limit, timer,    *)
(* Close and publication interleave (coalescer.add, flushKey, Close).         *)
THEOREM DeltasAreConserved == StreamSpec => []DeltasConserved
  <1>1. DeltaInv => DeltasConserved
    BY DEF DeltaInv
  <1> QED
    BY <1>1, DeltaInvariant, PTL
=============================================================================
