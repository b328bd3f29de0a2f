----------------------------- MODULE EventStream -----------------------------
(* How the events of a run reach its subscribers: engineSink.Emit appends a  *)
(* durable event to the log and publishes it, deltas are folded into frames  *)
(* by the coalescer, the eventBus sends to the bounded channels of its       *)
(* subscribers, and streamRun joins history and live events into one stream. *)
(*                                                                           *)
(* One run and one mergeable event type, hence one frame. A durable event is *)
(* its sequence number, a frame the deltas it folds.                         *)
EXTENDS Naturals, Sequences, FiniteSets

CONSTANTS
    Producers,      \* goroutines that emit for the run: its loop, its tool calls
    Loop,           \* the one that runs the loop: its model emits the deltas
    Timers,         \* goroutines that the coalescer's timer starts
    Closer,         \* the goroutine in Engine.Close
    Subscribers,    \* calls of Engine.Events
    MaxCoalesce, StreamBuffer, MaxSubscribers,  \* BackpressureConfig
    MaxEmitted      \* bound: durable events and deltas together

ASSUME StreamAssumption ==
    /\ MaxCoalesce \in Nat \ {0} /\ StreamBuffer \in Nat
    /\ {MaxSubscribers, MaxEmitted} \subseteq Nat
    /\ Loop \in Producers /\ Closer \notin Producers \cup Timers

VARIABLES
    log,        \* durable events appended so far
    raced,      \* history: those still on their way when a later one was appended
    final,      \* the terminal one, 0 before it
    finished,   \* the run's record says that it has ended (setOutcome)
    deltas,     \* deltas emitted so far
    pending,    \* the frame in the coalescer
    timer,      \* the coalescer's timer is armed
    closed,     \* what Engine.Close has closed: coalescer, bus
    hand,       \* what each goroutine is doing with an event
    sub,        \* the subscriptions
    shown,      \* history: deltas in the order the bus got them
    panicked    \* somebody sent on a closed channel
streamVars == <<log, raced, final, finished, deltas, pending, timer, closed, hand,
                sub, shown, panicked>>

Goroutines == Producers \cup Timers \cup {Closer}
EmptyHand == [pc |-> "idle", seq |-> 0, frame |-> <<>>, targets |-> {}]
NoSub == [pc |-> "none", after |-> 0, last |-> 0, got |-> <<>>, history |-> 0,
          ch |-> <<>>, open |-> FALSE, early |-> FALSE, blind |-> FALSE]

StreamInit ==
    /\ log = 0 /\ raced = {} /\ final = 0 /\ finished = FALSE /\ deltas = 0
    /\ pending = <<>> /\ timer = FALSE /\ closed = {}
    /\ hand = [x \in Goroutines |-> EmptyHand]
    /\ sub = [s \in Subscribers |-> NoSub]
    /\ shown = <<>> /\ panicked = FALSE

\* The bus's subscribers; an open channel and a place in the map go together.
Registered == {s \in Subscribers : sub[s].open}
Ended(s) == sub[s].pc \in {"over", "left"}
\* A subscription that is over is unsubscribed; what is left of it is its place.
Bye(record, pc) ==
    [NoSub EXCEPT !.pc = pc, !.after = record.last, !.last = record.last]
Now(x, pc) == hand' = [hand EXCEPT ![x] = [EmptyHand EXCEPT !.pc = pc]]
Carry(x, seq, frame) ==
    hand' = [hand EXCEPT ![x] = [pc |-> "publish", seq |-> seq, frame |-> frame,
                                 targets |-> {}]]

-----------------------------------------------------------------------------
(* engineSink.Emit, OnTransition and finishRun. *)

\* The durable events that have their place in the log and are on their way.
OnTheWay == {hand[x].seq : x \in Goroutines} \ {0}

\* A durable event gets its place in the log, then goes straight to the bus.
\* The calls of a round run in parallel and each one appends and publishes from
\* its own goroutine (markToolStarted), as do Decide and the Cancel that ends the
\* run: events may pass each other between the log and the bus, and one may come
\* after the terminal one.
Emit(p) ==
    /\ hand[p].pc = "idle" /\ log + deltas < MaxEmitted
    /\ log' = log + 1
    /\ raced' = raced \cup OnTheWay
    /\ final' \in IF final = 0 THEN {0, log + 1} ELSE {final}
    /\ Carry(p, log + 1, <<>>)
    /\ UNCHANGED <<finished, deltas, pending, timer, closed, sub, shown, panicked>>

\* setOutcome follows the terminal transition and its publication.
SetOutcome ==
    /\ final # 0 /\ ~finished /\ hand[Loop].pc = "idle"
    /\ \A x \in Producers : hand[x].seq # final
    /\ finished' = TRUE
    /\ UNCHANGED <<log, raced, final, deltas, pending, timer, closed, hand, sub, shown,
                   panicked>>

-----------------------------------------------------------------------------
(* The coalescer. *)

\* Mutant: the timer is armed only for a frame that was there before.
ArmTimer_Found == ~timer /\ pending # <<>>
ArmTimer == ~timer

Delta ==
    LET frame == Append(pending, deltas + 1) IN
    /\ hand[Loop].pc = "idle" /\ ~finished /\ log + deltas < MaxEmitted
    /\ deltas' = deltas + 1
    /\ \/ /\ "coalescer" \in closed
          /\ Carry(Loop, 0, <<deltas + 1>>)
          /\ UNCHANGED <<pending, timer>>
       \/ /\ "coalescer" \notin closed
          /\ pending' = frame
          /\ IF Len(frame) >= MaxCoalesce
             THEN Now(Loop, "flush") /\ UNCHANGED timer
             ELSE timer' = (timer \/ ArmTimer) /\ UNCHANGED hand
    /\ UNCHANGED <<log, raced, final, finished, closed, sub, shown, panicked>>

\* The timer's callback has the coalescer's lock: what comes now arms it anew.
Fire(t) ==
    /\ timer /\ hand[t].pc = "idle"
    /\ timer' = FALSE
    /\ Now(t, "flush")
    /\ UNCHANGED <<log, raced, final, finished, deltas, pending, closed, sub, shown,
                   panicked>>

\* Mutant: the frame is deleted after it has been published.
Taken_Later == pending
Taken == <<>>

\* flushKey takes the frame under the lock and publishes it after.
Flush(x) ==
    /\ hand[x].pc = "flush"
    /\ pending' = Taken
    /\ IF pending = <<>> THEN Now(x, "idle") ELSE Carry(x, 0, pending)
    /\ UNCHANGED <<log, raced, final, finished, deltas, timer, closed, sub, shown, panicked>>

-----------------------------------------------------------------------------
(* eventBus.Publish: targets under the lock, sends without it. *)

Publish(x) ==
    /\ hand[x].pc = "publish"
    /\ shown' = shown \o hand[x].frame
    /\ hand' = [hand EXCEPT ![x] =
         IF Registered = {} THEN EmptyHand
         ELSE [@ EXCEPT !.pc = "send", !.targets = Registered]]
    /\ UNCHANGED <<log, raced, final, finished, deltas, pending, timer, closed, sub,
                   panicked>>

Sent(x, s) == hand' = [hand EXCEPT ![x] =
    IF @.targets = {s} THEN EmptyHand
    ELSE [@ EXCEPT !.targets = hand[x].targets \ {s}]]

\* Mutant: a full buffer drops the event and keeps the subscriber.
Overflow_Drop(s) == sub
Overflow(s) == [sub EXCEPT ![s].open = FALSE]

\* A subscriber whose buffer is full is disconnected. On a channel that is
\* closed by now select takes the cancel branch, or the send, which panics.
Send(x, s) ==
    /\ hand[x].pc = "send" /\ s \in hand[x].targets
    /\ Sent(x, s)
    /\ \/ /\ sub[s].open
          /\ sub' = IF Len(sub[s].ch) < StreamBuffer
                    THEN [sub EXCEPT ![s].ch = Append(@, hand[x].seq)]
                    ELSE Overflow(s)
          /\ UNCHANGED panicked
       \/ ~sub[s].open /\ panicked' \in BOOLEAN /\ UNCHANGED sub
    /\ UNCHANGED <<log, raced, final, finished, deltas, pending, timer, closed, shown>>

-----------------------------------------------------------------------------
(* Engine.Events and streamRun. *)

\* A client asks for a stream from the start, or from any event an earlier one
\* has shown it.
Subscribe(s, after) ==
    /\ sub[s].pc = "none" /\ "bus" \notin closed
    /\ Cardinality(Registered) < MaxSubscribers
    /\ after <= log
    /\ sub' = [sub EXCEPT ![s] = [NoSub EXCEPT
                 !.pc = "read", !.after = after, !.last = after, !.open = TRUE]]
    /\ UNCHANGED <<log, raced, final, finished, deltas, pending, timer, closed, hand,
                   shown, panicked>>

\* The history is read in one go, or cannot be read and is taken as empty.
ReadHistory(s) ==
    /\ sub[s].pc = "read"
    /\ \E readable \in BOOLEAN :
         sub' = [sub EXCEPT ![s].history = IF readable THEN log ELSE sub[s].after,
                            ![s].blind = ~readable /\ sub[s].after < log,
                            ![s].pc = "replay"]
    /\ UNCHANGED <<log, raced, final, finished, deltas, pending, timer, closed, hand,
                   shown, panicked>>

Deliver(s, seq) ==
    IF seq = 0 THEN sub[s]
    ELSE [sub[s] EXCEPT !.last = seq, !.got = Append(@, seq)]

Replay(s) ==
    /\ sub[s].pc = "replay"
    /\ sub' = [sub EXCEPT ![s] =
         IF @.last < @.history THEN Deliver(s, @.last + 1)
         ELSE [@ EXCEPT !.pc = "check"]]
    /\ UNCHANGED <<log, raced, final, finished, deltas, pending, timer, closed, hand,
                   shown, panicked>>

\* A finished run has nothing more to come.
CheckTerminal(s) ==
    /\ sub[s].pc = "check"
    /\ sub' = [sub EXCEPT ![s] =
         IF finished THEN Bye(@, "over")
         ELSE [@ EXCEPT !.pc = "live", !.early = final = 0]]
    /\ UNCHANGED <<log, raced, final, finished, deltas, pending, timer, closed, hand,
                   shown, panicked>>

\* Mutant: what history has delivered already is delivered again.
Seen_Never(s, seq) == FALSE
Seen(s, seq) == seq # 0 /\ seq <= sub[s].last

\* One live event; the terminal one ends the stream, if it was not seen before.
Live(s) ==
    LET seq == Head(sub[s].ch)
        next == [sub[s] EXCEPT !.ch = Tail(@)]
    IN
    /\ sub[s].pc = "live" /\ sub[s].ch # <<>>
    /\ sub' = [sub EXCEPT ![s] =
         IF Seen(s, seq) THEN next
         ELSE IF seq # 0 /\ seq = final
              THEN Bye(Deliver(s, seq), "over")
         ELSE [Deliver(s, seq) EXCEPT !.ch = Tail(@)]]
    /\ UNCHANGED <<log, raced, final, finished, deltas, pending, timer, closed, hand,
                   shown, panicked>>

\* The client's context ends, or the subscription has been cancelled.
Stop(s) == sub' = [sub EXCEPT ![s] = Bye(@, "left")]
Leave(s) ==
    /\ sub[s].pc \in {"replay", "live"} /\ Stop(s)
    /\ UNCHANGED <<log, raced, final, finished, deltas, pending, timer, closed, hand,
                   shown, panicked>>
Disconnected(s) ==
    /\ sub[s].pc \in {"replay", "live"} /\ ~sub[s].open /\ Stop(s)
    /\ UNCHANGED <<log, raced, final, finished, deltas, pending, timer, closed, hand,
                   shown, panicked>>

-----------------------------------------------------------------------------
(* Engine.Close: the coalescer, which flushes, then the bus. *)

CloseCoalescer ==
    /\ "coalescer" \notin closed
    /\ closed' = closed \cup {"coalescer"} /\ timer' = FALSE
    /\ Now(Closer, "flush")
    /\ UNCHANGED <<log, raced, final, finished, deltas, pending, sub, shown, panicked>>

CloseBus ==
    /\ "coalescer" \in closed /\ "bus" \notin closed /\ hand[Closer].pc = "idle"
    /\ closed' = closed \cup {"bus"}
    /\ sub' = [s \in Subscribers |-> [sub[s] EXCEPT !.open = FALSE]]
    /\ UNCHANGED <<log, raced, final, finished, deltas, pending, timer, hand, shown,
                   panicked>>

-----------------------------------------------------------------------------
Step(x) == Flush(x) \/ Publish(x) \/ \E s \in Subscribers : Send(x, s)
Read(s) == ReadHistory(s) \/ Replay(s) \/ CheckTerminal(s) \/ Live(s)
           \/ Disconnected(s)
\* A panic is the end of the process, or of the run: it is not followed.
StreamNext ==
    /\ ~panicked
    /\ \/ (\E p \in Producers : Emit(p)) \/ SetOutcome \/ Delta
       \/ \E t \in Timers : Fire(t)
       \/ \E x \in Goroutines : Step(x)
       \/ \E s \in Subscribers : Read(s) \/ Leave(s)
                                 \/ \E after \in 0..MaxEmitted : Subscribe(s, after)
       \/ CloseCoalescer \/ CloseBus
StreamSpec == StreamInit /\ [][StreamNext]_streamVars

\* Goroutines go on, an armed timer fires, and clients read their streams.
Fairness ==
    /\ \A x \in Goroutines : WF_streamVars(~panicked /\ Step(x))
    /\ WF_streamVars(~panicked /\ \E t \in Timers : Fire(t))
    /\ \A s \in Subscribers : WF_streamVars(~panicked /\ Read(s))
FairStreamSpec == StreamSpec /\ Fairness
=============================================================================
