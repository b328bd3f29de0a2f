------------------------ MODULE EventStreamProperties ------------------------
(* What subscribers and deltas are promised.                                 *)
EXTENDS EventStream, Functions

StreamTypeOK ==
    /\ {log, final} \subseteq 0..MaxEmitted /\ raced \subseteq 1..log
    /\ deltas \in 0..MaxEmitted
    /\ {finished, timer, panicked} \subseteq BOOLEAN
    /\ pending \in Seq(1..MaxEmitted) /\ shown \in Seq(1..MaxEmitted)
    /\ closed \subseteq {"coalescer", "bus"}
    /\ \A x \in Goroutines :
         /\ hand[x].pc \in {"idle", "flush", "publish", "send"}
         /\ hand[x].seq \in 0..MaxEmitted /\ hand[x].targets \subseteq Subscribers
    /\ \A s \in Subscribers :
         /\ sub[s].pc \in {"none", "read", "replay", "check", "live", "over", "left"}
         /\ {sub[s].after, sub[s].last, sub[s].history} \subseteq 0..MaxEmitted
         /\ sub[s].ch \in Seq(0..MaxEmitted) /\ sub[s].open \in BOOLEAN

\* A stream shows each durable event at most once and in the log's order. If its
\* history could be read, what it lacks up to the last one shown are events that
\* the next append raced (raced): reading the history, a bounded channel and a
\* subscriber that is too slow make no hole.
HolesAreRaces == \A s \in Subscribers :
    LET got == sub[s].got IN
    /\ \A i, j \in DOMAIN got : i < j => got[i] < got[j]
    /\ Range(got) \subseteq sub[s].after + 1 .. sub[s].last
    /\ ~sub[s].blind => (sub[s].after + 1 .. sub[s].last) \ raced \subseteq Range(got)

\* Every delta is in the coalescer, in the hands of one goroutine or with the
\* bus, once and never in two places: forced flush, timer and Close share the
\* frame.
Carried(x) == IF hand[x].pc = "publish" THEN hand[x].frame ELSE <<>>
DeltasConserved ==
    /\ Range(pending) \cup Range(shown) \cup UNION {Range(Carried(x)) : x \in Goroutines}
         = 1 .. deltas
    /\ IsInjective(pending) /\ IsInjective(shown)
    /\ Range(pending) \cap Range(shown) = {}
    /\ \A x \in Goroutines :
         /\ IsInjective(Carried(x))
         /\ Range(Carried(x)) \cap (Range(pending) \cup Range(shown)) = {}
         /\ \A y \in Goroutines \ {x} : Range(Carried(x)) \cap Range(Carried(y)) = {}

\* No delta waits for the next one to be shown: once the model's deltas have
\* been emitted, all of them are on the bus.
DeltasArrive == []<>(Len(shown) = deltas \/ panicked)

\* A stream that is live when its run ends, ends: the terminal event reaches it,
\* or it is disconnected. Set apart is one that was shown a later event first.
StreamEnds == \A s \in Subscribers :
    sub[s].early /\ final # 0 ~> Ended(s) \/ sub[s].last > final \/ panicked

-----------------------------------------------------------------------------
(* What the code's comments say and its interleavings break. *)

\* "if the run already finished, the durable history is the complete stream"
\* (engine.streamRun).
OverIsComplete == \A s \in Subscribers :
    sub[s].pc = "over" => sub[s].last = log

\* "the two halves join without a gap" (Engine.Events).
NoGap == \A s \in Subscribers : ~sub[s].blind =>
    sub[s].got = [i \in 1..(sub[s].last - sub[s].after) |-> sub[s].after + i]

\* StreamEnds with nothing set apart: a call's late event hides the terminal one.
EndIsShown == \A s \in Subscribers :
    sub[s].early /\ final # 0 ~> Ended(s) \/ panicked

\* "waiting for live events would block forever": no stream outlives its run.
EveryStreamEnds == \A s \in Subscribers :
    sub[s].pc = "live" /\ finished ~> Ended(s) \/ panicked

\* "Delivery is non-blocking": the producer comes back, too (eventBus.Publish).
NoSendOnClosed == ~panicked

\* "with per-run ordering" (eventBus).
FramesInOrder == \A i, j \in DOMAIN shown : i < j => shown[i] < shown[j]
=============================================================================
