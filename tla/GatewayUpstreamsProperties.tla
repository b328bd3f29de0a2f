---------------------- MODULE GatewayUpstreamsProperties ----------------------
(* What a client of the gateway may rely on, and its upstreams.               *)
EXTENDS GatewayUpstreams

Results == {"ok", "other", "server", "reset", "cancelled"}

UpstreamTypeOK ==
    /\ breaker \in [Providers -> [state : {"closed", "open", "half-open"}, fails : Nat,
                                  oks : Nat, slots : Nat, cooled : BOOLEAN]]
    /\ handler \in [Lanes -> [pc : {"idle", "route", "choose", "wait", "first", "pump"},
                                 kind : Chat \cup Messages, next : Nat \ {0},
                                 cands : Seq(Nat \ {0})]]
    /\ client \in [Lanes ->
         [pc : {"none", "admit", "mode", "call", "release", "judge", "over"},
          on : Nat, try : Nat \ {0}, probe : BOOLEAN, result : Results \cup {"open"},
          texts : Nat,
          out : Seq([kind : Results \cup {"text", "open"}, of : Nat \X Nat])]]
    /\ ctx \in [Lanes -> {"live", "left", "late", "done"}]
    /\ probers \in [Providers -> SUBSET Lanes]

\* All that a client gets of one request comes from one answer of one upstream:
\* neither a reconnected stream nor another candidate starts anew behind text
\* that has been sent (stream.go, "never replay").
OneSource == \A r \in Lanes : Cardinality(served[r].sources) <= 1

\* A request goes upstream again only after faults of the server or of the
\* transport, whichever loop repeats it: what was refused for its content is not
\* sent a second time, nor is what has been answered.
TransientOnly == [][\A r \in Lanes :
    client[r].pc = "mode" /\ client'[r].pc = "call" => ~served[r].final]_upstreamVars

\* A request is settled only for a full answer, but where Anthropic's clients cut
\* it short themselves, and a full answer is settled unless its context ended: its
\* client left, or the time the gateway gives a request was up.
PaidIsWhole == [][\A r \in Lanes : served[r].paid = "held" =>
    /\ served'[r].paid = "settled" => served[r].whole
    /\ served'[r].paid = "released" /\ served[r].whole => ctx'[r] # "done"]_upstreamVars

\* The half-open breaker counts no more probes than are under way: no place is
\* lost to a client that left, to a probe the breaker did not judge, or to
\* one from before it opened again.
NoLeakedSlot == \A p \in Providers :
    breaker[p].state = "half-open" => breaker[p].slots <= Cardinality(probers[p])

\* A provider is let back in: no breaker refuses requests for ever.
Admits(b) == \/ b.state = "closed"
             \/ b.state = "half-open" /\ b.slots < HalfOpenMaxRequests
             \/ b.state = "open" /\ b.cooled
AdmitsAgain == \A p \in Providers : []<>Admits(breaker[p])

-----------------------------------------------------------------------------
(* What comments and tests say and the code does not do.                      *)

\* "retryable errors go to the next candidate" (chat.go, 11.4): no request is
\* given up for an upstream's faults while a candidate is left. The breaker's
\* own refusal is classified as unknown and ends the request.
FailsOver == [][\A r \in Lanes :
    /\ handler[r].pc \in {"wait", "first"} /\ handler'[r].pc = "idle"
    /\ ctx[r] = "live" /\ ctx'[r] # "left" /\ served'[r].paid = "released"
    /\ ~served[r].final
    => handler[r].cands = <<>>]_upstreamVars

\* "HalfOpenMaxRequests: the most probes at once in the half-open state".
ProbesBounded == \A p \in Providers : Cardinality(probers[p]) <= HalfOpenMaxRequests

\* "a probe fails: open again at once" (breaker.RecordFailure).
ReopensAtOnce == [][\A r \in Lanes :
    /\ client[r].pc = "call" /\ client'[r].pc # "call"
    /\ Counts(client'[r].result) /\ r \in probers[On(r)]
    => breaker'[On(r)].state = "open"]_upstreamVars

\* "a stalled upstream is cut off" (idleWatchdog), and that is not the client's
\* doing: a stream that is given up as cancelled had a client that left.
StallIsUpstream == \A r \in Lanes :
    client[r].pc = "over" /\ client[r].result = "cancelled" => ctx[r] # "live"
=============================================================================
