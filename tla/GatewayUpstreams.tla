--------------------------- MODULE GatewayUpstreams ---------------------------
(* How the gateway serves a request from its upstream providers: the router   *)
(* asks the breakers which candidates are healthy, the handlers of the two    *)
(* APIs try them in turn, provider.Client retries or reconnects within one    *)
(* candidate, and every attempt is accounted for by the candidate's circuit   *)
(* breaker, which all requests share.                                         *)
(*                                                                            *)
(* Requests come in on lanes, each of which serves one after the other.       *)
EXTENDS Naturals, Sequences, FiniteSets

CONSTANTS
    Providers, Lanes,
    Order,                \* per lane: the candidates of the model asked for there,
                          \* by priority
    KindsOn,              \* per lane: the kinds of requests that come in there
    FailureThreshold, SuccessThreshold, HalfOpenMaxRequests,
    MaxAttempts,          \* RetryPolicy
    MaxStreamReconnects,
    MaxChunks, Leavers    \* bounds: the texts of one answer, and the lanes whose
                          \* contexts may end early

\* OpenAI's API and Anthropic's, each with an answer in one piece or as a stream.
Chat == {"chat", "chat stream"}
Messages == {"messages", "messages stream"}
Streams == {"chat stream", "messages stream"}

ASSUME UpstreamAssumption ==
    /\ Order \in [Lanes -> Seq(Providers)]
    /\ KindsOn \in [Lanes -> SUBSET (Chat \cup Messages)]
    /\ {FailureThreshold, SuccessThreshold, HalfOpenMaxRequests, MaxAttempts}
         \subseteq Nat \ {0}
    /\ {MaxStreamReconnects, MaxChunks} \subseteq Nat

VARIABLES
    breaker,    \* per provider: its CircuitBreaker
    handler,    \* per lane: the handler's goroutine
    client,     \* per lane: the attempt of provider.Client
    ctx,        \* per lane: "live"; ended by the client that "left", by its
                \* own deadline ("late"), or by the handler's return ("done")
    probers,    \* history: who was let in since a breaker half-opened
    served      \* history: of a lane's request, whether an attempt ended for good and
                \* one with a full answer, the attempts whose text the client
                \* got, and what became of its hold
upstreamVars == <<breaker, handler, client, ctx, probers, served>>

Closed == [state |-> "closed", fails |-> 0, oks |-> 0, slots |-> 0, cooled |-> FALSE]
NoHandler == [pc |-> "idle", kind |-> "chat", next |-> 1, cands |-> <<>>]
NoClient == [pc |-> "none", on |-> 0, try |-> 1, probe |-> FALSE, result |-> "ok",
             texts |-> 0, out |-> <<>>]
Nothing == [final |-> FALSE, whole |-> FALSE, sources |-> {},
            paid |-> "held"]

UpstreamInit ==
    /\ breaker = [p \in Providers |-> Closed]
    /\ handler = [r \in Lanes |-> NoHandler]
    /\ client = [r \in Lanes |-> NoClient]
    /\ ctx = [r \in Lanes |-> "live"]
    /\ probers = [p \in Providers |-> {}]
    /\ served = [r \in Lanes |-> Nothing]

Kind(r) == handler[r].kind
On(r) == Order[r][client[r].on]

-----------------------------------------------------------------------------
(* The circuit breaker; each operation is one section of its lock.            *)

HalfOpened(b) == [b EXCEPT !.state = "half-open", !.oks = 0, !.slots = 0]
Opened(b) == [b EXCEPT !.state = "open", !.cooled = FALSE]

\* maybeHalfOpenLocked
Look(b) == IF b.state = "open" /\ b.cooled THEN HalfOpened(b) ELSE b

\* Reading a breaker may be what half-opens it.
Read(p, b) ==
    /\ breaker' = [breaker EXCEPT ![p] = b]
    /\ probers' = [probers EXCEPT ![p] =
         IF b.state # breaker[p].state THEN {} ELSE @]

Less(b) == IF b.slots > 0 THEN b.slots - 1 ELSE 0

AfterSuccess(b) ==
    IF b.state # "half-open"
    THEN [b EXCEPT !.fails = 0, !.oks = IF b.state = "closed" THEN 0 ELSE @]
    ELSE IF b.oks + 1 >= SuccessThreshold THEN Closed
    ELSE [b EXCEPT !.fails = 0, !.slots = Less(b), !.oks = @ + 1]

\* countsTowardBreaker: the faults of the server and the transport.
Counts(result) == result \in {"server", "reset"}

\* The count of failures matters up to the threshold and is kept no further.
AfterFailure(b) ==
    LET more == [b EXCEPT !.oks = 0,
                   !.fails = IF @ < FailureThreshold THEN @ + 1 ELSE @,
                   !.slots = IF b.state = "half-open" THEN Less(b) ELSE @]
    IN IF b.state = "open" THEN [b EXCEPT !.cooled = FALSE]
       ELSE IF more.fails = FailureThreshold THEN Opened(more) ELSE more

Recorded(b, result) ==
    IF result = "ok" THEN AfterSuccess(b)
    ELSE IF Counts(result) THEN AfterFailure(b) ELSE b

\* Mutant: a probe that ends without a verdict keeps its place.
Released_Not(b) == b
Released(b) == IF b.state = "half-open" THEN [b EXCEPT !.slots = Less(b)] ELSE b

\* OpenTimeout passes.
CoolDown(p) ==
    /\ breaker[p].state = "open" /\ ~breaker[p].cooled
    /\ breaker' = [breaker EXCEPT ![p].cooled = TRUE]
    /\ UNCHANGED <<handler, client, ctx, probers, served>>

-----------------------------------------------------------------------------
(* One attempt: doOnce and streamOnce.                                        *)

At(r, pc) == client' = [client EXCEPT ![r].pc = pc]

\* Allow. A refused attempt is no call and is not recorded.
Admit(r) ==
    LET b == Look(breaker[On(r)])
        refused == \/ b.state = "open"
                   \/ b.state = "half-open" /\ b.slots >= HalfOpenMaxRequests
    IN
    /\ client[r].pc = "admit"
    /\ IF refused
       THEN /\ client' = [client EXCEPT ![r].pc = "judge", ![r].result = "open"]
            /\ Read(On(r), b)
       ELSE /\ At(r, "mode")
            /\ breaker' = [breaker EXCEPT ![On(r)] =
                 IF b.state = "half-open" THEN [b EXCEPT !.slots = b.slots + 1] ELSE b]
            /\ probers' = [probers EXCEPT ![On(r)] =
                 (IF b.state # breaker[On(r)].state THEN {} ELSE @)
                 \cup (IF b.state = "half-open" THEN {r} ELSE {})]
    /\ UNCHANGED <<handler, ctx, served>>

\* State: the client asks in a second section whether it is a probe.
Mode(r) ==
    LET b == Look(breaker[On(r)]) IN
    /\ client[r].pc = "mode"
    /\ client' = [client EXCEPT ![r].pc = "call", ![r].probe = b.state = "half-open"]
    /\ Read(On(r), b)
    /\ UNCHANGED <<handler, ctx, served>>

\* An attempt is named by its candidate and its number.
Name(r) == <<client[r].on, client[r].try>>

\* A text of a streamed answer, which may be dropped when its context has ended.
\* Nobody reads it when the handler has returned.
Text(r) ==
    LET text == [kind |-> "text", of |-> Name(r)] IN
    /\ client[r].pc = "call" /\ handler[r].pc \in {"first", "pump"}
    /\ client[r].texts < MaxChunks
    /\ \E out \in {Append(client[r].out, text)}
                   \cup {o \in {client[r].out} : ctx[r] # "live"} :
         client' = [client EXCEPT ![r].texts = @ + 1, ![r].out = out]
    /\ UNCHANGED <<breaker, handler, ctx, probers, served>>

Cancelled(r) == ctx[r] \in {"left", "done"}

\* What Classify makes of the outcomes: an answer; 429 and 5xx; DNS failures and
\* timeouts, the request's own deadline among them; a cancelled context, the
\* client's or the one the idle watchdog of a stream cancels; and all the rest,
\* which trying again does not mend.
Outcomes(r) ==
    LET possible ==
          [ok |-> TRUE, other |-> TRUE, server |-> client[r].texts = 0,
           reset |-> ~Cancelled(r),
           cancelled |-> Cancelled(r) \/ Kind(r) \in Streams]
    IN {result \in DOMAIN possible : possible[result]}

\* The attempt ends and the breaker is told.
Verdict(r) ==
    /\ client[r].pc = "call"
    /\ \E result \in Outcomes(r) :
         /\ client' = [client EXCEPT ![r].result = result,
              ![r].pc = IF client[r].probe THEN "release" ELSE "judge"]
         /\ served' = [served EXCEPT ![r].final = @ \/ ~Counts(result),
                                     ![r].whole = @ \/ result = "ok"]
         /\ Read(On(r), Recorded(breaker[On(r)], result))
    /\ UNCHANGED <<handler, ctx>>

\* ReleaseHalfOpenSlot, after the verdict that has given the place back already.
FreePlace(r) ==
    /\ client[r].pc = "release"
    /\ breaker' = [breaker EXCEPT ![On(r)] = Released(@)]
    /\ probers' = [probers EXCEPT ![On(r)] = @ \ {r}]
    /\ client' = [client EXCEPT ![r].pc = "judge", ![r].probe = FALSE]
    /\ UNCHANGED <<handler, ctx, served>>

-----------------------------------------------------------------------------
(* The loops of Complete and runStream.                                       *)

\* Mutant: a stream reconnects whatever the client has got.
MayReconnect_Always(r) == client[r].result = "reset"
MayReconnect(r) == client[r].result = "reset" /\ client[r].texts = 0

MayRetry(r) ==
    IF Kind(r) \notin Streams
    THEN Counts(client[r].result) /\ client[r].try < MaxAttempts
    ELSE MayReconnect(r) /\ client[r].try <= MaxStreamReconnects

\* The loop ends; a stream tells so in its last chunk, which may be dropped when
\* the context has ended.
Over(r, result) ==
    \E tell \in {TRUE} \cup {ctx[r] = "live"} :
      client' = [client EXCEPT ![r] =
        IF handler[r].pc = "idle" THEN NoClient
        ELSE [client[r] EXCEPT !.pc = "over", !.result = result, !.out =
                IF tell /\ Kind(r) \in Streams
                THEN Append(client[r].out, [kind |-> result, of |-> Name(r)])
                ELSE client[r].out]]

\* The loop goes on after a back-off, or gives up: for a long Retry-After (429),
\* or because the context ended while it waited.
Judge(r) ==
    /\ client[r].pc = "judge"
    /\ \/ /\ MayRetry(r) /\ ctx[r] = "live"
          /\ client' = [client EXCEPT ![r].pc = "admit", ![r].try = @ + 1,
                                      ![r].result = "ok", ![r].texts = 0]
       \/ /\ ~MayRetry(r) \/ client[r].result = "server"
          /\ Over(r, client[r].result)
       \/ /\ MayRetry(r) /\ ctx[r] # "live"
          /\ Over(r, IF Cancelled(r) THEN "cancelled" ELSE "reset")
    /\ UNCHANGED <<breaker, handler, ctx, probers, served>>

-----------------------------------------------------------------------------
(* The handlers: completeToClient, streamToClient and their counterparts.     *)

Goto(r, pc) == handler' = [handler EXCEPT ![r].pc = pc]

\* A request comes in and its hold is taken.
Begin(r, kind) ==
    /\ handler[r].pc = "idle" /\ client[r].pc = "none"
    /\ handler' = [handler EXCEPT ![r] = [NoHandler EXCEPT !.pc = "route", !.kind = kind]]
    /\ ctx' = [ctx EXCEPT ![r] = "live"]
    /\ served' = [served EXCEPT ![r] = Nothing]
    /\ UNCHANGED <<breaker, client, probers>>

\* Catalog.Candidates: one row and one breaker after the other; half-open counts
\* as healthy. Administrators disable rows and providers at any moment.
Pass(r, cands) == handler' = [handler EXCEPT ![r].next = @ + 1, ![r].cands = cands]
Route(r) ==
    LET i == handler[r].next
        b == Look(breaker[Order[r][i]])
    IN
    /\ handler[r].pc = "route"
    /\ \/ /\ i > Len(Order[r])
          /\ Goto(r, "choose") /\ UNCHANGED <<breaker, probers>>
       \/ /\ i <= Len(Order[r])
          /\ \/ Pass(r, handler[r].cands) /\ UNCHANGED <<breaker, probers>>
             \/ /\ Read(Order[r][i], b)
                /\ \/ Pass(r, handler[r].cands)
                   \/ b.state # "open" /\ Pass(r, Append(handler[r].cands, i))
    /\ UNCHANGED <<client, ctx, served>>

\* The handler returns, which ends the context of a client still at work; the
\* hold is settled or released.
Return(r, paid) ==
    /\ handler' = [handler EXCEPT ![r] =
         IF client[r].pc \in {"none", "over"} THEN NoHandler
         ELSE [NoHandler EXCEPT !.kind = Kind(r)]]
    /\ client' = [client EXCEPT ![r] =
         IF @.pc = "over" THEN NoClient
         ELSE [client[r] EXCEPT !.out = <<>>, !.try = 1, !.texts = 0]]
    /\ served' = [served EXCEPT ![r] = [Nothing EXCEPT !.paid = paid,
         !.final = client[r].pc \notin {"none", "over"} /\ served[r].final]]
Done(r, paid) ==
    Return(r, paid) /\ ctx' = [ctx EXCEPT ![r] = IF @ = "live" THEN "done" ELSE @]

\* The catalogue cannot be read.
NoRoute(r) ==
    /\ handler[r].pc = "route" /\ handler[r].next <= Len(Order[r])
    /\ Done(r, "released")
    /\ UNCHANGED <<breaker, probers>>

\* The next candidate. The OpenAI handlers look at the context first. A client
\* that cannot be built is passed over.
Choose(r) ==
    /\ handler[r].pc = "choose"
    /\ \/ /\ handler[r].cands = <<>> \/ (Kind(r) \in Chat /\ ctx[r] # "live")
          /\ Done(r, "released")
       \/ /\ handler[r].cands # <<>> /\ (Kind(r) \in Chat => ctx[r] = "live")
          /\ \/ /\ client' = [client EXCEPT ![r] = [NoClient EXCEPT
                     !.pc = "admit", !.on = Head(handler[r].cands)]]
                /\ handler' = [handler EXCEPT ![r].cands = Tail(@), ![r].pc =
                     IF Kind(r) \notin Streams THEN "wait" ELSE "first"]
             \/ UNCHANGED client
                /\ handler' = [handler EXCEPT ![r].cands = Tail(@)]
          /\ UNCHANGED <<ctx, served>>
    /\ UNCHANGED <<breaker, probers>>

\* Mutant: any failure is worth another candidate.
Elsewhere_Any(r, result) == ctx[r] = "live"
\* Whether the failure of a candidate is worth another one. Anthropic's handlers
\* ask the class of the error only, OpenAI's ask the context, too.
Elsewhere(r, result) ==
    Counts(result) /\ (Kind(r) \in Chat => ctx[r] = "live")

Failover(r, result) ==
    IF Elsewhere(r, result)
    THEN Goto(r, "choose") /\ client' = [client EXCEPT ![r] = NoClient]
         /\ UNCHANGED <<ctx, served>>
    ELSE Done(r, "released")

\* Complete has returned.
Returned(r) ==
    LET result == client[r].result IN
    /\ handler[r].pc = "wait" /\ client[r].pc = "over"
    /\ IF result = "ok"
       THEN Done(r, "settled")
       ELSE Failover(r, result)
    /\ UNCHANGED <<breaker, probers>>

Item(r) == Head(client[r].out)
Reading(r) == handler[r].pc \in {"first", "pump"} /\ client[r].out # <<>>

\* A text goes to the client, who may be gone (OpenAI) or have asked to stop
\* there (Anthropic), which settles the request.
Forward(r) ==
    /\ Reading(r) /\ Item(r).kind = "text"
    /\ \/ /\ Goto(r, "pump")
          /\ client' = [client EXCEPT ![r].out = Tail(@)]
          /\ served' = [served EXCEPT ![r].sources = @ \cup {Item(r).of}]
          /\ UNCHANGED ctx
       \/ /\ Kind(r) \in Chat
          /\ Return(r, "released")
          /\ ctx' = [ctx EXCEPT ![r] = "left"]
       \/ Kind(r) \in Messages /\ Done(r, "cut short")
    /\ UNCHANGED <<breaker, probers>>

Complete(r) ==
    /\ Reading(r) /\ Item(r).kind = "ok"
    /\ Done(r, "settled")
    /\ UNCHANGED <<breaker, probers>>

\* Mutant: an answer that breaks off is charged like a whole one.
Broken_Settles(r) ==
    /\ Reading(r) /\ Item(r).kind \notin {"text", "ok"}
    /\ IF handler[r].pc = "first" THEN Failover(r, Item(r).kind) ELSE Done(r, "settled")
    /\ UNCHANGED <<breaker, probers>>

\* A failure before the first text may go to another candidate; after it the
\* client gets an error event.
Broken(r) ==
    /\ Reading(r) /\ Item(r).kind \notin {"text", "ok"}
    /\ IF handler[r].pc = "first" THEN Failover(r, Item(r).kind) ELSE Done(r, "released")
    /\ UNCHANGED <<breaker, probers>>

\* The handler of a stream sees that its context has ended.
Abandoned(r) ==
    /\ handler[r].pc \in {"first", "pump"} /\ ctx[r] # "live"
    /\ Done(r, "released")
    /\ UNCHANGED <<breaker, probers>>

\* The client goes away, or the gateway's own request timeout strikes.
Leave(r) ==
    /\ r \in Leavers /\ handler[r].pc # "idle" /\ ctx[r] = "live"
    /\ \E end \in {"left", "late"} : ctx' = [ctx EXCEPT ![r] = end]
    /\ UNCHANGED <<breaker, handler, client, probers, served>>

-----------------------------------------------------------------------------
Attempt(r) == Admit(r) \/ Mode(r) \/ Text(r) \/ Verdict(r) \/ FreePlace(r) \/ Judge(r)
Serve(r) == Route(r) \/ NoRoute(r) \/ Choose(r) \/ Returned(r) \/ Forward(r) \/ Complete(r)
            \/ Broken(r) \/ Abandoned(r)
UpstreamNext ==
    \/ \E p \in Providers : CoolDown(p)
    \/ \E r \in Lanes : Attempt(r) \/ Serve(r) \/ Leave(r)
                           \/ \E kind \in KindsOn[r] : Begin(r, kind)
UpstreamSpec == UpstreamInit /\ [][UpstreamNext]_upstreamVars

\* Time passes and goroutines go on; clients need not come.
UpstreamFairness ==
    /\ \A p \in Providers : WF_upstreamVars(CoolDown(p))
    /\ \A r \in Lanes : WF_upstreamVars(Attempt(r)) /\ WF_upstreamVars(Serve(r))
FairUpstreamSpec == UpstreamSpec /\ UpstreamFairness
=============================================================================
