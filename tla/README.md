# XimoAgent: specifications, model checking and proofs

XimoAgent runs language-model agents. An engine takes a user's request (a *run*), lets a
model work on it in rounds of tool calls, keeps every state change in a durable log, and can
park a run to ask its user something, resume it, or cancel it. A scheduler decides which runs
and tool calls execute; pools of external workers execute some of them. After a crash a
supervisor starts the engine again, which rebuilds its runs from the log. A separate gateway
sells model access: it passes requests on to upstream providers and charges each of them to a
credit account.

These modules specify the parts whose interleavings are hard: the **scheduler**, the **life of
a run**, its **tool calls across crashes**, the **event streams**, the **workers**, the
**supervisor**, and of the gateway the **credit** and the **upstreams**. `PROJECT.json` lists
which source lines each definition stands for, the runs, the mutants, the hazards and the
theorems.

    tlasany M.tla                                   # parse
    tlc -workers 2 -config MCWorker.cfg WorkerProperties
    tlapm ResourcePoolProofs.tla                    # check the proofs

## 1. The system

### 1.1 Components

| Component (under `src/internal`) | State it keeps | Operations | Hard behaviour | What makes it correct |
|---|---|---|---|---|
| `scheduler/resource_pool.go` | slots in use, one waiter list per resource class, closed flag | Acquire, TryAcquire, Release, Close | a slot handed to a waiter that times out at the same moment; Close against a hand-over | slots exact, none idle while someone waits, FIFO, every wait ends |
| `scheduler/fair_queue.go` | per-class lists and virtual times, depth, per-session counts | Enqueue, Dequeue, ReleaseSession, CancelTask, CancelRun, DrainAll | counters kept apart from the lists they count, at five places | counters exact; a class is delayed, never starved |
| `scheduler/scheduler.go`, `budget.go` | gate, running and waits maps, cancelled runs, in-flight counter, queue depths | SubmitWait, Cancel, CancelRun, ClearRunCancellation, Wait, Close, dispatch loop, one goroutine per task | a task that is neither queued nor registered yet when it is cancelled; releases on every exit path; Close against Submit | all counters conserved; a cancelled run keeps no live task; every caller is told |
| `engine/engine.go`, `actor.go`, `decide.go`, `agent/loop.go`, `plan_mode.go`, `types/t02_run.go` | a run's state four times (machine, actor, record, log), ownership claim, cancel function, plan decision, prompts | Submit, Cancel, Resume, ConfirmPlan, Decide, WaitRun, the agent loop | two owners of one run; a Cancel that finds the previous execution's context; writes that commit and report an error; answers twice | one owner; Cancel reaches it; a parked run can be answered; no side effect after Cancel |
| `tool/runtime.go`, `idempotency.go`, `engine/recovery.go` | a claim per call key, the started and result events of the log, the list of uncertain calls | Execute, Get, RecoverInflight, Claim, Complete, Fail; Inspect, Scan, RecoverForIPC, ParkRun, Resume | a crash between any two statements; a stale claim whose owner still runs; a recovery pass that meets a live run | no unsafe call takes effect twice; none is replayed unasked |
| `engine/backpressure.go`, `engine.go` (streams) | subscribers with bounded channels, one merged frame per run and type | Emit, Publish, Subscribe, Unsubscribe, flush, Close, streamRun | history read while events are published; parallel tool calls that append and publish; a slow subscriber; a frame flushed from three sides | history and live events join, with no holes but those of events that race; no delta lost; a stream ends with its run |
| `worker/manager.go`, `lease.go`, `backoff.go` | worker slots, leases, queues of calls, a breaker per slot | Acquire, Execute, Heartbeat, Release, the sweep, handling of an exit, Stop | a lease that expires during a call; a crash with calls queued; two owners of an exit | one caller per slot, one call per worker, at most one dispatch of what may not be repeated; no waiter misses a free slot |
| `supervisor/supervisor.go`, `restart.go`, `process.go` | the entity's state, last beat, failure count, the process and its alive flag | Start, checkHealth, both handlers, recoverEntity, GracefulShutdown | a tick during a back-off; several handlers at once; a handler that outlives the shutdown | one engine at a time; a dead one is started again; none is left behind |
| `gateway/store/quota.go`, `usage.go`, `quota/*.go`, `gateway/api/openai/charge.go`, `cmd/ximo-gateway/reaper.go` | account, holds, ledger, usage rows | Reserve, Settle, Release, Expire, Adjust, InsertUsage | a commit whose caller is told an error; reaper against the request; repeated request ids; crash | money conserved: charged once, in full, refunded once |
| `gateway/api/*`, `gateway/catalog`, `gateway/upstream`, `provider/breaker.go`, `stream.go`, `openai.go` | a breaker per provider, the handler and the client's attempt of each request | Candidates, ClientFor, Complete, Stream, RecordSuccess, RecordFailure, ReleaseHalfOpenSlot | two nested loops that repeat a request; text already sent; a client that leaves as the answer completes | one answer from one upstream, no place of a probe lost, payment for whole answers only |
| `engine/admission.go` | run and memory ceilings, waiting list | Admit, Release | waiter that leaves while it is admitted | ceilings exact, no waiter lost |
| `storage/*.go` | event log, outbox, writer queue | Append, Enqueue, PollUndelivered, Ack, MarkFailed | slow poller whose claim expires | at-least-once delivery, dense sequence numbers |
| `checkpoint/*.go` | blobs, manifests | Put, Save, GC | a blob written while the collector sweeps | no referenced blob is removed |

### 1.2 How the modelled components interact

* The engine submits a run's rounds and tool calls as tasks; `SubmitWait` puts a task through
  the budget, the fair queue, the dispatch loop, a lease of the resource pool and the gate,
  in that order. `Scheduler` composes `FairQueue` and `ResourcePool` by `INSTANCE`.
* Cancel of a run calls `sched.CancelRun`, the record's cancel function, the machine and the
  actor, each under a different lock or none. `RunLife` keeps of the scheduler only what a
  run can observe: the mark of `CancelRun`, whether a tool's task has begun, and that a task
  whose caller gave up may still start (`late`). That it may is what `Scheduler` shows
  (`AbandonedIsStopped`, section 6).
* The session actor is a single goroutine that serialises the writes of its session to the
  log. A write whose context ends may commit and still report an error.
* A tool call is recorded as started, claimed in the ledger, run, committed, and its outcome
  is appended; `ToolCalls` has these durable writes and what recovery reads of them, and of
  `RunLife` only whether the run is busy, waits or has ended.
* What the log appends goes to the bus; `EventStream` takes the appends as given.
* The supervisor knows of the engine the process and its alive flag only: a beat is that flag.
  The frame that asks a new engine to recover is broadcast before the engine can have
  connected, but the engine recovers by itself when it starts, which is a pass of
  `ToolCalls`.
* Gateway handlers and the reaper share only the database: every write is one transaction
  on the single writer (`GatewayQuota`). Between the hold and its end a handler tries its
  upstreams (`GatewayUpstreams`), which share the breakers.

## 2. Modules

| Module | Models | State and actions |
|---|---|---|
| `ResourcePool` | one operator per critical section of the pool's mutex | `inUse`, `waiters` (FIFO), `mail` (each waiter's one-place channel), `poolClosed` |
| `ResourcePoolClients` | the pool with callers that acquire, give up and release | an action per outcome of Acquire: now, later, refused, granted, timed out, granted while timing out, failed by Close |
| `Semaphore` | the abstract specification: who holds which slots | Acquire, Release, Pass |
| `FairQueue` | weighted virtual-time queue, session ceilings | `queued`, `ahead` (who stands before a task in its class), `vtime`, `sessions`, `total` |
| `FairQueueClients` | the queue with tasks that come, run, are cancelled or drained, and come again | history `overtook`: who was served while a class was ready |
| `Scheduler` | callers of SubmitWait, dispatcher, task goroutines, CancelRun, Close | one action per section between two lock operations; `held[t]` is the stack of deferred releases of a task's goroutine |
| `RunStates` | `types.RunState`, final states, the transition table | no state |
| `RunLife` | one run: its executions, its actor, its log, its callers | `pc[e]` walks execution `e` through `runLoop` and `Loop.Run`; `rpc[c]` walks a caller through Cancel, Resume, ConfirmPlan, Decide |
| `ToolCalls` | the tool calls of one run over crashes | durable `ledger`, `state`, `seen`; `exec[e]` walks `ToolRuntime.Execute` statement by statement, `pass` a recovery pass |
| `EventStream` | one run's events on their way to subscribers | `hand[x]` is what a goroutine has taken out of the lock; `sub[s]` walks a subscriber through `streamRun` |
| `WorkerManager` | a pool's slots, callers of `Execute`, resumers, sweep, Stop | `act` walks whoever dispatches a call, `exit` whoever handles a worker's exit, one step per locked section |
| `WorkerLocks` | the two locks of a lease and its slot | one step per acquisition: heartbeat, sweep, Release |
| `Supervisor` | the entity, its process, the watchdog, the handlers, the shutdown | `child` has every process ever started, `handler[h]` walks a goroutine of `handleProcessExit` or `handleEntityUnhealthy` |
| `GatewayQuota` | accounts, holds, ledger, usage, handlers, reaper, administrator, crash | `pc[r]` walks a request's handler; tables are functions |
| `GatewayUpstreams` | breakers, the handlers of both APIs, the attempts of `provider.Client` | `handler` and `client` per lane of requests, `breaker` per provider, `ctx` what ended the request's context |
| `*Properties` | what each of these promises; below a line, what comments promise and the code does not keep | |
| `*Proofs` | theorems (section 5); `EngineProofs` serves `Supervisor` and `EventStream`, `GatewayProofs` both gateway modules | |
| `MC*` | small instances | |

Definitions named `X_Y` beside a definition `X` are the form `X` would have after a plausible
slip (a dropped guard, a forgotten release). Substituting one for the other must break the
property that `PROJECT.json` pairs with it; they are no part of the specification.

### Abstractions worth knowing

* **Scheduler.** A task id is fresh. The memory budget, notifications and statistics are left
  out; the wake channel only shortens a poll, so the dispatch loop may dequeue whenever
  something is ready. A task's lists are represented by a set and the relation "ahead of". A
  goroutine's deferred releases run one by one, last taken first, and other goroutines may
  step in between.
* **RunLife.** One run of its session. Model, tools and planner are external: a round ends in
  any way they allow. Admission, compaction, retries of the model and sub-agents only delay a
  round and are left out. The machine calls the actor with its lock held and the actor
  answers from one goroutine, so such a move is one step; every other step of `Cancel`,
  `Resume`, `ConfirmPlan` and `Decide` is separate. `Outcomes` gives what a write may do when
  its context is already cancelled: nothing, or commit, with the caller told either.
* **ToolCalls.** The log is what recovery reads of it: the run's last state and, per call,
  which kinds of event it has. A tool is of class C (must not be repeated), of class B with a
  state check before it runs (`Detectable`), or repeatable; of the tools only the file writer
  has such a check. It compares the file with what the call may say of it (`expectedHash`), so
  it can overlook the call's own effect, and can take another's for it: any answer is possible
  in `Reserve`, and no property is claimed of class B but that what is committed stays. Time is
  whether a claim is older than its lifetime. `Overlap` says whether a call may be dispatched
  again, under its id, while an execution that its caller has left goes on: `toolExecs`
  refuses only what somebody still waits for. The run and the theorems have it FALSE, which
  asks the model not to repeat an id; section 6 tells what happens otherwise. Permission
  prompts are `RunLife`'s.
* **EventStream.** One mergeable type, hence one frame; deltas come from the goroutine of the
  loop, durable events from any (`dispatchAll` runs a round's calls in parallel, and each
  appends and publishes). `raced` is history: the events that were still on their way to the
  bus when a later one was appended. A closed channel that is sent to is `panicked`, after
  which nothing is asked any more.
* **WorkerManager.** Each section under a lock is one step (`WorkerLocks` looks at the locks
  themselves). Time is free: a lease may be found expired at any sweep, a cool-down may end at
  any step. Failures are counted up to the threshold.
* **Supervisor.** One entity, as `runSupervisor` registers. Leases, heart-beats by call,
  `UnregisterEntity`, `TrackUnrecoveredRun` and the hooks of the shutdown have no caller in
  the program. The failure count stops at its limit. `PromptWait` is an
  assumption, not code: nothing is started between a kill and the return of `cmd.Wait` of the
  killed process. The code gives this to the handler that killed, whose own back-off of a
  second or more lies in between (`restart.go`), but not to another handler whose back-off
  ends in that window; `OneEngine` fails there (section 6). A tick asks twice whether the
  process lives, and the model lets it find a dead one unhealthy in any state.
* **GatewayQuota.** Amounts are integers as in the code, with the saturation at `MaxInt` and
  the integer division by 1000 of `EstimateMicro`. A store call has three endings: committed
  and told, committed and told an error, not committed and told an error. The reaper expires
  one hold per transaction, which is the finest grain any `--reap-limit` gives. `Timed` says
  that requests are cut off before their holds expire (defaults: 5 and 10 minutes).
* **GatewayUpstreams.** An answer is a number of texts and an ending; errors are classes.
  `MaxChunks` bounds the texts. A lane serves one request after the other. What an
  administrator has disabled, and a catalogue that cannot be read, are choices of `Route` and
  `NoRoute`.

## 3. Runs

| Run | Instance | Question, and what it shows |
|---|---|---|
| `pool` | 4 callers, a one-slot and a two-slot class, waiter lists of 2, 3 188 states | Does any order of grants, time-outs, releases and Close lose or duplicate a slot, or let a late caller pass an earlier one? No. The pool implements `Semaphore`, and every blocked Acquire returns. |
| `fair_queue` | 5 tasks, weights 4 and 1, two sessions with one slot, caps 3 and 2, 13 736 states | Are the counters exact whichever way a task leaves? Is a class starved? No: `BoundedDelay` bounds who may pass it by virtual time. |
| `sched_open` | 2 tool calls of one run, session cap 1, callers that give up, CancelRun, fairness, 171 372 states | A cancelled run keeps no running task with a live context, every queued task ends or is dropped, and every SubmitWait returns. |
| `sched_closing` | 2 tool calls that compete for one terminal slot, class cap 1, with Close, 338 282 states | Leases, reservations, session counts and the gate are what their holders owe, and the in-flight counter is balanced, with Close racing submission, dispatch and completion; no task that did not succeed is reported as a success; a waiter is answered by its task or by Close, unless its Submit overtook all of Close (`Stranded`). |
| `life` | 2 callers with every request, a deadline on the first execution, plan mode, 2 executions of 1 round, 2 037 725 states | Two goroutines never execute the run, Cancel's context is the owner's, the four copies of the state agree again whenever nobody works on the run, and a parked run can be answered. |
| `tools` | a class B and a class C call, 2 executions, 2 crashes, a recovery pass beside the run, 5 415 239 states | No effect of class C happens twice; what is committed stays and is not run again; recovery calls nothing replayable that had its effect, and asks about whatever may have. |
| `events` | 2 goroutines that append and publish, 3 durable events and deltas in any mixture, the timer, a subscriber with a buffer of 1 that may come late, be slow or leave, Engine.Close, fairness, 450 455 states | Is an event doubled, or lost where history and live events meet or in a full channel? Only one that the next append raced (section 6). Does a delta vanish between timer, full frame and Close? No. Does a stream outlive its run? Not one that was live when the run ended, unless a later event reached it before the terminal one. |
| `workers` | 2 callers, one with a repeatable action, one slot, a queue of 1, one fault, 3 starts, fairness, 209 354 states | A caller that lost its lease frees nobody's slot, a worker serves one call at a time, no call is handed out twice, and a caller that waits for a slot gets one or is refused without giving up, whoever crashed, expired or restarted on the way. |
| `supervisor` | 3 handlers, breaker at 2 failures, 3 starts, 2 faults, shutdown, fairness, 878 914 states | Never two engines on one database; none outlives the supervisor but one that a handler started after the kill; a dead engine is started again. |
| `quota` | 3 requests of one user, two with the same id; debit, top-up and freeze; failures, crash, reaper, fairness, 348 876 states | Balances are what holds and ledger add up to, usage rows say what was charged; nothing is charged or refunded twice; every hold ends. |
| `gateway` | 2 lanes of requests (streams of both APIs, whole answers) over 2 providers, one whose clients leave, breakers that open at one failure, 2 attempts, 2 175 980 states | Whatever repeats a request, a client gets one answer from one upstream; what was refused for good is not sent again; no place of a probe is lost; only whole answers are paid. |
| `worker_locks` | one heartbeat, one sweep, one Release | *Violated.* `heartbeatLease` takes the lease's lock, then the slot's; `sweepSlot` the other way round. Both wait for ever, and so does Release, which waits for the heartbeat ("goroutines all have a way out", `lease.go:57`). |

### Bounds, and why they are enough

The races of these components involve two or three parties: a holder, one that waits, one that
gives up or cancels. `pool` has four callers so that a class has a holder, two waiters and a
newcomer at once, which is what FIFO order and a passed-on grant need. The scheduler's runs
have two tasks against capacity one, so each ceiling has a holder and a loser. `Scale = 0`
(virtual time stands still) is used where order between classes does not matter; `fair_queue`
uses 1000. There `MaxVTime` only stops new offers: 3000 lets the light class be served three
times, the heavy one twelve.

A run's bound is `MaxExecs`: two executions give the race between an old and a new one. One
round suffices to park, call a tool and finish. Callers are interchangeable in `life`, which
checks no liveness, so symmetry is used there. The deadline is one of the first execution only
(`Deadlines = {1}`): the second meets it as what it finds of the first, and as an error that
Cancel causes as well. `MCRunLife_doubts.cfg` names the settings for a single caller, with
three executions and without the deadline, under which the following holds although it fails
for two: an evicted run is logged as ended, no tool starts after Cancel returned, and who
claims a run gives it back.

`tools` needs two calls because a pass sorts calls apart, two crashes because the second finds
what the first recovery left, and two executions because one may be left behind by its
caller. `events` needs a buffer that one event fills, two goroutines that race, three events so that a
hole can lie between two of them and one of the three need not be raced, and three deltas so
that a frame can be full (2) and another begin; `MaxEmitted` bounds events and deltas together. `workers` has one
slot so that every caller meets every other; a single fault (crash, expiry or failed start)
opens the breaker, and three starts are one more than the faults can use up. With Stop at any
moment, and two starts, the three safety properties hold as well (1 750 449 states, settings
in `MCWorker_doubts.cfg`); liveness is checked without it. `supervisor` has three handlers
because a tick can meet two of them; `MaxStarts` is named in `DeadIsRestarted`, which promises
nothing once no start is left to the bound. `gateway` has two providers so that one candidate
can be left when the other fails, and two lanes so that two requests share a breaker's one
probe. That its breakers always admit somebody again (`AdmitsAgain`) is checked for one
provider, with settings in `MCGatewayUpstreams_doubts.cfg`.

`quota` needs two requests with one id (they share a hold) and a third that competes for the
same balance; reported costs of 1 and 3 against estimates of 1 and 2 make an answer cheaper
and dearer than its hold. An opening balance of 3 covers one hold of 2 and one of 1 and no
more.

Deadlock checking is on for `pool`, `fair_queue` and `gateway`, whose clients recirculate. The
other systems stop when all their calls have returned, so it is off there, and the liveness
properties say what must not be left hanging.

### Fairness

* `pool`: a blocked caller whose answer is in the mail reads it, and a holder releases its
  lease (`Release` is deferred by every user of the pool). Time-outs and Close are not
  required to happen.
* `sched_open`: every goroutine keeps running; a runner returns since its context and its own
  time limit end it; a caller's context is only sure to end when `CancelRun` dropped its task,
  because the engine cancels the run's context right after that call. Nobody has to give up
  or to cancel.
* `events`: goroutines keep running, an armed timer fires, a reader reads. Nobody has to
  emit, subscribe, leave or close.
* `workers`: callers and resumers keep running, the maintenance loop ticks, an open breaker
  cools down, and a call ends at its deadline (every tool call has one), also one that waits in
  a slot's queue. No fault has to happen, and no waiter has to give up. What the deadline hides,
  a queued call that nobody resumes, is `QueuedIsResumed` (section 6, under `UntimedSpec`); that
  Release waits for the heartbeat, which may hang, is `worker_locks`.
* `supervisor`: the ticker ticks, goroutines run, `cmd.Wait` returns for a dead process, time
  passes (a beat gets old, the stable window ends). A start may fail, but only as often as the
  bound on faults allows: an engine that can never be started is not promised to start.
* `worker_locks`: strong fairness for each goroutine; a lock that is free again and again is
  got in the end. The counterexample needs none of it: both wait for ever.
* `quota`: handlers end by their time-outs and the reaper runs every minute
  (`--reap-interval`, which must not be 0).

Elsewhere it is weak fairness: no property depends on a lucky choice that is only now and then
possible.

## 4. Hazards and the properties aimed at them

`PROJECT.json` has the list with source lines. The ones that drove the design:

* **A slot in the mail** (`resource_pool.go`): a released slot is sent to a waiter that may
  be timing out. The refinement of `Semaphore` counts a grant in the mail as owned, and
  `NoOvertaking` says that nobody passes its receiver.
* **Between the queue and the running map** (`scheduler.go`): a task is in neither while it
  waits for a lease. `CancelReachesAll` holds because the task looks at the cancelled mark in
  the section that registers it; `AbandonedIsStopped` fails because a single `Cancel` leaves
  no mark.
* **One owner** (`engine.go`): `Resume` claims a run before it knows that it may, and the end
  of the old execution gives the claim back with a defer (`OneOwner`). The mark, the cancel
  function and the machine that Cancel uses belong to whichever execution it finds;
  `CancelReachesOwner` relates them to the owner.
* **Undo** (`engine.go`, `decide.go`): an answer whose resume fails is taken back, or the run
  could never be answered again (`ParkedIsAnswerable`).
* **A crash between two statements** (`runtime.go`, `recovery.go`): the started event, the
  claim, the effect, the commit and the result event are five writes to three places. For each
  prefix of them recovery must know whether the effect may have happened (`UnsafeOnce`,
  `ReplayIsHarmless`, `UncertainAsked`).
* **History and live events** (`streamRun`): subscribe first, read the history, then skip what
  was seen. A repetition or a reordering would show there, and a hole but where two goroutines
  published against the order of their appends (`HolesAreRaces`); a subscriber whose buffer is full is disconnected rather than robbed of
  the event that ends its stream (`StreamEnds`).
* **A lease that ends during its call** (`lease.go`): the slot goes to somebody else while the
  worker still works for the first (`LeaseExclusive`, `OneCallPerWorker`), and what was queued
  behind the call is dispatched again (`RunsOnce`). A waiter registers before it scans, so that
  no slot is freed or restarted unnoticed in between (`WaitersServed`).
* **Several handlers of one death** (`supervisor.go`): a tick during a back-off takes the
  state recovering away, which was to keep the others off. The alive flag of the process is
  the only other guard, and it is enough (`OneEngine`), provided that nobody resets it late.
* **Told an error, committed all the same** (`charge.go`): releasing the hold then would
  refund what was charged; `HoldEndsOnce`, `UsageIsTrue` and `ServedIsCharged` cover the
  three ways to get this wrong.
* **Two loops that repeat** (`provider`, `api`): each decides for itself what may be repeated,
  one by the class of the error, the other by what has been sent (`TransientOnly`,
  `OneSource`); a probe's place is given back by the verdict, by the release, or by nobody
  (`NoLeakedSlot`).

## 5. Proofs

All theorems hold for any number of callers, requests and so on; the assumptions on the
constants are the `ASSUME`s of the modules, and what a theorem's own statement names.

**ResourcePoolProofs.** `IInv == TypeOK /\ SlotsExact /\ NoIdleSlot /\ WaitersExact` is
inductive. `SlotsExact` is not so alone: a release hands its slot to the head of the list, and
the count stays right only if that caller is blocked on this class with an empty channel and
appears once, which is `WaitersExact`. The proof has one lemma per action; the
lemma `SlotReturned` is shared by release and by a time-out that finds a grant. Theorems:
`PoolTypeCorrect`, `PoolSlotsExact`, `PoolNoIdleSlot`, `PoolWaitersExact`, and
`PoolImplementsSemaphore`: under the mapping "owner = holds a lease or has a grant in the
mail" each step is a `Semaphore` step or a stutter. `PoolIsFIFO` proves the action property
`NoOvertaking`: only a release hands a slot on, and it serves the head of the list.

**FairQueueProofs.** `FairQueueInv` adds to the type invariant, the two counters and the bound
on the delay that a task is listed exactly when its phase says so; without it a task could be
listed and in flight at once, and a dispatch would count it twice. The step that matters is the
dispatch: the class served has the least virtual time of the ready ones, so afterwards it leads
each of them by at most the task it was served (lemma `DelayBounded`). Theorems:
`QueueTypeCorrect`, `QueueSessionExact`, `QueueTotalExact`, `QueueCountsExact` (both),
`QueueDelayBounded`.

**SchedulerProofs.** In `Spec` every operation, Close included, may happen at any moment.

* `SchedulerCancelReachesAll`: CancelRun's mark and its snapshot are one critical section, a
  task looks at the mark in the section that makes it visible to the snapshot, and the
  settlement forgets the snapshot only after it ended every context in it.
* `SchedulerGateExact`: `ShapeInv` says that a task's place, its caller's place and its
  deferred releases agree (a task that has not passed the gate owes it nothing, and is listed
  once, before it owes anything); given that, the gate's count follows the set of goroutines
  that owe it a token through every exit path.
* `SchedulerUsesPool`: each step of the scheduler is a step of `ResourcePoolClients` (tasks for
  callers) or leaves the pool alone, so the theorems of `ResourcePoolProofs` hold of the
  scheduler's pool. `SchedulerLeaseExact` is one of them, carried over.
* `SchedulerCountersExact`: from `SchedulerSessionExact`, `SchedulerGateExact`,
  `SchedulerLeaseExact` and `SchedulerAccountsExact`. The in-flight counter is only balanced: it
  is too low while an accepted task is not counted in yet (section 6, `WaitSeesAccepted`). `DropInv` is what this needs: a task leaves
  the queue once, through one remover, and stays with that remover until it is taken out of
  the depth and the in-flight count. The theorem assumes `OnlyTools`, that every task is a tool
  call, because `CancelRun` gives every reservation back as that of a tool call. The program
  submits nothing else (`engine.go:1641`; `SubmitRunTask`, `engine/scheduler.go:35`, has no
  caller).
* `SchedulerSuccessIsReal` and `SchedulerWaiterIsServed`: `AnswerInv` follows an answer from
  the task's outcome, or from the list of what Close drained, through the caller's channel. Two
  waiters are excepted by name: the one whose task CancelRun dropped, and the one whose Submit
  passed the closed check and enqueued after all of Close (section 6, `ClosedIsEmpty`).

**RunLifeProofs.** Three invariants, each on top of the one before.

* `OwnerInv` adds to `OneOwner` and `CancelReachesOwner` where executions and callers may be,
  and that before Submit nobody has called. Five of the actions take or give the run (Submit,
  ResumeClaim, ResumeMove, ResumeSpawn, Exit); `OwnersKept` disposes of all others at once.
  Theorems: `OwnerInvariant`, `RunHasOneOwner`, `CancelFindsOwner`.
* `CalmInv` is about a run that no Cancel has begun on and no deadline has ended. Every write
  then goes through, machine, actor and log move in one step, and the place of the execution
  tells the state they are in (`Place`), which is what keeps the engine's record right when the
  execution leaves. That the next execution is a new one, hence not on an ended context, is
  `Numbered`. Theorems: `CalmInvariant`, `RunCopiesAgree`.
* `ParkInv`: an execution that parks the run leaves a proposal or a prompt, and a caller that
  has taken one is on its way to put it back (`Restoring`) or to start the next execution. It
  needs that ConfirmPlan and Decide keep their kind on the way through Resume (`OpKept`), since
  a plain Resume restores nothing. Theorem: `RunParkedIsAnswerable`.

The limit to undisturbed runs is in the two properties, not only in the proofs: with a Cancel
they fail (section 6, `CancelledIsSeen`).

**ToolCallsProofs.** As long as no call is dispatched while an execution of it goes on
(`~Overlap`). `ToolsInv` says that a call has one execution at a time, so that nobody else
writes the record of its key: between its claim and its end the record is inflight, and a call
of class C is claimed only where no claim was ever made, at which point it has had no effect.
The started event comes before all of this in a log that never shrinks, so a call without one
has had no effect either. `UnsafeOnce` is not inductive without the positions (`NotYet`): the
step that has the effect must know that there was none. `AskInv` is about the recovery pass:
unless it meets a running loop, nothing is under way while it reads, so every call of class C
that had its effect and has no result stays on the pass's list, and on the run's after that.
Theorems: `ToolsInvariant`, `EffectsAtMostOnce`, `CommitIsFinal` (an action property),
`ReplayedHadNoEffect`, `UncertainIsAsked`.

**EngineProofs.** The engine as others see it, in two parts that share no state.

* Supervisor, as long as a killed process is waited for before its restart (`PromptWait`).
  `ChildrenOK`: every process but the newest has been waited for, so no late `cmd.Wait` can
  reset the flag of another one, and a process whose flag is down does not run. The shutdown's
  kill looks at that flag, so it leaves nothing running, and what runs afterwards was started
  after it (`KilledInv`). Theorems: `ProcessFlagIsRight`, `NeverTwoEngines`,
  `ShutdownMissesNone`. Without the assumption the first two are false (section 6).
* EventStream, for any number of producers that append and publish at the same time, any
  subscribers, timers, events and deltas and any sizes, with `Engine.Close` at any moment.
  `HolesAreRaces` looks at what was sent; `StreamInv` says why it stays right. Of the events on
  their way only the last of the log can be one that was not raced (`HandOK`). A subscriber past
  its history knows the log up to `Known`; each later event that was not raced is in its channel
  or is the one on its way and aimed at it (`Arrived`), and an event in the channel has all of
  those before it in front of it, or they are known (`Linked`). Hence what the stream takes next
  is either known, and dropped, or passes over raced events only. A full channel ends the
  subscription in the section that finds it full, so `Arrived` never has to hold of a subscriber
  that was robbed of an event. Theorems: `StreamInvariant`, `StreamHolesAreRaces`.
  `DeltasConserved` needs not much of an invariant (`DeltaInv`): what
  matters is that a frame is taken and emptied under one lock, and that Close, which may take a
  frame too, begins with empty hands. Its three lemmas say how a delta moves: it joins the frame
  (`DeltaJoins`), a goroutine takes it (`DeltaTaken`), the bus gets it (`DeltasShown`). Theorem:
  `DeltasAreConserved`.

**WorkerProofs.** For any callers, slots, faults and starts, with Stop at any moment.
`WorkerInv` has three independent parts. `LeaseOK`: a reservation is one caller's and excludes
a lease, so attaching a lease overwrites none. `ServeOK`: whoever has counted itself into a
slot's `inflight` is alone there, because the count is looked at and raised in one section.
`OnceOK`: a call is at one place at a time (with its caller before the dispatch, in one queue,
with one goroutine that resumes it, or on the list of one exit), and a call that was handed out
is at none of those from which it could be handed out again. Theorems: `WorkerInvariant`,
`LeasesExclusive`, `WorkerServesOne`, `CallRunsOnce`.

**GatewayProofs.** The credit and the upstreams, in two parts that share no state.

* GatewayQuota. `QuotaInv` consists of the books (types, the ledger identity, and that
  a hold has a maker that carries its key), the handlers, and `OwnHolds`: a request that shares
  its id with nobody, and is being served, stands on its own open hold, *provided requests are
  timed*. One lemma per kind of posting (take, charge, give back, adjust). Theorems:
  `QuotaTypeCorrect` (no reserved or used sum goes below zero), `QuotaServedIsCharged`, `QuotaHoldEndsOnce` (an action property). `UsageInv` is a second
  invariant, which needs no `Timed`: the row of a request whose id nobody repeats is written by
  that request alone, after its own charge or after it has given up on one, and a charge is
  final even when the reaper is early. Theorem: `QuotaUsageIsTrue`.

  Sums over holds are recursive definitions, and what those compute is shown by induction
  without the library's induction theorems (their parameter is an operator, which no prover here
  instantiates): a set of subsets that is closed under adding an element holds every subset of a
  finite set, or there would be a smallest exception (`SubsetInduction`, from `WFMin`). The sum
  of the weights is the number of units, as many per element as its weight says (`SumIsCount`),
  and the recursive function exists because that number satisfies its equation (`SumExists`).
  What is left for each posting is one hold more or less (`UnitsOfMore`, `UnitsOfLess`). Hence
  `QuotaBooksExact` (by `SumInv`: the reserved and used amounts are what the holds say),
  `QuotaNoOverdraft` (by `OverInv`: a hold is taken and a debit made only from what is
  available, so only an answer dearer than its hold overdraws) and `HoldsAreCovered` (the check
  "reserved < held" of three transactions never refuses). That finitely many holds are open or
  settled is part of both invariants; the set of users may be infinite.
* GatewayUpstreams, for any providers, candidates, lanes, thresholds and numbers of attempts.
  `UpstreamInv` has one part per breaker and one per lane. `BreakerOK`: whoever a half-open
  breaker counts as let in is in an attempt at this provider and will pass the release. The
  delicate point is that admission and "am I a probe?" are two sections of the breaker's lock:
  a breaker that changed its state in between has forgotten its probes, and one that did not is
  still half-open, so the client knows that it has to release. `Judged`: the history agrees
  with the result an attempt ended with until the handler has acted on it; both loops go on
  only after a result that counts as a fault. `OfAttempt`: what the client has got and what is
  on its way are texts of the attempt under way, and there are none of either while a loop may
  still go on. `Paced` ties the handler's place to the attempt's. Each action is shown once to
  be a step of one lane (`LaneStep`), which carries the claim about the hold along. Theorems:
  `UpstreamInvariant`, `ProbePlacesReturn`, `AnswerHasOneSource`, and the action properties
  `OnlyFaultsRepeat` and `SettledIsWhole`. No assumption beyond those of the module.

**Only model-checked.** Liveness and everything that needs `ENABLED` (`WaitEnds`,
`CallersReturn`, `TasksEnd`, `HeldEnds`, `StreamEnds`, `DeltasArrive`, `WaitersServed`,
`DeadIsRestarted`): eight properties. Every safety and action property of a passing run is a
theorem.

## 6. Disagreements between the code and what its comments say

`worker_locks` is the one that is a run of `PROJECT.json`. Each `MC*_doubts.cfg` lists, beside
the settings, properties that end in a counterexample; one of them is active in the file, the
others are put in its place.

| `_doubts` of | Property | What happens |
|---|---|---|
| `MCScheduler` | `AbandonedIsStopped` | `SubmitWait` ignores the error of `Cancel` for a task that has left the queue and is not registered yet; the task runs later with a live context although its caller was told it timed out ("Stop the task") |
| | `WaitSeesAccepted` | a task is in the queue before it is counted in flight, so the counter can be 0 while an accepted task waits or runs; "Wait blocks until every accepted task has finished" |
| | `CloseCancelsAll` | Close's pass over the running map misses a task that has its lease and is not registered |
| | `ClosedIsEmpty` | a Submit that passed the closed check enqueues after Close drained the queue and the dispatcher ended; its caller waits until its own context ends ("each abandoned task must ... fail its waiter") |
| | `NoStaleWaiter` | the `waits` entry of a task dropped by CancelRun stays |
| `MCRunLife` | `CancelledIsSeen` | Cancel of a parked run moves machine, actor and log but not the record, and nobody runs `finishRun`: `WaitRun`, which polls the record, never returns ("blocks until a specific run reaches a terminal state") |
| | `LogSealed` | a run cancelled while its park is recorded gets a waiting_user event after its last one |
| | `OneEnding` | a deadline between the commit of the completion and the actor's answer leaves two endings in the log |
| | `FinishedIsRecorded` | Cancel calls the cancel function that Resume is about to replace; with a deadline, a tool that starts late logs "executing" over the end |
| | `NoNilMachine` | Cancel checked the state; `finishRun` released the machine before Cancel used it |
| | `CancelStopsTools` | Resume clears the cancellation mark of a Cancel under way; a tool starts after Cancel returned |
| | `ConfirmedIsUsed` | a second confirmation overwrites the decision the first one resumes with |
| | `OneWinner` | two Decides claim one prompt, since an empty set of prompts is rebuilt from the log |
| | `NotReproposed` | a plan-mode run resumed after a tool prompt proposes a plan again |
| `MCToolCalls` | `LiveRunKept` | a second recovery pass (`RecoverForIPC`) parks a run whose loop runs; "the in-memory record wins" |
| | `ResumedIsAsked` | after a second crash a parked run can be resumed before the pass has listed its calls again: nobody is asked about the one that had its effect |
| | `FailedIsFinal` | a second pass that cannot inspect a run writes its failure to the log while its loop runs on in memory |
| | `DetectableOnce` | the state check of the file writer "avoids writing again after a crash" (`domains/file/file.go:472`); without the optional `expectedHash` its answer is "unknown", after a partial write or an append "not done", and both let the tool run again |
| | `UnsafeOnce`, `Overlap = TRUE` | the claim of an execution whose caller has left is older than its lifetime and taken over; both have their effect |
| `MCEventStream` | `OverIsComplete` | the history was read before the run ended, or could not be read, and the terminal check comes after the end: the stream ends without the last events, though the channel may hold them |
| | `EveryStreamEnds` | the last event is published before the record says that the run ended: who subscribes and checks in between has read everything and waits for an event that never comes |
| | `NoSendOnClosed` | `Publish` sends on a subscriber's channel after it left the lock; Unsubscribe and Close close it meanwhile |
| | `FramesInOrder` | a frame taken by the timer is published after the one that filled up behind it |
| | `NoGap` | two tool calls of a round append and publish in parallel (`loop.go:1019`, `engine.go:1674`); the bus gets the later event first, and the earlier one is taken for seen and never shown, nor to who resumes from there: "what makes the two halves join without a gap" (`engine.go:742`) |
| | `EndIsShown` | the same with the terminal event of a Cancel and a tool call's late one: the stream stays open |
| `MCWorker` | `StopLeavesNone` | a restart under way publishes its worker after Stop has been through the slots |
| | `QueuedIsResumed`, `UntimedSpec` | a call is queued behind one of an evicted caller that still runs; `resumeQueued` runs after a start only (`manager.go:598`), so when that call ends nobody takes the queued one, until a restart or its own deadline |
| | `NotRevived` | a queued call whose caller was cancelled is queued again by a restart |
| | `ProbesInFlight` | a probe's place is not given back when its call ends without a verdict |
| | `NoOrphan` | a sweep restarts a slot whose exit is still being handled; the end of that handling retires the slot, and the next start overwrites the worker that lives |
| `MCSupervisor` | `OneRecovery` | a tick during a back-off writes unavailable over recovering, and the next handler recovers, too |
| | `KillsOnlyDead` | a late handler of "unhealthy" kills the engine that another one has just started |
| | `AliveIsRunning` | the second recovery's Start is refused, the state becomes unavailable though the engine lives, and nothing corrects it |
| | `NoLateStart` | a handler whose back-off ends as the shutdown begins starts an engine after the kill |
| | `OpenForbids` | an open breaker ("open: restart forbidden", `restart.go:79`) stops one handler, not those already in their back-off |
| | `OneEngine`, `PromptWait = FALSE` | the late `cmd.Wait` of the killed process resets the alive flag of the new one, which a handler then starts again |
| `MCGatewayQuota` | `NeverNegative` | available is "never negative" by the release notes of v2.2.0; an answer dearer than its hold is charged in full |
| | `HoldsSomething` | a model without a price should still take a hold; below 1000 tokens the division gives 0 |
| `MCGatewayUpstreams` | `FailsOver` | the breaker's refusal is classified as unknown and ends the request though a candidate is left |
| | `ReopensAtOnce` | a failed probe after a successful one does not reopen the breaker |
| | `StallIsUpstream` | a stream that the idle watchdog cut off counts as cancelled by its client |
| | `ProbesBounded` | places are given back twice, by the verdict and by the release, so more probes are let in |

Also met on the way:

* Gateway credit: `0003_gateway.sql` says a request id may be reserved again after a release,
  while `ReserveTx` answers Conflict; usage rows are keyed by the request id alone, so the rows
  of two users with one id collide (`UsageIsTrue` is stated for ids nobody shares); with
  `--request-timeout 0` the reaper may take the hold of a live request (`Timed = FALSE`).
* Gateway upstreams: the handler's own deadline counts as a failure of the upstream;
  `Pool.MarkFailure`, `MarkSuccess` and `Invalidate` have no caller; an Anthropic stream that a stop sequence
  cuts short is settled with the usage known so far.
* Supervisor: the tracker's last success is the one of `Start`. Sixty seconds after the launch
  every failure therefore resets the count first: the back-off stays at its first step and the
  breaker never opens, whereas the repository's README (line 305) has it grow from 1 s to 30 s.
  `CanAttempt` is never asked. The frame that asks for recovery is broadcast before the new
  engine has connected.
* Workers: a crash loop whose restarts succeed never opens the breaker, failures never age
  out, and a queue size of 0 means 64.
* Tools: the engine's IPC server answers before the startup recovery is over; an approved call
  of class C is still refused by the ledger; the number of recovery attempts is kept in
  memory only.
* Events: the coalescer's list of keys is never trimmed; a history that cannot be read is
  taken for empty.

## 7. Not modelled, and what is left

Outside the model for good: prompt construction and supervision heuristics
(`agent/planning.go`, `supervision.go`), token counting and context compression (`context/`),
memory and knowledge ranking (floating-point scores), wire formats (`ipc/`, SSE, `provider`
streams), permission tables and text scanners (`tool/permission.go`, `sandbox*.go`),
configuration, secrets, bootstrap, observability, row mapping and migrations, the front end
and the plug-in generator. Most of the repository's lines are of these kinds. The outbox's
dispatcher and the checkpoint collector are called by tests only, so their races are not the
program's. `PROJECT.json` gives each part with its reason.

What is left, most important behaviour first:

1. Several runs of one session in `RunLife`, with `Admission` before them; parent and child
   runs (expert and cluster runs) above it.
2. Proofs: `FinishedIsRecorded` of `RunLife` for a single canceller.
