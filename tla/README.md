# A TLA+ model of zhixing

zhixing (知行) is a personal AI agent: a long-running host that holds
conversations, runs tools under the user's confirmation, fires scheduled tasks,
and delivers replies and results to chat channels, with several devices that
share one authority log.  This directory holds TLA+ modules of the parts whose
correctness depends on interleavings, crashes and late answers, TLC
configurations that check them on small instances, and TLAPS proofs for every
value of the constants.  Paths below are relative to the repository root,
`src/packages/` is abbreviated to `packages/`.

## 1. Inventory

| Component | State | Operations | What makes it correct |
|---|---|---|---|
| Outbox and turn slots, `packages/core/src/delivery/outbox*.ts` | a queue per chat target, slots, one drain, the entry in flight | `post`, `openSlot`, `fillSlot`, `abandonSlot`, TTL, drain, send timeout, `reapIdle` | nothing lost, nothing stranded, one send at a time, replies before what waits for them |
| Durable delivery lifecycle, `delivery/application.ts`, `authority.ts`, `lifecycle-policy.ts`, `delivery-authority.ts` | items in the authority log: state, attempt, budget, open fact, notices, binding; in the process: the lifecycle admission | enqueue, claim, redrive, record outcome, resolve, install / seal / release admission | no attempt without authorisation, terminal states final, no delivery past a freeze |
| Effect driver, `delivery/authority-pipeline.ts` | pipeline state, the active drain, the item in process | prepare, activate, flush, quiesce, settle, resume, stop | no duplicate on its own account, quiet after quiesce, progress |
| Channel effect and turns, `delivery/channel-effect.ts`, `packages/server/src/channels/inbound-router.ts`, `packages/owner-kernel/src/delivery-participant.ts` | slot of the turn, obligations of the commit | turn start and commit, task result, send | the user sees a reply before the results of the tasks it created |
| Confirmation, `packages/core/src/confirmation/broker.ts`, `packages/owner-kernel/src/confirmation-hub.ts` | admitting and pending requests, queue, terminals, timers, listeners | request, resolve (durably, non-interactively), cancel, cancelAll, expire, attach, detach | one recorded decision, cancelled stays cancelled, nobody forgotten |
| Authority commit log and projections, `packages/core/src/authority/` | write-ahead log, durable projections, lock sessions | append, transact, recover, catch up | a transaction is committed once and stays; decisions are made on the current log |
| Persistence primitives, `packages/core/src/persistence/` | lock files and their guards, serial queue | acquire, check the owner, reclaim, release | mutual exclusion although holders die, busy only under contention |
| Scheduler, `packages/core/src/scheduler/`, `packages/owner-kernel/src/scheduler-authority.ts` | tasks, due times, runs in flight | arm, fire, finish, pause, remove | one run per task at a time, no occurrence lost or doubled |
| Assignments, `packages/executor/src/assignment-*.ts`, `packages/owner-kernel/src/*-assignment.ts` | ledger, leases, stream spool | offer, accept, renew, report, fence | one executor acts per fence; results applied once |
| Control admission and conversation manager, `packages/owner-kernel/src/` | request journal, turn queues | admit, apply, cancel | a repeated command acts once |
| Resources, `packages/core/src/resources/`, `packages/*/src/resource-governor.ts` | what is reserved, the bucket of I/O quanta, queues per service class, permits | acquire, drain, begin and complete a step, lend a slot, release, refill | capacity never exceeded and returned once, no waiter that fits is passed over for ever |
| Interrupt, resilience, `packages/core/src/interrupt/`, `resilience/` | abort state, retry and breaker counters | interrupt, watch, retry, trip | an abort ends the turn; bounded retries |
| Mesh, `packages/mesh/src/` | sessions, calls out and calls served, replay window | request, cancel, time out, serve, close, rekey, pair | an answer says what became of the service, every call and every place ends |
| Advancement, agent loop, transcript, context, orchestration | see PROJECT.json | | |
| Providers, tools, channels, MCP, RPC, secrets, UI, CLI | adapters | | mostly I/O |

How they interact.  A turn's commit and a task's result enqueue *delivery
obligations* in the same authority transaction as the work itself.  The effect
driver claims items from the durable directories, calls a transport, and records
the outcome in further transactions.  For chat targets the transport is the
outbox, which also takes messages that never were durable (errors, system
messages) and is driven by callbacks of the inbound router.  All transactions on
deliveries pass through one operation queue per log.  Host operations (stop,
device removal, transfer of the anchor) install a *lifecycle admission* that
freezes the set of producers, quiesce the driver and settle what was accepted.
Confirmations are requested by tool calls, shown through the hub, and, when a
durable observer is configured, recorded before the tool call continues.
Every transaction of any component ends in the commit log, whose instances, in
one process or several, exclude each other by the lock file.  Services of
another device are called over the request channel; physical work on a device
passes the capacity arbiter.

What is hard: everything is single-threaded JavaScript with many awaits, so the
state seen before an await is stale after it; the process may die between the
record "attempt started" and the record of its outcome; adapters may answer
late, twice or never; timers race with answers; recordings may fail after the
in-memory queue has moved on.  The list under `hazards` in PROJECT.json names
each of these at its line.

## 2. Modules and how they correspond to the code

One action is one maximal synchronous run of the code between two awaits, or
one transaction of the authority log.

**Outbox** models one outbox and its entry in the registry.  `pending`, `slots`
and `inflight` are the fields of the same name; `drain` is where the drain loop
is: not running, suspended in `waitForSlotChange`, woken, in `sendWithTimeout`,
or finished with its `finally` callback still to run.  `RunDrain` is the code
from the top of the loop to its next await; every caller that lets the drain run
on uses it.  The history variables `started`, `arrival`, `broken` and `fills`
serve the order properties.  `calls` are adapter calls that have not returned: a
timed-out one lives on.  An entry is an identity and the slot it waits for;
contents, events and log lines are left out.  Slot ids are single use, as turn
ids are.  `reapIdle`'s idle time is left open: it may happen whenever the outbox
is idle.

**DeliveryLifecycle** models the durable facts.  Each record kind of
`reduceDeliveryLifecycleRecord` is one or two actions, each guarded by what
`DeliveryLifecycleApplication` decides before it appends the record, so that
decision and reduction are one step, as they are in one transaction.  Claims and
outcomes may come from anybody at any time; the response binding digest is the
pair (item, attempt).  `claims` are the sends whose answers may still be
recorded in this process.  The admission is process state: `Crash` forgets it,
and `InstallAdmission` covers both installation and restoration.  An enqueue
names one producer; a repeated idempotency key, with the same or with another
intent, changes nothing and is not an action.  Left out: status revisions (they
grow by one with every record), the anchor-epoch fence of resolutions, the error
of `acceptedWorkItems` for a binding outside the frozen sources, and record
validation.

**DeliveryPipeline** extends it with the driver, the host's operations and the
endpoint.  `round` is the set of items the current drain will still visit: the
items claimable when the drain starts, which is what the bound `enteredThrough`
enforces on the paged reads.  `step` is the await `#process` is in.  `owner` is the host's
quiesce or settle call; the host runs one of them at a time and resumes only
after it has returned (`packages/cli/src/serve/command.ts`), which is the guard
of `Resume`.  The endpoint is external: a send handed to it is in `transit`
until it is accepted, which may be after the sender gave up or the process died,
or never.  `transport.send` reports success only for what was accepted.  An
endpoint that promised idempotence recognises the repetition of an attempt.

**DeliveryOrder** extends Outbox with the pipeline's view of one chat target:
a turn opens its slot, its commit enqueues the reply, and a task the turn created
fires later.  The pipeline drains in rounds (`round` is what the running drain
has still to visit), by priority and in log order, and waits for the outbox to
settle each delivery.  A delivery it comes to is sent, or deferred to a later
round (no transport, content or evidence not available: `PipelineDefers`), or
failed for good before any send, which leaves its slot open
(`PipelineFailsPreflight`); a drain may stop before its next delivery
(`DrainStops`).  `passed` is a history variable: deliveries some drain came to
and did not send.  Each delivery is handed over at most once, so that the order
is that of first attempts: retries of a failed send are the subject of
DeliveryPipeline, and `docs/modules/delivery/outbox.md` says that the slot orders
attempts only.  Every turn of the model commits a reply.

**ConfirmationBroker** models the broker with and without a lifecycle observer
(`observed`), and one hub subscription.  `phase` says where a request is;
`ending` is a request that is being settled without ever entering the queue.
Request ids are random UUIDs and used once, so duplicate detection and the
15-second cache of resolved ids are left out; so are re-entrant listeners and
the `cancelPending: false` option of `detach`, which only tests use.  The branch
of `expire()` for a request that is already being settled cannot be reached:
every way there clears the timer.

**Lock** is the abstract lock and **FileLock** the protocol of
`acquireFileLock`.  `file[0]` is the lock file and `file[l+1]` the guard under
which `file[l]` is reclaimed; a record is the contender that wrote it.  A step
is what happens between two file operations or identity queries, so that any
other process may act between a judgement and the removal it leads to.  A
process may die at every step and leaves its files.  `Reclaimable` is what an
identity query can prove; a query without an answer proves nothing.  `lone` is a
history variable for BusyMeansContention.  Claim files and heartbeats are left
out: they carry no ownership.

**AtomicLog** is the abstract log and **CommitLog** a transaction on a durable
projection by several instances: the lock session, `Load` and the recovery of an
incomplete tail, the projection adopted, rebuilt or replayed, the decision, the
write, the sync and the publication.  The log lock itself is taken as the mutual
exclusion that FileLock is shown to implement.  The disk is explicit.  A process
crash keeps what was written; a power failure keeps what was synced and some
prefix of the rest, the last frame possibly incomplete; a write may stop short.
What a failed `fsync` does to dirty pages that were not written back is outside
the model: they stay in the cache, where a later sync may still reach them.

**RequestChannel** models both ends of one connection: `call` is what the caller
knows, `serve` what the other end's `#acceptRequest` is doing and `work` the
dispatch it started, which goes on when it is given up.  A session writes one
frame at a time: with `Write` the frame can reach the other end, and only the
callback of the write (`WriteSettles`, `WriteFails`) makes a request "waiting" or
gives back the place of an answered call; `writing` is the frame in between.
Frames in the receiver's buffer survive the failure of the link, others are
lost.  Time-outs, a closed channel and failed sends are one result to the
caller, "uncertain".  Malformed frames, which this code never sends, are left
out.

**DeviceCapacity** models the arbiter and its permits.  Memory and temporary
space are one dimension (`space`, with samples that may be missing or fall) and
the three I/O dimensions another (`quanta`).  A drain is several steps, one per
grant, during which nothing else runs (`draining`): that is not an interleaving
but the code's loop in pieces.  `acquire` enqueues and drains; its fast path for
an empty queue has the same effect.  All probes of one drain return the same
sample.  A read that borrows the slot of its workload is a request whose atomic
budget has no slot; `Lenders` are the workloads that allow it
(`separateReadAdmission`).

The modules whose names begin with MC give the constants values.  The names
`...Proofs` hold theorems.

Definitions marked "Mutant of X" are small changes of the definition that
follows them, as a slip in the code would make them; PROJECT.json names the
property that detects each.

TypeOK of a module gives the types of its variables.  It is proved for every
component, and no configuration checks it again.

## 3. Runs

| Run | Instance | Result |
|---|---|---|
| outbox | 3 entries, 2 slots, with fairness | holds, 1,336,938 states |
| pipeline_effects | 1 item, 2 attempts, 1 decision, 2 crashes | holds, 931,080 states |
| pipeline_settlement | 2 items, 2 operations, 1 crash | holds, 1,733,558 states |
| pipeline_liveness | 2 items of two priorities, 2 attempts | holds, 43,007 states |
| order_of_replies | 2 turns with a task each, one of them urgent | holds, 2,497,827 states |
| order_urgent_task | the same | **violated** |
| confirmation | 3 requests, queue depth 2, with fairness | holds, 556,427 states |
| confirmation_swept | 2 requests | **violated** |
| commit_log | 3 instances, 2 with the projection, 2 transactions | holds, 1,738,463 states |
| file_lock | 3 contenders in 3 processes, guards to level 3 | holds, 160,567 states |
| request_channel | 2 calls, from one end or both, one place each way | holds, 642,908 states |
| device_capacity | 4 requests in 2 classes, one borrows, 2 slots | holds, 461,491 states |

pipeline_effects also checks that the driver implements the lifecycle
(ImplementsLifecycle), commit_log that the synced log implements AtomicLog, and
file_lock that the protocol implements Lock.

Why the bounds suffice.  In the outbox, order is about a waiter, the reply and
one unrelated entry, hence three entries; two slots let waiters of different
slots mix.  An item's life is independent of other items but for the admission
and the driver, so attempts are checked on one item with room for an automatic,
a redriven and a manual attempt.  A freeze is about one item bound to an
operation or not, its producer frozen or not, and a second operation that
competes; the settlement is checked on two items, one of which may be settled
while the other is not.  Two crashes allow a crash during the recovery from a
crash.  The time bound 2 lets a redrive window of 1 be open, end and be over.
With three requests and depth 2, one is shown, one waits and one is refused.  In
the log, two instances disagree about the projection while the third replays;
two transactions are a lost frame and the one that takes its place; failures and
resubmissions are not bounded.  Three contenders are a dead holder, the one that
reclaims it and a successor that comes between, or two reclaimers and a guard
left behind.  Two calls with one place each way are a call that was given up and
the next one, which may exceed the limit of the other end, and equal limits are
the case in which an open write matters.  Order is about a reply and a result;
the second turn has both wait behind those of the first, and one urgent and one
ordinary task let a result come up first by priority and by a deferred reply.
The arbiter needs a lender, its borrower, a competitor of the same class and one
of another, with slots for two of the three that want one.  Two cases do not
occur in that run and rest on the proofs alone: a second borrower of the same
slot (WorkersHaveSlots), and a refill that the size of the bucket cuts off
(IoIsPaidFor).  The bounds
`MaxNow`, `MaxDecisions` and `MaxCrashes` appear only in guards; the proofs hold
for every value.  `MaxLevel` bounds guards of guards, and the proofs hold for
every value of it.  One cause of cancellation is enough, as nothing depends on
which one it is.

CHECK_DEADLOCK FALSE is set where the system may really come to rest: all
entries sent, all requests settled, the pipeline or the channel stopped, every
contender answered or dead, the arbiter idle.  CommitLog never rests and is
checked for deadlock.

Fairness.  *Outbox*: microtasks and armed timers run; nothing is assumed of the
adapter.  *ConfirmationBroker*: the observer answers, one way or the other; the
expiry timer is strongly fair because a request that is put back gets its timer
armed again for the rest of the same deadline, which is past sooner or later.
*DeliveryPipeline*: the event loop, the interval timer, and sends that come to
an end (which EverySubmissionSettles shows for the outbox); strong fairness for
the claim of an item says that a transport that is ready again and again is at
some time ready when the item is processed.  A transport that is never ready
keeps its items pending, in the model as in the code.  *FileLock*: the event
loop of a live process runs its loop, checks and reclaims; the wait limit is
strongly fair because time passes whatever the loop does.  *RequestChannel*:
the deadline of a call and of a served call fires, and the abort of a channel
reaches the calls it serves; nothing is assumed of services, writes, arrivals,
the receive loop or the closing of the transport.  *DeviceCapacity*:
synchronous code runs on and the drain timer fires; nothing is assumed of
holders, wait limits, samples or the refill.

## 4. Findings

1. *order_urgent_task*: the driver drains by priority and waits for each
   delivery.  A high-priority result of a task created in a turn is taken before
   the reply of the turn and posted behind its pending slot; the reply that would
   fill the slot comes later in the same drain and is not handed over before the
   result has settled.  `docs/modules/delivery/outbox.md` says that the reply has
   to pass the dependants already queued; here it cannot.  Only the slot's TTL
   (ten minutes) ends the wait, during which no other delivery moves, and the
   result then precedes the reply.  TLC stops at the state in which the drain
   waits for itself.
2. *confirmation_swept*: `cancelAll` does not reach a request in the middle of a
   non-interactive settlement; if the recording fails it is shown again.

More facts are in the model and have no run of their own.  Equal priorities do
not exclude a wait for the slot, or a result before its reply: a reply that is
deferred, or fails before its send, leaves the slot pending, and the result that
comes next waits for the TTL, with every other delivery behind it.  That the TTL
releases what waits is documented in `docs/modules/delivery/outbox.md`;
FireFirstOnlyWhenReleased and WaitsOnlyForPassedReply say that these are the only
cases.  The default limits of a channel are equal (64 and 64,
`request-channel.ts:77`), so that a caller which uses all its places can have an
answer, send the next request and meet the place of the answered call, whose
write callback has not run: the connection is then closed although nobody
cancelled anything.  OverloadOnlyAfterCancelOrOpenWrite says that one inbound
place more would exclude it.  A failed durable recording puts
a request back to the front and shows it although another one may be shown by
then (`broker.ts:614`), so that the one dialog at a time which the header of the
file describes is the rule without failures only.  And with an observer `detach`
unsubscribes before the cancelled requests are withdrawn from the clients, which
`docs/modules/confirmation/architecture.md` documents; DialogsMatch therefore
speaks of a broker without one.

The comment of `fillSlot` says the inserted reply
passes no unrelated entry, but it passes those behind the first waiter, as
`docs/modules/delivery/outbox.md` says; OvertakesOnlyByFill states what holds.

## 5. Proofs

All theorems hold for every value of the constants under the named assumptions
`LifecycleAssumption` and `PipelineAssumption` (positive attempt budget, delays
that double, natural bounds, no clash of the "none" values), `FileLockAssumption`
(each contender has a process, at least one level of guards),
`CommitLogAssumption` (no clash of "none"), `ChannelAssumption` (two ends,
positive limits, an outbound limit within the inbound one, as both ends run with
the defaults), `OutboxAssumption` and `OrderAssumption` (no clash of "none";
deliveries of different turns and tasks are different entries),
`BrokerAssumption` (a positive depth; the kinds of decision a record
distinguishes are distinct values) and `CapacityAssumption` (what
`validateRequest` and the constructor check, and finitely many callers).

The prover cannot instantiate the library's induction principles, which take a
property as an operator.  Where an argument needs induction the property is made
a set: the numbers that have it contain 0 and are closed under successor, so
they are all numbers, by the least element that is missing (`SetInduction`, from
the well-foundedness of the order on numbers).  The facts about sums over sets of
callers and about removing a request from the broker's queue are proved in this
way, and the place where a drain stops is found by the same order.

*DeliveryLifecycleProofs.*  The inductive invariant `IInv` is TypeOK, a
conjunction per item (`ItemOK`), FreezeComplete, and `SealedHeld`.  None of the
safety properties is inductive alone.  The accounting of attempts needs that an
absent item has no attempts; the budget needs that a pending manual retry only
exists in the queued state, and that an item waits for a retry only while budget
is left; the notices need that attempt numbers announced so far do not exceed
the current one.  Because every action touches one item, the proof shows ItemOK
for the item of the action and leaves the others by their being unchanged.
Freeze completeness needs that the admission's frozen set contains, or a binding
names, everything pending, and is preserved by enqueues since they carry the
operation's binding.  The action properties TerminalIsFinal and
SealedOnlyShrinks follow step by step.

*DeliveryPipelineProofs.*  Every step of the driver is a step of the lifecycle
or leaves its variables unchanged (`PipelineImplements`), so the lifecycle's
invariants carry over.  On top of them `DriverOK` relates `step`, `mode` and
`cur`, `HostOK` says what a host call that has returned may rely on, and
`SettlementOK` keeps a sealed, empty settlement empty.  `ArrivedOK` says that an
answer "sent" in hand means that the endpoint has the message.

That there is no duplicate is a counting argument: for each item the copies accepted plus the sends under way whose acceptance
would add a copy never exceed the number of attempts (`CopiesCounted`), as an
attempt of a transport without idempotence is in transit at most once and was
not accepted before (`TransitOK`).  With the accounting of attempts this gives
`NeverDuplicated`.

*FileLockProofs.*  Mutual exclusion is not inductive: it rests on what a
reclaimer knows.  `Good(c)` says that a holder's record is in its file
(`OwnsFile`), that a background check exists only in the loop (`CheckInLoop`),
that whoever is about to reclaim has observed a record whose process is gone or
none (`ObservedGone`), and that between the second reading and the removal the
file still is the observed one (`SameOwner`): only the holder of the guard
removes a dead owner's file, and dead owners do not release.  From this the step
simulation of `FileLockImplementsLock` follows, with the live holders as the
abstract state.  `BusyMeansContentionAlways` is about a call that works
alone.  `LInv` says that while it does the other contenders have ended
(`LoneOK`), that whatever lies in its way was left by the dead (`DeadFiles`), and
that it still finds what it has seen (`SeesFile`); nothing can then make a
judgement of it fail, so neither the loop nor a guard refuses it.

*CommitLogProofs.*  `IInv` has, besides types and the two properties, that one
instance is inside the lock (`OneWriter`), that every projection in memory or on
disk is the fold of the prefix it names (`AllSound`), and what each step of a
transaction may rely on (`StepFacts`): a tail that is about to be cut is in
quarantine, the projection of a decision covers the whole file, the operation is
not yet applied when it is written, and its frame is last when it is synced.  A power failure may cut the
file anywhere after the synced prefix, which invalidates no projection because a
projection carries its prefix and is compared before use.
`CommitLogImplementsAtomicLog` maps the synced prefix to the abstract log.

*RequestChannelProofs.*  AnswersAreFinal needs that frames tell the truth
(`FramesTrue`) and that a request frame exists once (`Once`), so that no second
dispatch can contradict an answer under way; NobodyWaitsOnDeadChannel needs that
a channel whose loop is over is stopped (`DeadIsStopped`).
OverloadOnlyAfterCancelOrOpenWrite is a count: what a live end serves is, but for
cancelled calls, among what the other end has in flight, and that is within its
outbound limit (`PlacesBounded`), with at most one call more.  An answer that
arrived can have its place still held only while it is the frame being written
(`Held`, `OpenWrite`, `AnswersLeft`), and an end writes one frame at a time; so
one inbound place more than outbound ones is enough without cancels.  A deadline,
which frees the place at the caller and not at the server, also stops the
caller's channel (`UncertainStops`), so that the freed place is never used.

*OutboxProofs.*  All order is about one sequence, the *line*: what has been sent
followed by what is queued.  A run of the drain moves the border and leaves the
line as it is; a submission inserts one entry at one place.  That an entry is in
the line once, that only a closed slot has a reply (`FillsKnown`, hence a slot is
filled once) and that what was sent past an open slot was released as broken
(`EarlyAreBroken`) make ReplyBeforeWaiters and OvertakesOnlyByFill inductive.
`PipelineUsesOutbox` shows that the composition in DeliveryOrder takes only steps
of the outbox.  On top of its invariant, `QueueOK` says that a reply is in the
log before the results of its turn and that a round which visits a result visits
the reply as well, unless that was handed over or passed over; `OrderOK` that a
result stands behind its reply in the line unless it may come first
(`MayComeFirst`: better priority, or the reply was passed over); and `HandedOK`
that one delivery at a time is with the outbox, that a slot is filled by the reply
of its turn only (hence what left unbroken after it found the reply before it,
`ReleasedOK`), and that a suspended drain waits for the slot its head names
(`WaitOK`).  `ReplyGoesFirst` and `WaitsOnlyForReplies` follow for any
priorities.  `NoSelfBlocking` is about the property of finding 1 and has the
hypothesis `NoInversion`: if no task result has a better priority than the reply
of its turn, a drain never waits for a reply it would come to later.  It may
still wait for one that it has passed over.

*ConfirmationProofs.*  `IInv` ties the phase of each request to its timer, its
terminal, its deferred cancel, its recorded and its reported decision and to the
queue, and says that the head of the queue is shown or a settlement is under way
whose end shows it.  The parts need each other: a cancelled request is not queued
again because the deferred cancel is there for as long as the recording of the
surface's answer may fail.  DialogsMatch needs that without an observer a
settlement is one step.

*DeviceCapacityProofs.*  Conservation is about sums over all callers; the first
part of the module proves how such a sum changes with one term or two, by
induction on the subsets of a finite set.  The loans (`BorrowOK`) carry
WorkersHaveSlots: a request without a slot has one on loan from a workload that
holds its permit, lends to nobody else, and cannot be returned before.  That a
loan is never left behind by a request which stops waiting rests on `WaitOK`: who
may not wait is in a queue only during its own acquire.  QuantaBacked
needs that a step stays within what was set aside for it (`PermitOK`), and a
return puts back at most what the permit could still spend.  BoundedOvertaking
has a distance for every request: as often as it has been passed, the cursor has
come nearer to a place of its class (`TurnOK`).

HandedOut, TerminalStaysFinal, SealedShrinks and OwnersKeepFilesAlways are proved
and not among the properties of the runs, as are the type correctness of the
modules and PipelineUsesOutbox.  NoSelfBlocking proves, under its hypothesis, the
property that order_urgent_task violates without it.

Every invariant, action property and refinement that a passing run checks is
proved.  Only model-checked are the liveness properties (EverySubmissionSettles,
EveryDeliveryDriven, EveryRequestSettles, EveryCallAnswered, EveryCallSettles,
PlacesReturn, HeadGetsItsTurn): the prover has neither ENABLED nor fairness.

## 6. Not modelled, and the plan

The reason for each part that is not modelled is in PROJECT.json.  In the
delivery modules a transaction either happens or the step does not; that this is
what the log provides, under the failures it has, is the subject of CommitLog.
Adapters, presentation, provider protocols and cryptography are out
of scope.

Order of the work:

1. (done) Outbox, DeliveryLifecycle, DeliveryPipeline, DeliveryOrder,
   ConfirmationBroker; the proofs about deliveries.
2. (done) CommitLog with AtomicLog, FileLock with Lock, RequestChannel,
   DeviceCapacity; the proofs about the first three.
3. (done) The proofs about Outbox, DeliveryOrder, ConfirmationBroker and
   DeviceCapacity; BusyMeansContention and OverloadOnlyAfterCancelOrOpenWrite.
4. Abstract specifications of the outbox (a queue with one exception to its
   order) and of the broker (one decision per request), and the proofs that the
   modules implement them; the step properties behind the liveness results, such
   as that nothing disables an armed timer but its own action.

What is left out, and why:

- *Scheduler*: the `Scheduler` class of `packages/core/src/scheduler/` is
  constructed by tests only; in production the anchor's scheduler of the
  owner kernel fires tasks, and its occurrences are records of the authority log.
  A model of the class would say nothing about the
  program that runs.
- *Assignments, ledger, leases, control admission, transfer* (some
  thirty-five thousand lines): one record grammar with many kinds, validated at every step.
  A faithful model has to begin with the reducers of both sides; a lease protocol
  cut out of them would be an invention.
- *The durable governors of resources*: transactions on the same log.
- *Interrupt, retry and breaker, conversation manager, tool execution, shard
  rotation, MCP hub, RPC client, replay window*: within reach, each a component
  of its own, and less exposed than the ones above.
- *Compaction of projections, the frame index and the authenticated mode*: they
  change how the log is verified, not what a transaction sees.
- *Advancement, agent loop, orchestration*: their control depends on what the
  language model answers.
