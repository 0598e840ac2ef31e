----------------------------- MODULE DeliveryOrder -----------------------------
(***************************************************************************)
(* The authority pipeline and the outbox of one chat target together: what *)
(* the user sees of a turn's reply and of the tasks the turn created.      *)
(*                                                                         *)
(* A channel turn opens a slot when it starts (inbound-router.ts).  Its    *)
(* commit enqueues the reply, which carries the slot to fill; the tasks it *)
(* created are published by the same commit, so their results (which wait  *)
(* for the slot) are enqueued later.  The pipeline drains the durable queue *)
(* in rounds, by priority, one delivery at a time, and waits for the outbox *)
(* to settle each one before it takes the next; a delivery that cannot be  *)
(* sent now is passed over and the round goes on.                          *)
(***************************************************************************)
EXTENDS Outbox

CONSTANTS
    Reply,    \* the entry of each turn's reply
    Fire,     \* the entry of the result of the task created in the turn
    Rank      \* delivery priority of an entry: 0 is "high"

ASSUME OrderAssumption ==
    /\ Reply \in [Slots -> Entries]
    /\ Fire \in [Slots -> Entries]
    /\ Rank \in [Entries -> Nat]
    \* deliveries are distinct
    /\ \A s, t \in Slots : /\ Reply[s] # Fire[t]
                           /\ s # t => Reply[s] # Reply[t] /\ Fire[s] # Fire[t]

VARIABLES
    turn,     \* the turn of each slot: before, running, committed
    queue,    \* deliveries enqueued in the authority log, in log order
    round,    \* those that the running drain has still to visit
    sending,  \* the delivery #process is waiting for
    passed    \* history: deliveries that some drain visited without sending them

ovars == <<vars, turn, queue, round, sending, passed>>

OInit ==
    /\ Init
    /\ turn = [s \in Slots |-> "before"]
    /\ queue = <<>>
    /\ round = {}
    /\ sending = NoEntry
    /\ passed = {}

Queued == {queue[i] : i \in DOMAIN queue}

\* onStarted of the inbound router: openSlot({ slotId: turnId }).
TurnStarts(s) ==
    /\ turn[s] = "before"
    /\ OpenSlot(s)
    /\ turn' = [turn EXCEPT ![s] = "running"]
    /\ UNCHANGED <<queue, round, sending, passed>>

\* conversation-final-delivery, with turnSlotId.
TurnCommits(s) ==
    /\ turn[s] = "running"
    /\ turn' = [turn EXCEPT ![s] = "committed"]
    /\ queue' = Append(queue, Reply[s])
    /\ UNCHANGED <<vars, round, sending, passed>>

\* Mutant of TaskFires: the task is published before the turn commits.
TaskFiresEarly(s) ==
    /\ turn[s] # "before"
    /\ Fire[s] \notin Queued \cup Submitted \cup passed
    /\ queue' = Append(queue, Fire[s])
    /\ UNCHANGED <<vars, turn, round, sending, passed>>

\* The delivery of the task's result, with createdInTurn.
TaskFires(s) ==
    /\ turn[s] = "committed"
    /\ Fire[s] \notin Queued \cup Submitted \cup passed
    /\ queue' = Append(queue, Fire[s])
    /\ UNCHANGED <<vars, turn, round, sending, passed>>

\* #startDrain and the first page of #drain: the round visits what is enqueued
\* by now (enteredThrough), and later arrivals wait for the next one.
DrainStarts ==
    /\ sending = NoEntry /\ round = {}
    /\ queue # <<>>
    /\ round' = Queued
    /\ UNCHANGED <<vars, turn, queue, sending, passed>>

\* #mayContinue: a drain that may not go on ends before its next delivery.
DrainStops ==
    /\ sending = NoEntry /\ round # {}
    /\ round' = {}
    /\ UNCHANGED <<vars, turn, queue, sending, passed>>

\* Mutant of IsNext: the newest delivery first.
IsNewest(k) ==
    /\ queue[k] \in round
    /\ \A j \in DOMAIN queue : queue[j] \in round => j <= k

\* #drain: the highest priority first, within it the order of the log.
IsNext(k) ==
    /\ queue[k] \in round
    /\ \A j \in DOMAIN queue : (j # k /\ queue[j] \in round) =>
          \/ Rank[queue[k]] < Rank[queue[j]]
          \/ Rank[queue[k]] = Rank[queue[j]] /\ k < j

\* #drain hands the delivery at k to #process.
Takes(k) ==
    /\ sending = NoEntry
    /\ k \in DOMAIN queue /\ IsNext(k)
    /\ round' = round \ {queue[k]}

\* #process: no transport is ready, the content cannot be read now, or the
\* evidence check fails; the delivery stays in the queue for a later round.
PipelineDefers(k) ==
    /\ Takes(k)
    /\ passed' = passed \cup {queue[k]}
    /\ UNCHANGED <<vars, turn, queue, sending>>

\* #process: the content can never be read; the delivery fails for good, and
\* nobody closes the slot it should have filled.
PipelineFailsPreflight(k) ==
    /\ Takes(k)
    /\ passed' = passed \cup {queue[k]}
    /\ queue' = RemoveAt(queue, k)
    /\ UNCHANGED <<vars, turn, sending>>

\* #process claims the delivery and calls send() of the channel effect.
PipelineSends(k) ==
    /\ Takes(k)
    /\ LET e == queue[k]
       IN  /\ \E s \in Slots :
                 \/ e = Reply[s] /\ (FillSlot(s, e) \/ FillSlotDegraded(s, e))
                 \/ e = Fire[s] /\ Post(e, s)
           /\ sending' = e
    /\ queue' = RemoveAt(queue, k)
    /\ UNCHANGED <<turn, passed>>

PipelineReturns ==
    /\ sending # NoEntry /\ result[sending] # "unsettled"
    /\ sending' = NoEntry
    /\ UNCHANGED <<vars, turn, queue, round, passed>>

OutboxStep ==
    /\ \/ DrainWake
       \/ DrainFinally
       \/ SendSettles
       \/ SendTimesOut
       \/ \E e \in Entries : LateReturn(e)
       \/ \E s \in Slots : SlotExpires(s)
       \/ ReapIdle
    /\ UNCHANGED <<turn, queue, round, sending, passed>>

ONext ==
    \/ \E s \in Slots : TurnStarts(s)
    \/ \E s \in Slots : TurnCommits(s)
    \/ \E s \in Slots : TaskFires(s)
    \/ DrainStarts
    \/ DrainStops
    \/ \E k \in DOMAIN queue : PipelineDefers(k)
    \/ \E k \in DOMAIN queue : PipelineFailsPreflight(k)
    \/ \E k \in DOMAIN queue : PipelineSends(k)
    \/ PipelineReturns
    \/ OutboxStep

OSpec == OInit /\ [][ONext]_ovars

-----------------------------------------------------------------------------

\* The result of the turn's task may come up before the reply: it has the
\* higher priority, or a drain has passed the reply over.
MayComeFirst(s) == Rank[Fire[s]] < Rank[Reply[s]] \/ Reply[s] \in passed

\* The promise of fillSlot's comment, "保证回复先于后续 task fire", as far as the
\* code keeps it: the send of a task's result begins before that of the reply
\* only when the order of the drain and the slot have both failed, that is when
\* the result came up first and was released with a causal-broken event.
FireFirstOnlyWhenReleased ==
    \A s \in Slots : Fire[s] \in Ids(started) =>
        \/ \E i, j \in DOMAIN started :
              i < j /\ started[i].id = Reply[s] /\ started[j].id = Fire[s]
        \/ MayComeFirst(s) /\ Fire[s] \in broken

\* The outbox waits for a slot only while the pipeline, and with it every other
\* delivery, waits for the result of a task that came up before its reply: it
\* never waits for a slot whose reply has been handed to it.
WaitsOnlyForPassedReply ==
    drain = "suspended" =>
        \E s \in Slots :
            sending = Fire[s] /\ MayComeFirst(s) /\ Reply[s] \notin Submitted

\* docs/modules/delivery/outbox.md, 三: "前置回复必须越过已经入队的依赖项", the reply has
\* to pass the dependants queued before it.  So the send that the pipeline waits
\* for is not held back by a slot whose reply comes later in the same drain, and
\* cannot be handed to the outbox before this send has settled.
NoHeadOfLineWait ==
    ~ \E s \in Slots :
        /\ sending = Fire[s]
        /\ drain = "suspended"
        /\ Reply[s] \in round
=============================================================================
