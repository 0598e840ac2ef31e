-------------------------------- MODULE Outbox --------------------------------
(***************************************************************************)
(* The per-target outbox of packages/core/src/delivery/outbox.ts and its   *)
(* registry: one queue per chat target, drained by at most one drain loop, *)
(* with "turn slots" that hold back a scheduled message until the reply of *)
(* the turn that created it has been put in front of it.                   *)
(*                                                                         *)
(* The code is single-threaded JavaScript: an action is a maximal run      *)
(* between two awaits.  drain() runs synchronously from the top of its     *)
(* loop to its next await (RunDrain); the only places where other code can *)
(* run are the await of a slot change, the await of the send, and the gap  *)
(* between the end of drain() and its finally callback.                    *)
(***************************************************************************)
EXTENDS Naturals, Sequences, SequencesExt, FiniteSets

CONSTANTS
    Entries,      \* identities of outbox entries; each is submitted once
    Slots,        \* turn slot ids; a turn opens its slot once
    NoSlot,       \* afterSlot = undefined
    NoEntry,      \* _inflight = null
    SendTimeout,  \* sendTimeoutMs > 0
    SlotTtl       \* ttlMs > 0

ASSUME OutboxAssumption ==
    /\ NoSlot \notin Slots
    /\ NoEntry \notin Entries
    /\ SendTimeout \in BOOLEAN
    /\ SlotTtl \in BOOLEAN

VARIABLES
    pending,   \* pending: PendingItem[]
    slots,     \* state of every slot; "none": never opened, "reaped": its outbox is gone
    drain,     \* where the drain loop is
    inflight,  \* _inflight
    result,    \* how the promise of each entry settled
    calls,     \* adapter.send calls that have not returned (a timed-out one lives on)
    started,   \* history: entries in the order in which their send began
    arrival,   \* history: entries in the order in which they were submitted
    broken,    \* history: entries released with a causal-broken event
    fills      \* history: the entry inserted when the slot was filled

vars == <<pending, slots, drain, inflight, result, calls,
          started, arrival, broken, fills>>

SlotStates   == {"none", "pending", "filled", "abandoned", "expired", "reaped"}
DrainStates  == {"idle", "suspended", "woken", "sending", "exited"}
Results      == {"unsettled", "answered", "timeout"}
Entry        == [id : Entries, after : Slots \cup {NoSlot}]

Ids(q)       == {q[i].id : i \in DOMAIN q}
Submitted    == Ids(arrival)
Idle         == pending = <<>> /\ inflight = NoEntry   \* isIdle()

Init ==
    /\ pending = <<>>
    /\ slots = [s \in Slots |-> "none"]
    /\ drain = "idle"
    /\ inflight = NoEntry
    /\ result = [e \in Entries |-> "unsettled"]
    /\ calls = {}
    /\ started = <<>>
    /\ arrival = <<>>
    /\ broken = {}
    /\ fills = [s \in Slots |-> NoEntry]

-----------------------------------------------------------------------------
(* The drain loop. *)

HeldBack(e)     == e.after # NoSlot /\ slots[e.after] = "pending"
CausalBroken(e) == e.after # NoSlot /\ slots[e.after] \notin {"pending", "filled"}

\* drain(), from the top of its loop to its next await, with queue q and with
\* c the adapter calls outstanding.
RunDrain(q, c) ==
    \/ /\ q = <<>>
       /\ drain' = "exited"
       /\ pending' = q
       /\ inflight' = NoEntry
       /\ calls' = c
       /\ UNCHANGED <<started, broken>>
    \/ /\ q # <<>> /\ HeldBack(Head(q))
       /\ drain' = "suspended"
       /\ pending' = q
       /\ inflight' = NoEntry
       /\ calls' = c
       /\ UNCHANGED <<started, broken>>
    \/ /\ q # <<>> /\ ~HeldBack(Head(q))
       /\ drain' = "sending"
       /\ pending' = Tail(q)
       /\ inflight' = Head(q).id
       /\ calls' = c \cup {Head(q).id}
       /\ started' = Append(started, Head(q))
       /\ broken' = IF CausalBroken(Head(q)) THEN broken \cup {Head(q).id} ELSE broken

\* Mutant of Kick: a second drain beside the first.
KickAlways(q, d) == RunDrain(q, calls)

\* kick(): starts a drain over the queue q unless one is alive; an alive one
\* goes on from d.
Kick(q, d) ==
    \/ drain = "idle" /\ RunDrain(q, calls)
    \/ /\ drain # "idle"
       /\ pending' = q
       /\ drain' = d
       /\ UNCHANGED <<inflight, calls, started, broken>>

\* Mutant of Signalled: the closing of a slot does not wake the drain.
NotSignalled == drain

\* signalSlotChange(): wakes a drain that waits for a slot.
Signalled == IF drain = "suspended" THEN "woken" ELSE drain

\* The finally callback of kick(): it looks at the queue again, for a post may
\* have found drain() finished but its promise still in place.
DrainFinally ==
    /\ drain = "exited"
    /\ \/ pending # <<>> /\ RunDrain(pending, calls)
       \/ /\ pending = <<>>
          /\ drain' = "idle"
          /\ UNCHANGED <<pending, inflight, calls, started, broken>>
    /\ UNCHANGED <<slots, result, arrival, fills>>

\* The drain resumes from waitForSlotChange() and looks at the head again.
DrainWake ==
    /\ drain = "woken"
    /\ RunDrain(pending, calls)
    /\ UNCHANGED <<slots, result, arrival, fills>>

\* adapter.send answers the call of the entry in flight: success, success =
\* false or an exception all settle its promise, and the drain goes on.
SendSettles ==
    /\ drain = "sending"
    /\ result' = [result EXCEPT ![inflight] = "answered"]
    /\ RunDrain(pending, calls \ {inflight})
    /\ UNCHANGED <<slots, arrival, fills>>

\* The timer of sendWithTimeout wins the race: the entry is rejected, the
\* adapter call is not cancelled, and the drain goes on.
SendTimesOut ==
    /\ SendTimeout
    /\ drain = "sending"
    /\ result' = [result EXCEPT ![inflight] = "timeout"]
    /\ RunDrain(pending, calls)
    /\ UNCHANGED <<slots, arrival, fills>>

\* External: an adapter call that had timed out returns; nobody listens.
LateReturn(e) ==
    /\ e \in calls /\ e # inflight
    /\ calls' = calls \ {e}
    /\ UNCHANGED <<pending, slots, drain, inflight, result, started, arrival, broken, fills>>

-----------------------------------------------------------------------------
(* Submissions. *)

\* post(input)
Post(e, s) ==
    /\ e \notin Submitted
    /\ arrival' = Append(arrival, [id |-> e, after |-> s])
    /\ Kick(Append(pending, [id |-> e, after |-> s]), drain)
    /\ UNCHANGED <<slots, result, fills>>

Opened(s) == slots[s] \notin {"none", "reaped"}

\* Mutants of InsertBeforeWaiters: at the tail, at the head.
InsertAtTail(e, s) == Append(pending, e)
InsertAtHead(e, s) == <<e>> \o pending

\* insertBeforeWaiters(): in front of the first entry that waits for s.
InsertBeforeWaiters(e, s) ==
    LET waiters == {i \in DOMAIN pending : pending[i].after = s}
    IN  IF waiters = {} THEN Append(pending, e)
        ELSE InsertAt(pending, CHOOSE i \in waiters : \A j \in waiters : i <= j, e)

\* fillSlot(slotId, entry) on a pending slot.
FillSlot(s, e) ==
    /\ e \notin Submitted
    /\ slots[s] = "pending"
    /\ LET r == [id |-> e, after |-> NoSlot]
       IN  /\ arrival' = Append(arrival, r)
           /\ Kick(InsertBeforeWaiters(r, s), Signalled)
    /\ slots' = [slots EXCEPT ![s] = "filled"]
    /\ fills' = [fills EXCEPT ![s] = e]
    /\ UNCHANGED result

\* Mutant of FillSlotDegraded: the reply of a closed slot is dropped.
FillSlotDropped(s, e) ==
    /\ slots[s] # "pending"
    /\ e \notin Submitted
    /\ arrival' = Append(arrival, [id |-> e, after |-> NoSlot])
    /\ UNCHANGED <<pending, slots, drain, inflight, result, calls, started, broken, fills>>

\* fillSlot(slotId, entry) on an unknown or closed slot: a plain post.
FillSlotDegraded(s, e) ==
    /\ slots[s] # "pending"
    /\ Post(e, NoSlot)

\* closeSlot(): fillSlot without an entry, abandonSlot, or the TTL timer.
CloseSlot(s, terminal) ==
    /\ slots[s] = "pending"
    /\ slots' = [slots EXCEPT ![s] = terminal]
    /\ drain' = Signalled
    /\ UNCHANGED <<pending, inflight, result, calls, started, arrival, broken, fills>>

FillSlotEmpty(s) == CloseSlot(s, "filled")
AbandonSlot(s)   == CloseSlot(s, "abandoned")

\* The TTL timer of openSlot.
SlotExpires(s) == SlotTtl /\ CloseSlot(s, "expired")

\* openSlot(): does nothing when the slot is known.
OpenSlot(s) ==
    /\ slots[s] = "none"
    /\ slots' = [slots EXCEPT ![s] = "pending"]
    /\ UNCHANGED <<pending, drain, inflight, result, calls, started, arrival, broken, fills>>

\* OutboxRegistry.reapIdle(): the next of(target) creates a fresh outbox, which
\* knows none of the slots.
ReapIdle ==
    /\ Idle
    /\ \E s \in Slots : Opened(s)
    /\ slots' = [s \in Slots |-> IF Opened(s) THEN "reaped" ELSE slots[s]]
    /\ drain' = "idle"
    /\ UNCHANGED <<pending, inflight, result, calls, started, arrival, broken, fills>>

Next ==
    \/ \E e \in Entries, s \in Slots \cup {NoSlot} : Post(e, s)
    \/ \E s \in Slots, e \in Entries : FillSlot(s, e)
    \/ \E s \in Slots, e \in Entries : FillSlotDegraded(s, e)
    \/ \E s \in Slots : OpenSlot(s)
    \/ \E s \in Slots : FillSlotEmpty(s)
    \/ \E s \in Slots : AbandonSlot(s)
    \/ \E s \in Slots : SlotExpires(s)
    \/ SendSettles
    \/ SendTimesOut
    \/ DrainWake
    \/ DrainFinally
    \/ \E e \in Entries : LateReturn(e)
    \/ ReapIdle

Spec == Init /\ [][Next]_vars

\* Microtasks run and armed timers fire; the adapter owes nothing.
Fairness ==
    /\ WF_vars(DrainWake)
    /\ WF_vars(DrainFinally)
    /\ WF_vars(SendTimesOut)
    /\ \A s \in Slots : WF_vars(SlotExpires(s))

FairSpec == Spec /\ Fairness

-----------------------------------------------------------------------------
TypeOK ==
    /\ pending \in Seq(Entry)
    /\ slots \in [Slots -> SlotStates]
    /\ drain \in DrainStates
    /\ inflight \in Entries \cup {NoEntry}
    /\ result \in [Entries -> Results]
    /\ calls \subseteq Entries
    /\ started \in Seq(Entry)
    /\ arrival \in Seq(Entry)
    /\ broken \subseteq Entries
    /\ fills \in [Slots -> Entries \cup {NoEntry}]

\* The order in which the entries are, or will be, sent.
Line == started \o pending

\* INV-5 of outbox.ts, "no message is lost": every submitted entry is in the
\* line exactly once, and it has settled unless it is queued or in flight;
\* a fill on an unknown or closed slot queues its reply like any other.
NothingLost ==
    /\ Len(Line) = Len(arrival)
    /\ Ids(Line) = Submitted
    /\ \A e \in Submitted :
          (result[e] = "unsettled") <=> (e \in Ids(pending) \/ e = inflight)

\* Per-target serialisation: of the adapter calls that have not returned, all
\* but the one in flight were given up by their timeout.
SerialSends ==
    \A e \in calls : e = inflight \/ result[e] = "timeout"

\* fillSlot: the reply that filled a slot goes out before every entry that
\* waited for that slot, unless that entry was released as causally broken.
ReplyBeforeWaiters ==
    \A s \in Slots : fills[s] # NoEntry =>
        \A i, j \in DOMAIN Line :
            (Line[i].id = fills[s] /\ Line[j].after = s /\ Line[j].id \notin broken)
                => i < j

OvertakenBy(i, j) ==   \* the entries at i < j of arrival swap in the line
    \E m, n \in DOMAIN Line :
        m < n /\ Line[m] = arrival[j] /\ Line[n] = arrival[i]

\* INV-1 FIFO with its one exception: an entry overtakes an earlier one only if
\* it is the reply that filled a slot, put in front of an entry that waits for
\* this slot and is, or stands before, the overtaken one.
\* (The comment of fillSlot claims less: that no unrelated entry is passed at
\* all; one behind the first waiter is.)
OvertakesOnlyByFill ==
    \A i, j \in DOMAIN arrival : (i < j /\ OvertakenBy(i, j)) =>
        \E s \in Slots, k, m, n \in DOMAIN Line :
            /\ fills[s] = arrival[j].id
            /\ Line[k] = arrival[j] /\ Line[n] = arrival[i] /\ Line[m].after = s
            /\ k < m /\ m <= n

\* INV-4 and INV-7: with a TTL on slots and a timeout on sends, the promise of
\* every submitted entry settles, whatever turns and adapters do.  (A promise
\* settles once and for all, so that again and again nothing is outstanding
\* says the same as that each submission leads to its settlement.)
EverySubmissionSettles ==
    []<>(\A e \in Submitted : result[e] # "unsettled")
=============================================================================
