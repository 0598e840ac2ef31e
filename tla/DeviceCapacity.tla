---------------------------- MODULE DeviceCapacity -----------------------------
(***************************************************************************)
(* packages/core/src/resources/device-capacity.ts: the arbiter that admits *)
(* work to a device.  A request reserves slots and space for as long as it *)
(* holds its permit, and quanta of I/O that it consumes; what it does not  *)
(* consume goes back, and the bucket of quanta is refilled with time.      *)
(* Requests wait in one queue per service class, served by weighted round  *)
(* robin.  A workload may lend its slot to one physical read at a time.    *)
(*                                                                         *)
(* Memory and temporary space are one dimension here (space, the one with  *)
(* samples that may be missing), and so are read bytes, write bytes and    *)
(* operations (quanta).  All the code is synchronous but for the callers:  *)
(* while a drain runs nothing else does, and every probe in it returns the *)
(* same sample.  A settled admission leaves its queue at once, which is    *)
(* what skipping settled heads amounts to.                                 *)
(***************************************************************************)
EXTENDS Integers, Sequences, FiniteSets, FiniteSetsExt

CONSTANTS
    Requests,       \* callers of acquire, each with one admission at a time
    Class,          \* the service class of each
    Schedule,       \* #schedule: the classes, each as often as its weight
    Atomic,         \* what a request cannot do without
    Preferred,      \* what it would take
    Patient,        \* requests with maxWaitMs > 0
    Lenders,        \* workloads whose steps leave their reads to children
    Slots, Space, Quanta,   \* the policy
    MaxRefill,      \* bound on the quanta that accrue beyond the bucket
    None

Classes == {Schedule[i] : i \in 1 .. Len(Schedule)}
Budgets == [slots : Nat, space : Nat, quanta : Nat]

ASSUME CapacityAssumption ==
    /\ None \notin Requests /\ IsFiniteSet(Requests)
    /\ Schedule \in Seq(Classes) /\ Schedule # << >>
    /\ Class \in [Requests -> Classes]
    /\ Atomic \in [Requests -> Budgets] /\ Preferred \in [Requests -> Budgets]
    /\ \A r \in Requests : \A d \in {"slots", "space", "quanta"} : Atomic[r][d] <= Preferred[r][d]
    /\ Patient \subseteq Requests
    /\ Lenders \subseteq {r \in Requests : Atomic[r].slots > 0}
    \* validateRequest: without a slot of its own a request borrows one, and
    \* only one that does not wait may.
    /\ \A r \in Requests : Atomic[r].slots = 0 => Preferred[r].slots = 0 /\ r \notin Patient
    /\ Slots \in Nat /\ Space \in Nat /\ Quanta \in Nat /\ MaxRefill \in Nat

VARIABLES
    pressure,   \* what the probe would report
    elapsed,    \* quanta accrued since #lastRefillAt
    quanta,     \* #quantumAvailable
    inUse,      \* #occupancyInUse
    queue,      \* #queues
    cursor,     \* #cursor
    timer,      \* #drainTimer is set
    draining,   \* #drain is running
    asking,     \* the request whose acquire called it
    phase,      \* each request: free, waiting, or holding a permit
    got,        \* permit.granted.occupancy
    remaining,  \* permit.#remainingQuantum
    bound,      \* quanta of the active step, or NoStep
    used,       \* what the step has claimed of them
    released,   \* permits that were released and perhaps not yet returned
    violated,   \* permits with a #violation
    lender,     \* the permit whose slot a request has borrowed
    credit,     \* history: quanta that time has paid for and nobody has spent
    passed      \* history: grants to others while a head of a queue did fit

device   == <<pressure, elapsed, credit>>
arbiter  == <<quanta, inUse, queue, cursor, timer, draining, asking>>
step     == <<bound, used>>
permits  == <<got, remaining, step, released, violated>>
vars == <<device, arbiter, phase, permits, lender, passed>>

NoStep  == -1
Unknown == -1
Down    == [up |-> FALSE, space |-> Unknown]
Samples == {Down} \cup [up : {TRUE}, space : 0 .. Space \cup {Unknown}]

NoOccupancy == [slots |-> 0, space |-> 0]
Least(a, b) == IF a <= b THEN a ELSE b
Total(f, S) == MapThenSumSet(LAMBDA r : f[r], S)

Waiting(r)  == phase[r] = "waiting"
Holding(r)  == phase[r] = "held"
Stepping(r) == bound[r] # NoStep
HasPending  == \E r \in Requests : Waiting(r)
Lent(r)     == \E c \in Requests : lender[c] = r
First(r)    == Waiting(r) /\ Head(queue[Class[r]]) = r

Init ==
    /\ pressure \in Samples
    /\ elapsed = 0 /\ quanta = Quanta /\ credit = Quanta
    /\ inUse = NoOccupancy
    /\ queue = [c \in Classes |-> << >>] /\ cursor = 0
    /\ timer = FALSE /\ draining = FALSE /\ asking = None
    /\ phase = [r \in Requests |-> "free"]
    /\ got = [r \in Requests |-> NoOccupancy]
    /\ remaining = [r \in Requests |-> 0]
    /\ bound = [r \in Requests |-> NoStep] /\ used = [r \in Requests |-> 0]
    /\ released = {} /\ violated = {}
    /\ lender = [r \in Requests |-> None]
    /\ passed = [r \in Requests |-> 0]

-----------------------------------------------------------------------------
\* #occupancyCapacity: how much space this sample, less the safety reserve, admits.
SpaceCapacity == Least(Space, pressure.space)

\* Mutant of Fits: an over-committed dimension admits who needs nothing of it.
FitsClamped(r) ==
    /\ pressure.up
    /\ Slots - inUse.slots >= Atomic[r].slots
    /\ \/ Atomic[r].space = 0
       \/ pressure.space # Unknown /\ SpaceCapacity - inUse.space >= Atomic[r].space
    /\ quanta >= Atomic[r].quanta

\* #fits.  A dimension whose sample is missing admits who does not need it; one
\* that is over-committed, because its sample fell, admits nobody.
Fits(r) ==
    /\ pressure.up
    /\ Slots - inUse.slots >= Atomic[r].slots
    /\ IF pressure.space = Unknown
       THEN Atomic[r].space = 0
       ELSE SpaceCapacity - inUse.space >= Atomic[r].space
    /\ quanta >= Atomic[r].quanta

\* #capacityGap: this policy can never admit the request.
Gap(r) == Atomic[r].slots > Slots \/ Atomic[r].space > Space \/ Atomic[r].quanta > Quanta

\* #refill, given what else has just been put back.
Refill(back) ==
    /\ quanta' = Least(Quanta, Least(Quanta, quanta + back) + elapsed)
    /\ elapsed' = 0
    /\ UNCHANGED <<pressure, credit>>

\* A settled request leaves its place in the queue.
Remove(r) ==
    \E i \in 1 .. Len(queue[Class[r]]) :
        /\ queue[Class[r]][i] = r
        /\ queue' = [queue EXCEPT ![Class[r]] = SubSeq(@, 1, i - 1) \o SubSeq(@, i + 1, Len(@))]

-----------------------------------------------------------------------------
\* A workload in its step, as the caller of acquire finds it in its context.
Lends(p, r) ==
    /\ p \in Lenders /\ Stepping(p)
    /\ Atomic[r].slots = 0 /\ Class[r] = Class[p]

\* borrowSlot.
SlotFree(p) == p \notin violated /\ ~ Lent(p) /\ got[p].slots >= 1

\* acquire: the request enters its queue and the queues are drained.  With no
\* other waiting the code grants directly what the drain would grant.
Acquire(r, p) ==
    /\ ~ draining /\ phase[r] = "free" /\ ~ Gap(r)
    /\ IF Atomic[r].slots = 0 THEN p # None /\ Lends(p, r) /\ SlotFree(p) ELSE p = None
    /\ Refill(0)
    /\ phase' = [phase EXCEPT ![r] = "waiting"]
    /\ lender' = [lender EXCEPT ![r] = p]
    /\ queue' = [queue EXCEPT ![Class[r]] = Append(@, r)]
    /\ draining' = TRUE /\ asking' = r
    /\ UNCHANGED <<inUse, cursor, timer, permits, passed>>

\* acquire answers at once: a gap, or the slot to borrow is taken.
AcquireRefused(r) ==
    /\ ~ draining /\ phase[r] = "free"
    /\ Gap(r) \/ \E p \in Requests : Lends(p, r) /\ ~ SlotFree(p)
    /\ Refill(0)
    /\ UNCHANGED <<inUse, queue, cursor, timer, draining, asking, phase, permits, lender, passed>>

\* snapshot, which refills the bucket before it reports.
Snapshot ==
    /\ ~ draining
    /\ Refill(0)
    /\ UNCHANGED <<inUse, queue, cursor, timer, draining, asking, phase, permits, lender, passed>>

\* The class whose turn it is at the k-th place from the cursor on.
At(k)       == Schedule[((cursor + k) % Len(Schedule)) + 1]
Eligible(k) == queue[At(k)] # << >> /\ Fits(Head(queue[At(k)]))

\* A grant to r passes the other heads that fit.
Passed(r) ==
    [q \in Requests |-> IF q # r /\ First(q) /\ Fits(q) THEN Least(passed[q] + 1, Len(Schedule)) ELSE 0]

\* #tryGrant: at least the atomic budget, and of the preferred one what is there.
Granted(r) ==
    LET slots == Least(Preferred[r].slots, Slots - inUse.slots)
        space == IF pressure.space = Unknown THEN 0
                 ELSE Least(Preferred[r].space, SpaceCapacity - inUse.space)
    IN  [slots |-> slots, space |-> space]

\* Mutant of CursorAfter: every drain starts at the same place.
CursorStays(k) == cursor

\* The cursor after a grant at the k-th place looked at.
CursorAfter(k) == (cursor + k + 1) % Len(Schedule)

\* One turn of the loop of #drain: the first place from the cursor on whose
\* class has a head that fits.
Grant(k) ==
    /\ draining
    /\ Eligible(k) /\ \A j \in 0 .. k - 1 : ~ Eligible(j)
    /\ LET r == Head(queue[At(k)])
           n == Least(Preferred[r].quanta, quanta)
       IN  /\ queue' = [queue EXCEPT ![At(k)] = Tail(@)]
           /\ phase' = [phase EXCEPT ![r] = "held"]
           /\ got' = [got EXCEPT ![r] = Granted(r)]
           /\ inUse' = [slots |-> inUse.slots + Granted(r).slots, space |-> inUse.space + Granted(r).space]
           /\ remaining' = [remaining EXCEPT ![r] = n]
           /\ quanta' = quanta - n
           /\ passed' = Passed(r)
    /\ cursor' = CursorAfter(k)
    /\ UNCHANGED <<device, timer, draining, asking, step, released, violated, lender>>

\* Mutant of ScheduleDrain: only acquire arms the timer, a drain does not.
ScheduleDrainOnce == timer \/ (asking # None /\ Waiting(asking))

\* #scheduleDrain, at the end of a drain and of an acquire that goes on waiting.
ScheduleDrain == timer \/ HasPending

\* The drain ends; it arms its timer if anybody waits, and a request that does
\* not wait gives back what it borrowed and is told to come again.
DrainEnds ==
    /\ draining /\ \A k \in 0 .. Len(Schedule) - 1 : ~ Eligible(k)
    /\ draining' = FALSE /\ asking' = None
    /\ timer' = ScheduleDrain
    /\ IF asking # None /\ Waiting(asking) /\ asking \notin Patient
       THEN /\ Remove(asking)
            /\ phase' = [phase EXCEPT ![asking] = "free"]
            /\ lender' = [lender EXCEPT ![asking] = None]
            /\ passed' = [passed EXCEPT ![asking] = 0]
       ELSE UNCHANGED <<queue, phase, lender, passed>>
    /\ UNCHANGED <<device, quanta, inUse, cursor, permits>>

\* The drain timer.
TimerFires ==
    /\ timer /\ ~ draining
    /\ timer' = FALSE /\ draining' = TRUE
    /\ Refill(0)
    /\ UNCHANGED <<inUse, queue, cursor, asking, phase, permits, lender, passed>>

\* The wait limit of a request passes, or its caller aborts; the queues are not
\* drained.
Settle(r) ==
    /\ ~ draining /\ Waiting(r)
    /\ phase' = [phase EXCEPT ![r] = "free"]
    /\ Remove(r)
    /\ passed' = [passed EXCEPT ![r] = 0]
    /\ UNCHANGED <<device, quanta, inUse, cursor, timer, draining, asking, permits, lender>>

-----------------------------------------------------------------------------
\* tryBegin: a step within the atomic budget and what is left; anything else is
\* a violation, which seals the permit.
TryBegin(r, b) ==
    /\ ~ draining /\ Holding(r) /\ r \notin released /\ r \notin violated
    /\ r \in Lenders => ~ Stepping(r) /\ b = Atomic[r].quanta
    /\ IF Stepping(r) \/ b > Atomic[r].quanta \/ b > remaining[r]
       THEN violated' = violated \cup {r} /\ UNCHANGED <<step, remaining>>
       ELSE /\ bound' = [bound EXCEPT ![r] = b]
            /\ used' = [used EXCEPT ![r] = 0]
            /\ remaining' = [remaining EXCEPT ![r] = @ - b]
            /\ UNCHANGED violated
    /\ UNCHANGED <<device, arbiter, phase, got, released, lender, passed>>

\* claim, within the bound of the step.
Claim(r) ==
    /\ ~ draining /\ Stepping(r) /\ r \notin violated /\ used[r] < bound[r]
    /\ used' = [used EXCEPT ![r] = @ + 1]
    /\ credit' = credit - 1
    /\ UNCHANGED <<pressure, elapsed, arbiter, phase, got, remaining, bound, released, violated, lender, passed>>

\* A claim beyond the bound, in whichever dimension.
Overclaim(r) ==
    /\ ~ draining /\ Stepping(r) /\ r \notin violated
    /\ violated' = violated \cup {r}
    /\ UNCHANGED <<device, arbiter, phase, got, remaining, step, released, lender, passed>>

\* What a step leaves of its bound.
Unused(r) == IF r \in violated \/ ~ Stepping(r) THEN 0 ELSE bound[r] - used[r]

\* Mutant of Complete: the bound goes back as a whole.
CompleteWhole(r) ==
    /\ ~ draining /\ r \notin Lenders /\ Stepping(r)
    /\ remaining' = [remaining EXCEPT ![r] = @ + IF r \in violated THEN 0 ELSE bound[r]]
    /\ bound' = [bound EXCEPT ![r] = NoStep] /\ used' = [used EXCEPT ![r] = 0]
    /\ UNCHANGED <<device, arbiter, phase, got, released, violated, lender, passed>>

\* complete.
Complete(r) ==
    /\ ~ draining /\ r \notin Lenders /\ Stepping(r)
    /\ remaining' = [remaining EXCEPT ![r] = @ + Unused(r)]
    /\ bound' = [bound EXCEPT ![r] = NoStep] /\ used' = [used EXCEPT ![r] = 0]
    /\ UNCHANGED <<device, arbiter, phase, got, released, violated, lender, passed>>

\* The permits a release returns: this one, and the one it borrowed from if that
\* was only waiting for its slot.
Returned(r) == {r} \cup ({lender[r]} \cap released)

\* release with rest quanta left, and #returnReservation, which drains the queues.
Return(r, rest) ==
    LET back == Returned(r)
    IN  /\ released' = released \ back /\ violated' = violated \ back
        /\ phase' = [q \in Requests |-> IF q \in back THEN "free" ELSE phase[q]]
        /\ got' = [q \in Requests |-> IF q \in back THEN NoOccupancy ELSE got[q]]
        /\ inUse' = [slots |-> inUse.slots - Total([q \in Requests |-> got[q].slots], back),
                     space |-> inUse.space - Total([q \in Requests |-> got[q].space], back)]
        /\ remaining' = [q \in Requests |-> IF q \in back THEN 0 ELSE remaining[q]]
        /\ bound' = [bound EXCEPT ![r] = NoStep] /\ used' = [used EXCEPT ![r] = 0]
        /\ lender' = [lender EXCEPT ![r] = None]
        /\ Refill(rest + Total(remaining, back \ {r}))
        /\ draining' = TRUE /\ asking' = None
        /\ UNCHANGED <<queue, cursor, timer, passed>>

\* A holder lets its permit go, which it may do in the middle of a step.
ReleasePermit(r) ==
    /\ ~ draining /\ r \notin Lenders /\ Holding(r)
    /\ Return(r, remaining[r])

\* Mutant of EndWorkload: the reservation goes although a read has the slot.
EndWorkloadAnyway(r) ==
    /\ ~ draining /\ r \in Lenders /\ Stepping(r)
    /\ Return(r, remaining[r] + Unused(r))

\* runWithDeviceCapacity: the operation of a workload ends, its step completes
\* and its permit is released.
EndWorkload(r) ==
    /\ ~ draining /\ r \in Lenders /\ Stepping(r) /\ ~ Lent(r)
    /\ Return(r, remaining[r] + Unused(r))

\* The same while a read still has the slot: the reservation stays until then.
EndLentWorkload(r) ==
    /\ ~ draining /\ r \in Lenders /\ Stepping(r) /\ Lent(r)
    /\ released' = released \cup {r}
    /\ remaining' = [remaining EXCEPT ![r] = @ + Unused(r)]
    /\ bound' = [bound EXCEPT ![r] = NoStep] /\ used' = [used EXCEPT ![r] = 0]
    /\ UNCHANGED <<device, arbiter, phase, got, violated, lender, passed>>

-----------------------------------------------------------------------------
\* Time passes.
Tick ==
    /\ ~ draining /\ credit < Quanta + MaxRefill
    /\ elapsed' = elapsed + 1 /\ credit' = credit + 1
    /\ UNCHANGED <<pressure, arbiter, phase, permits, lender, passed>>

\* The pressure on the device changes, or can no longer be read.
PressureChanges ==
    /\ ~ draining
    /\ pressure' \in Samples
    /\ UNCHANGED <<elapsed, credit, arbiter, phase, permits, lender, passed>>

Sync == DrainEnds \/ \E k \in 0 .. Len(Schedule) - 1 : Grant(k)

Hold(r) ==
    \/ \E b \in 0 .. Quanta : TryBegin(r, b)
    \/ Claim(r) \/ Overclaim(r) \/ Complete(r)
    \/ ReleasePermit(r) \/ EndWorkload(r) \/ EndLentWorkload(r)

Ask(r) ==
    \/ \E p \in Requests \cup {None} : Acquire(r, p)
    \/ AcquireRefused(r) \/ Settle(r)

Next ==
    \/ Sync \/ TimerFires \/ Snapshot \/ Tick \/ PressureChanges
    \/ \E r \in Requests : Ask(r) \/ Hold(r)

Spec == Init /\ [][Next]_vars

\* The code runs on and the drain timer fires.  Nothing is assumed of holders,
\* wait limits, pressure or the refill.
FairSpec == Spec /\ WF_vars(Sync) /\ WF_vars(TimerFires)

-----------------------------------------------------------------------------
\* The state is well formed: quantities are in range, and the waiting requests
\* are those in the queues of their classes, once each.
TypeOK ==
    /\ pressure \in Samples
    /\ elapsed \in Nat /\ quanta \in 0 .. Quanta /\ credit \in Nat
    /\ inUse \in [slots : Nat, space : Nat]
    /\ queue \in [Classes -> Seq(Requests)] /\ cursor \in 0 .. Len(Schedule) - 1
    /\ timer \in BOOLEAN /\ draining \in BOOLEAN /\ asking \in Requests \cup {None}
    /\ phase \in [Requests -> {"free", "waiting", "held"}]
    /\ got \in [Requests -> [slots : Nat, space : Nat]]
    /\ remaining \in [Requests -> 0 .. Quanta]
    /\ bound \in [Requests -> 0 .. Quanta \cup {NoStep}] /\ used \in [Requests -> 0 .. Quanta]
    /\ released \subseteq Requests /\ violated \subseteq Requests
    /\ lender \in [Requests -> Requests \cup {None}]
    /\ passed \in [Requests -> 0 .. Len(Schedule)]
    /\ \A c \in Classes : \A i, j \in 1 .. Len(queue[c]) : queue[c][i] = queue[c][j] => i = j
    /\ \A r \in Requests : Waiting(r) <=> \E i \in 1 .. Len(queue[Class[r]]) : queue[Class[r]][i] = r

\* What the arbiter counts as in use is the sum of what the permits hold, and
\* never more than the policy, also when a sample falls below it: nothing is leaked
\* by a settled request, counted twice by a lender and its borrower, or returned
\* twice.
OccupancyConserved ==
    /\ inUse.slots = Total([r \in Requests |-> got[r].slots], Requests)
    /\ inUse.space = Total([r \in Requests |-> got[r].space], Requests)
    /\ 0 <= inUse.slots /\ inUse.slots <= Slots
    /\ 0 <= inUse.space /\ inUse.space <= Space

\* Whoever holds a permit has a slot: its own, or one lent by a workload whose
\* reservation is still in place and lent to nobody else, though the workload
\* itself may be over.
WorkHasSlot ==
    \A r \in Requests : Holding(r) =>
        \/ got[r].slots >= 1
        \/ /\ lender[r] \in Requests /\ got[lender[r]].slots >= 1
           /\ \A q \in Requests : lender[q] = lender[r] => q = r

\* I/O is paid for: what the bucket, the permits and their steps may still
\* spend, and what was spent, is no more than the bucket held at first and time
\* has brought since, however steps and permits end.
QuantaBacked ==
    quanta + elapsed + Total([r \in Requests |-> remaining[r] + Unused(r)], Requests) <= credit

\* A head of a queue that fits every time another request is granted is passed
\* fewer times than the round robin has places, whatever arrives.
BoundedOvertaking == \A r \in Requests : passed[r] < Len(Schedule)

\* No waiter is forgotten: the first of a class does not go on waiting while it
\* fits.
HeadGetsItsTurn == \A r \in Requests : ~ <>[](First(r) /\ Fits(r))
================================================================================
