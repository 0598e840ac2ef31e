--------------------------- MODULE DeliveryLifecycle ---------------------------
(***************************************************************************)
(* The durable life of a delivery: packages/core/src/delivery/application  *)
(* decides, authority.ts reduces the committed records, lifecycle-policy   *)
(* holds the attempt policy.  Every decision runs inside one transaction   *)
(* of the authority log, serialised with all the others by the operations  *)
(* queue of DeliveryAuthority, so one transaction is one action.           *)
(*                                                                         *)
(* The callers are left open: any ready item may be claimed at any time,   *)
(* and the answer to any send handed out since the last crash may be       *)
(* recorded at any time, more than once.  DeliveryPipeline restricts them  *)
(* to what the effect driver does.                                         *)
(*                                                                         *)
(* A digest of (item, attempt, startedAt) is the pair (item, attempt): the *)
(* attempt number of an item never repeats.                                *)
(***************************************************************************)
EXTENDS Integers, FiniteSets

CONSTANTS
    Items,          \* idempotency keys, one delivery item each
    Sources,        \* (owner, id, revision) of the work that produces deliveries
    Ops,            \* lifecycle operations (host stop, device removal, transfer)
    NoOp,
    MaxAttempts,    \* intent.maxAttempts
    RetryDelay,     \* baseRetryDelayMs * 2 ^ k
    Policies,       \* what the transports in use promise about a lost response
    RedriveWindow,  \* windowMs of an idempotent transport
    MaxNow,         \* bound: the last time of the model
    MaxDecisions    \* bound: retry decisions the user takes for one item

ASSUME LifecycleAssumption ==
    /\ NoOp \notin Ops
    /\ MaxAttempts \in Nat \ {0}
    /\ RetryDelay \in [0 .. MaxAttempts -> Nat]
    /\ \A k \in 0 .. MaxAttempts - 1 : RetryDelay[k + 1] = 2 * RetryDelay[k]
    /\ Policies \subseteq {"manual-resolution", "idempotent-redrive"}
    /\ RedriveWindow \in Nat \ {0}
    /\ MaxNow \in Nat
    /\ MaxDecisions \in Nat

VARIABLES
    now,           \* commit time of the authority log
    state,         \* AuthorityDeliveryItem.state; "absent": not enqueued
    attempt,       \* currentAttempt
    autoUsed,      \* automaticAttemptsUsed
    manualRetry,   \* pendingManualRetryFactDigest is set
    nextAt,        \* nextAttemptAt
    policy,        \* attemptStarted.unknownOutcome.kind
    redriveUntil,  \* attemptStarted.unknownOutcome.redriveUntil
    binding,       \* lifecycleBinding.operationId
    announced,     \* attempts for which a delivery-uncertain notice was appended
    closed,        \* attempts whose open fact a later notice closed
    claims,        \* in process: sends handed out, not lost by a crash
    admission,     \* in process: the installed lifecycle admission
    retried,       \* history: retry-scheduled records of the item
    decided,       \* history: retry decisions of the user
    handed         \* history: times the current attempt was handed out, 2 for more than once

durable == <<state, attempt, autoUsed, manualRetry, nextAt, policy, redriveUntil,
             binding, announced, closed>>
history == <<retried, decided, handed>>
vars    == <<now, durable, claims, admission, history>>

PendingStates  == {"queued", "retry-wait", "attempting", "uncertain"}
TerminalStates == {"sent", "failed", "verified-sent", "abandoned"}
States         == {"absent"} \cup PendingStates \cup TerminalStates

Pending == {i \in Items : state[i] \in PendingStates}   \* isPendingDelivery

NoAdmission == [op |-> NoOp, sources |-> {}, frozen |-> {}, sealed |-> FALSE]
Admissions  == [op : Ops \cup {NoOp}, sources : SUBSET Sources,
                frozen : SUBSET Items, sealed : BOOLEAN]

Init ==
    /\ now = 0
    /\ state = [i \in Items |-> "absent"]
    /\ attempt = [i \in Items |-> 0]
    /\ autoUsed = [i \in Items |-> 0]
    /\ manualRetry = [i \in Items |-> FALSE]
    /\ nextAt = [i \in Items |-> 0]
    /\ policy = [i \in Items |-> "manual-resolution"]
    /\ redriveUntil = [i \in Items |-> 0]
    /\ binding = [i \in Items |-> NoOp]
    /\ announced = [i \in Items |-> {}]
    /\ closed = [i \in Items |-> {}]
    /\ claims = {}
    /\ admission = NoAdmission
    /\ retried = [i \in Items |-> 0]
    /\ decided = [i \in Items |-> 0]
    /\ handed = [i \in Items |-> 0]

-----------------------------------------------------------------------------
\* Mutant of Enqueue: the seal is not looked at.
EnqueueUnsealed(i, src) ==
    /\ state[i] = "absent"
    /\ admission.op # NoOp => src \in admission.sources
    /\ state' = [state EXCEPT ![i] = "queued"]
    /\ binding' = [binding EXCEPT ![i] = admission.op]
    /\ UNCHANGED <<now, attempt, autoUsed, manualRetry, nextAt, policy, redriveUntil,
                   announced, closed, claims, admission, history>>

(* Enqueueing: prepareDeliveryEnqueues under decideDeliveryLifecycleBindings.
   A key that is already bound to an item changes nothing. *)
Enqueue(i, src) ==
    /\ state[i] = "absent"
    /\ admission.op # NoOp => src \in admission.sources /\ ~admission.sealed
    /\ state' = [state EXCEPT ![i] = "queued"]
    /\ binding' = [binding EXCEPT ![i] = admission.op]
    /\ UNCHANGED <<now, attempt, autoUsed, manualRetry, nextAt, policy, redriveUntil,
                   announced, closed, claims, admission, history>>

-----------------------------------------------------------------------------
(* Attempts. *)

\* isReadyForDeliveryAttempt
Ready(i) ==
    \/ state[i] = "queued"
    \/ state[i] = "retry-wait" /\ nextAt[i] <= now

\* deliveryAttemptAuthorizationMatches, for the authorization that
\* makeAttemptStarted picks: it throws when this is false.
AuthorizationMatches(i) == manualRetry[i] \/ autoUsed[i] < MaxAttempts

\* The attempt-started record and its reduction, up to the state it leads to.
AttemptStarted(i, p) ==
    /\ Ready(i) /\ AuthorizationMatches(i)
    /\ attempt' = [attempt EXCEPT ![i] = @ + 1]
    /\ autoUsed' = [autoUsed EXCEPT ![i] = IF manualRetry[i] THEN @ ELSE @ + 1]
    /\ manualRetry' = [manualRetry EXCEPT ![i] = FALSE]
    /\ policy' = [policy EXCEPT ![i] = p]
    /\ redriveUntil' = [redriveUntil EXCEPT
            ![i] = IF p = "idempotent-redrive" THEN now + RedriveWindow ELSE 0]
    /\ nextAt' = [nextAt EXCEPT ![i] = 0]
    /\ UNCHANGED <<now, binding, announced, closed, admission, retried, decided>>

\* claim() of a ready item: a send of a new attempt is handed out.
ClaimReady(i, p) ==
    /\ AttemptStarted(i, p)
    /\ state' = [state EXCEPT ![i] = "attempting"]
    /\ claims' = claims \cup {<<i, attempt[i] + 1>>}
    /\ handed' = [handed EXCEPT ![i] = 1]

\* Mutant of MayRedrive: the promise of the transport is not looked at.
MayRedriveAny(i) == now <= redriveUntil[i]

\* deliveryUnknownOutcomeDisposition(...) = "redrive"
MayRedrive(i) == policy[i] = "idempotent-redrive" /\ now <= redriveUntil[i]

\* claim() of an item whose attempt has no recorded outcome: the same attempt
\* is handed out again ...
ClaimRedrive(i) ==
    /\ state[i] = "attempting" /\ MayRedrive(i)
    /\ claims' = claims \cup {<<i, attempt[i]>>}
    /\ handed' = [handed EXCEPT ![i] = IF @ = 0 THEN 1 ELSE 2]
    /\ UNCHANGED <<now, durable, admission, retried, decided>>

\* Mutant of ClaimUncertain: the item is tried again.
ClaimRequeues(i) ==
    /\ state[i] = "attempting" /\ ~MayRedrive(i)
    /\ state' = [state EXCEPT ![i] = "queued"]
    /\ UNCHANGED <<now, attempt, autoUsed, manualRetry, nextAt, policy, redriveUntil,
                   binding, announced, closed, claims, admission, history>>

\* ... or left to the user, with an open fact and a notice.
ClaimUncertain(i) ==
    /\ state[i] = "attempting" /\ ~MayRedrive(i)
    /\ state' = [state EXCEPT ![i] = "uncertain"]
    /\ announced' = [announced EXCEPT ![i] = @ \cup {attempt[i]}]
    /\ UNCHANGED <<now, attempt, autoUsed, manualRetry, nextAt, policy, redriveUntil,
                   binding, closed, claims, admission, history>>

\* recordPreflightFailure(): attempt-started and failed in one commit.
PreflightFailure(i, p) ==
    /\ AttemptStarted(i, p)
    /\ state' = [state EXCEPT ![i] = "failed"]
    /\ handed' = [handed EXCEPT ![i] = 0]
    /\ UNCHANGED claims

\* Mutant of OpenFactClosed: the late outcome does not close the fact.
OpenFactKept(i) == UNCHANGED closed

\* A notice that closes the open fact of the current attempt, if there is one.
OpenFactClosed(i) ==
    closed' = [closed EXCEPT ![i] = IF state[i] = "uncertain" THEN @ \cup {attempt[i]} ELSE @]

\* recordOutcome() for the send c: only the current attempt, while it is open.
OutcomeAccepted(c) ==
    /\ state[c[1]] \in {"attempting", "uncertain"}
    /\ attempt[c[1]] = c[2]

RecordSent(c) ==
    /\ OutcomeAccepted(c)
    /\ state' = [state EXCEPT ![c[1]] = "sent"]
    /\ OpenFactClosed(c[1])
    /\ UNCHANGED <<now, attempt, autoUsed, manualRetry, nextAt, policy, redriveUntil,
                   binding, announced, claims, admission, history>>

\* Mutant of MayRetry: one retry too many.
MayRetryOnceMore(i, retryable) == retryable /\ autoUsed[i] <= MaxAttempts

\* deliveryFailureDisposition(item, error) = "retry"
MayRetry(i, retryable) == retryable /\ autoUsed[i] < MaxAttempts

RecordRetry(c) ==
    /\ OutcomeAccepted(c) /\ MayRetry(c[1], TRUE)
    /\ state' = [state EXCEPT ![c[1]] = "retry-wait"]
    /\ nextAt' = [nextAt EXCEPT
            ![c[1]] = now + RetryDelay[IF autoUsed[c[1]] = 0 THEN 0 ELSE autoUsed[c[1]] - 1]]
    /\ OpenFactClosed(c[1])
    /\ retried' = [retried EXCEPT ![c[1]] = @ + 1]
    /\ UNCHANGED <<now, attempt, autoUsed, manualRetry, policy, redriveUntil,
                   binding, announced, claims, admission, decided, handed>>

RecordFailed(c, retryable) ==
    /\ OutcomeAccepted(c) /\ ~MayRetry(c[1], retryable)
    /\ state' = [state EXCEPT ![c[1]] = "failed"]
    /\ OpenFactClosed(c[1])
    /\ UNCHANGED <<now, attempt, autoUsed, manualRetry, nextAt, policy, redriveUntil,
                   binding, announced, claims, admission, history>>

-----------------------------------------------------------------------------
(* The user resolves the open fact of attempt a: decideDeliveryResolution and
   the delivery-resolved record. *)

ResolutionAccepted(i, a) == state[i] = "uncertain" /\ a = attempt[i]

ResolveFinally(i, a, verdict) ==
    /\ ResolutionAccepted(i, a)
    /\ state' = [state EXCEPT ![i] = verdict]
    /\ OpenFactClosed(i)
    /\ UNCHANGED <<now, attempt, autoUsed, manualRetry, nextAt, policy, redriveUntil,
                   binding, announced, claims, admission, history>>

ResolveRetry(i, a) ==
    /\ ResolutionAccepted(i, a)
    /\ decided[i] < MaxDecisions
    /\ state' = [state EXCEPT ![i] = "queued"]
    /\ manualRetry' = [manualRetry EXCEPT ![i] = TRUE]
    /\ OpenFactClosed(i)
    /\ decided' = [decided EXCEPT ![i] = @ + 1]
    /\ UNCHANGED <<now, attempt, autoUsed, nextAt, policy, redriveUntil,
                   binding, announced, claims, admission, retried, handed>>

-----------------------------------------------------------------------------
(* Lifecycle admission: the fence that host stop, device removal and anchor
   transfer put around the deliveries they have to settle.  It lives in the
   process; after a restart the host restores it from its own durable record. *)

\* decideLifecycleAdmissionInstall and capturePendingLifecycleDeliveries, for
\* installAdmission (seal = FALSE) and restoreAdmission.
InstallAdmission(op, srcs, seal) ==
    LET open == admission.sources = {} /\ ~admission.sealed
    IN  /\ \/ admission.op = NoOp
           \/ admission.op = op /\ (srcs # {} => open \/ srcs = admission.sources)
        /\ admission' =
              [op      |-> op,
               sources |-> IF admission.op = NoOp \/ (open /\ srcs # {})
                             THEN srcs ELSE admission.sources,
               frozen  |-> admission.frozen \cup Pending,
               sealed  |-> admission.sealed \/ seal]
        /\ UNCHANGED <<now, durable, claims, history>>

SealAdmission(op) ==
    /\ admission.op = op
    /\ admission' = [admission EXCEPT !.sealed = TRUE]
    /\ UNCHANGED <<now, durable, claims, history>>

ReleaseAdmission(op) ==
    /\ admission.op = op
    /\ admission' = NoAdmission
    /\ UNCHANGED <<now, durable, claims, history>>

\* Mutant of AcceptedWork: what was pending at the installation is forgotten.
BoundWork == {i \in Pending : binding[i] = admission.op}

\* lifecycleAcceptedDeliveryItems: what the operation has to settle.
AcceptedWork == {i \in Pending : i \in admission.frozen \/ binding[i] = admission.op}

-----------------------------------------------------------------------------
\* The process stops; the log keeps what was committed.  Sends that were under
\* way may have reached their endpoint, their answers are lost.
Crash ==
    /\ claims' = {}
    /\ admission' = NoAdmission
    /\ UNCHANGED <<now, durable, history>>

Tick ==
    /\ now < MaxNow
    /\ now' = now + 1
    /\ UNCHANGED <<durable, claims, admission, history>>

Next ==
    \/ \E i \in Items, src \in Sources : Enqueue(i, src)
    \/ \E i \in Items, p \in Policies : ClaimReady(i, p)
    \/ \E i \in Items, p \in Policies : PreflightFailure(i, p)
    \/ \E i \in Items : ClaimRedrive(i)
    \/ \E i \in Items : ClaimUncertain(i)
    \/ \E c \in claims : RecordSent(c)
    \/ \E c \in claims : RecordRetry(c)
    \/ \E c \in claims, retryable \in BOOLEAN : RecordFailed(c, retryable)
    \/ \E i \in Items, a \in 1 .. (MaxAttempts + MaxDecisions),
          verdict \in {"verified-sent", "abandoned"} : ResolveFinally(i, a, verdict)
    \/ \E i \in Items, a \in 1 .. (MaxAttempts + MaxDecisions) : ResolveRetry(i, a)
    \/ \E op \in Ops, srcs \in SUBSET Sources, seal \in BOOLEAN :
          InstallAdmission(op, srcs, seal)
    \/ \E op \in Ops : SealAdmission(op)
    \/ \E op \in Ops : ReleaseAdmission(op)
    \/ Crash
    \/ Tick

Spec == Init /\ [][Next]_vars

-----------------------------------------------------------------------------
TypeOK ==
    /\ now \in Nat
    /\ state \in [Items -> States]
    /\ attempt \in [Items -> Nat]
    /\ autoUsed \in [Items -> Nat]
    /\ manualRetry \in [Items -> BOOLEAN]
    /\ nextAt \in [Items -> Nat]
    /\ policy \in [Items -> {"manual-resolution", "idempotent-redrive"}]
    /\ redriveUntil \in [Items -> Nat]
    /\ binding \in [Items -> Ops \cup {NoOp}]
    /\ announced \in [Items -> SUBSET Nat]
    /\ closed \in [Items -> SUBSET Nat]
    /\ claims \subseteq Items \X Nat
    /\ admission \in Admissions
    /\ retried \in [Items -> Nat]
    /\ decided \in [Items -> Nat]
    /\ handed \in [Items -> Nat]

\* Every attempt after the first is authorised by exactly one fact: a failure
\* that the transport reported and the policy lets retry, or a decision of the
\* user.  A lost answer, a crash or a late answer authorises none: this is what
\* keeps recovery from sending a message twice on its own.
Accounted(i) ==
    state[i] # "absent" =>
        attempt[i] = retried[i] + decided[i]
                        + (IF state[i] \in {"queued", "retry-wait"} THEN 0 ELSE 1)

AttemptsAccounted == \A i \in Items : Accounted(i)

\* The automatic budget is never exceeded, a user decision buys exactly one
\* attempt, and an item in a ready state can be claimed: the "exceeds its
\* attempt policy" error of makeAttemptStarted, which would leave the item
\* pending for ever, cannot occur.
WithinBudget(i) ==
    /\ autoUsed[i] <= MaxAttempts
    /\ attempt[i] = autoUsed[i] + decided[i] - (IF manualRetry[i] THEN 1 ELSE 0)
    /\ state[i] \in {"queued", "retry-wait"} => AuthorizationMatches(i)

BudgetRespected == \A i \in Items : WithinBudget(i)

\* An attempt is handed to a sender once, across crashes, unless its transport
\* promised to recognise the repetition.
HandedOutOnce ==
    \A i \in Items : handed[i] > 1 => policy[i] = "idempotent-redrive"

\* The notices tell the truth about open facts: what was announced as uncertain
\* and not yet announced as closed is exactly the uncertain attempt, whichever
\* of a late answer and a user decision closed the earlier ones.
NoticesTrue(i) ==
    /\ closed[i] \subseteq announced[i]
    /\ announced[i] \ closed[i] = IF state[i] = "uncertain" THEN {attempt[i]} ELSE {}

NoticesMatchOpenFacts == \A i \in Items : NoticesTrue(i)

\* While a lifecycle operation holds the admission, the work it has to settle
\* is all the pending work: no delivery slips past the freeze, also not one
\* enqueued between a restart and the restoration of the admission.
FreezeComplete ==
    admission.op # NoOp => AcceptedWork = Pending

\* A terminal delivery never changes again: no late answer, redrive or user
\* decision revives or rewrites it.
TerminalIsFinal ==
    [][\A i \in Items : state[i] \in TerminalStates => state'[i] = state[i]]_vars

\* Under a sealed admission the pending work only shrinks, so a settlement that
\* has seen it empty may rely on it until the release.
SealedOnlyShrinks ==
    [][admission.sealed /\ admission'.op = admission.op => Pending' \subseteq Pending]_vars
=============================================================================
