------------------------ MODULE DeliveryLifecycleProofs ------------------------
(***************************************************************************)
(* The safety properties of DeliveryLifecycle, for every set of items,     *)
(* sources and operations, every attempt budget and every bound.           *)
(***************************************************************************)
EXTENDS DeliveryLifecycle, TLAPS

(* What the records of one item always satisfy; the stated properties are not
   inductive without it.  An item that was not enqueued has no history, a
   decision of the user waits only in the queue, and an attempt that is under
   way has not been announced as uncertain: attempt numbers only grow. *)
Consistent(i) ==
    /\ state[i] = "absent" => /\ attempt[i] = 0 /\ autoUsed[i] = 0
                              /\ retried[i] = 0 /\ decided[i] = 0
                              /\ manualRetry[i] = FALSE
    /\ manualRetry[i] = TRUE => state[i] = "queued"
    /\ \A a \in announced[i] : a <= attempt[i]
    /\ state[i] = "attempting" => attempt[i] \notin announced[i]

\* A sealed admission belongs to an operation.
SealedHeld == admission.sealed = TRUE => admission.op # NoOp

ItemOK(i) ==
    /\ Consistent(i)
    /\ Accounted(i)
    /\ WithinBudget(i)
    /\ handed[i] > 1 => policy[i] = "idempotent-redrive"
    /\ NoticesTrue(i)

IInv ==
    /\ TypeOK
    /\ \A i \in Items : ItemOK(i)
    /\ FreezeComplete
    /\ SealedHeld

-----------------------------------------------------------------------------
\* The type invariant holds initially: nothing is enqueued, no admission is installed.
LEMMA TypeInit == Init => TypeOK
  BY LifecycleAssumption DEF Init, TypeOK, States, NoAdmission, Admissions

\* What the assumption says of the bounds, without the doubling of the delays.
LEMMA BoundsType ==
    /\ MaxAttempts \in Nat \ {0}
    /\ \A k \in 0 .. MaxAttempts : RetryDelay[k] \in Nat
  BY LifecycleAssumption

\* What starting an attempt leaves of the types of the variables it changes.
LEMMA AttemptStartedType ==
  ASSUME TypeOK, NEW i \in Items, NEW p \in Policies, AttemptStarted(i, p)
  PROVE  /\ attempt' \in [Items -> Nat] /\ autoUsed' \in [Items -> Nat]
         /\ manualRetry' \in [Items -> BOOLEAN] /\ redriveUntil' \in [Items -> Nat]
         /\ policy' \in [Items -> {"manual-resolution", "idempotent-redrive"}]
<1>1. attempt' \in [Items -> Nat] /\ redriveUntil' \in [Items -> Nat]
  BY LifecycleAssumption DEF TypeOK, AttemptStarted
<1>2. autoUsed' \in [Items -> Nat]
  <2>1. (IF manualRetry[i] THEN autoUsed[i] ELSE autoUsed[i] + 1) \in Nat
    BY DEF TypeOK
  <2> QED  BY <2>1 DEF TypeOK, AttemptStarted
<1>3. manualRetry' \in [Items -> BOOLEAN]
  BY DEF TypeOK, AttemptStarted
<1>4. policy' \in [Items -> {"manual-resolution", "idempotent-redrive"}]
  BY LifecycleAssumption DEF TypeOK, AttemptStarted
<1> QED  BY <1>1, <1>2, <1>3, <1>4

\* A send that was handed out is a pair of an item and an attempt.
LEMMA ClaimType ==
  ASSUME TypeOK, NEW c \in claims
  PROVE  c[1] \in Items /\ c[2] \in Nat
  BY DEF TypeOK

\* Closing an open fact keeps the type of the closed facts.
LEMMA OpenFactClosedType ==
  ASSUME TypeOK, NEW i \in Items, OpenFactClosed(i)
  PROVE  closed' \in [Items -> SUBSET Nat]
<1>1. closed[i] \in SUBSET Nat /\ attempt[i] \in Nat
  BY DEF TypeOK
<1>2. (IF state[i] = "uncertain" THEN closed[i] \cup {attempt[i]} ELSE closed[i]) \in SUBSET Nat
  BY <1>1
<1> QED  BY <1>2 DEF TypeOK, OpenFactClosed

\* The type invariant is inductive by itself, action by action.
LEMMA TypeStep == TypeOK /\ [Next]_vars => TypeOK'
<1> SUFFICES ASSUME TypeOK, [Next]_vars PROVE TypeOK'
  OBVIOUS
<1>1. ASSUME NEW i \in Items, NEW src \in Sources, Enqueue(i, src) PROVE TypeOK'
  BY <1>1 DEF TypeOK, Enqueue, States, PendingStates, Admissions, history
<1>2. ASSUME NEW i \in Items, NEW p \in Policies, ClaimReady(i, p) PROVE TypeOK'
  <2>1. AttemptStarted(i, p)  BY <1>2 DEF ClaimReady
  <2>2. claims' \subseteq Items \X Nat /\ handed' \in [Items -> Nat]
    BY <1>2 DEF TypeOK, ClaimReady
  <2>3. state' \in [Items -> States]
    BY <1>2 DEF TypeOK, ClaimReady, States, PendingStates
  <2> QED  BY <2>1, <2>2, <2>3, AttemptStartedType DEF TypeOK, AttemptStarted
<1>3. ASSUME NEW i \in Items, NEW p \in Policies, PreflightFailure(i, p) PROVE TypeOK'
  BY <1>3, AttemptStartedType DEF TypeOK, PreflightFailure, AttemptStarted, States, TerminalStates
<1>4. ASSUME NEW i \in Items, ClaimRedrive(i) PROVE TypeOK'
  BY <1>4 DEF TypeOK, ClaimRedrive, durable
<1>5. ASSUME NEW i \in Items, ClaimUncertain(i) PROVE TypeOK'
  <2>1. announced[i] \cup {attempt[i]} \in SUBSET Nat
    BY DEF TypeOK
  <2>2. announced' \in [Items -> SUBSET Nat]
    BY <1>5, <2>1 DEF TypeOK, ClaimUncertain
  <2> QED  BY <1>5, <2>2 DEF TypeOK, ClaimUncertain, States, PendingStates, history
<1>6. ASSUME NEW c \in claims, RecordSent(c) PROVE TypeOK'
  BY <1>6, ClaimType, OpenFactClosedType DEF TypeOK, RecordSent, States, TerminalStates, history
<1>7. ASSUME NEW c \in claims, RecordRetry(c) PROVE TypeOK'
  <2>1. PICK i \in Items : i = c[1]
    BY ClaimType
  <2>2. closed' \in [Items -> SUBSET Nat]
    BY <1>7, <2>1, OpenFactClosedType DEF RecordRetry
  <2>3. PICK k \in 0 .. MaxAttempts : k = IF autoUsed[i] = 0 THEN 0 ELSE autoUsed[i] - 1
    <3>1. autoUsed[i] \in Nat /\ autoUsed[i] < MaxAttempts
      BY <1>7, <2>1 DEF TypeOK, RecordRetry, MayRetry
    <3> QED  BY <3>1, BoundsType
  <2>4. now + RetryDelay[k] \in Nat
    BY BoundsType DEF TypeOK
  <2>5. nextAt' \in [Items -> Nat]
    <3>1. nextAt' = [nextAt EXCEPT ![i] = now + RetryDelay[k]]
      BY <1>7, <2>1, <2>3, Zenon DEF RecordRetry
    <3> QED  BY <2>4, <3>1 DEF TypeOK
  <2>6. state' \in [Items -> States] /\ retried' \in [Items -> Nat]
    BY <1>7, <2>1 DEF TypeOK, RecordRetry, States, PendingStates
  <2> QED  BY <1>7, <2>2, <2>5, <2>6 DEF TypeOK, RecordRetry
<1>8. ASSUME NEW c \in claims, NEW r \in BOOLEAN, RecordFailed(c, r) PROVE TypeOK'
  BY <1>8, ClaimType, OpenFactClosedType DEF TypeOK, RecordFailed, States, TerminalStates, history
<1>9. ASSUME NEW i \in Items, NEW a, NEW verdict \in {"verified-sent", "abandoned"},
             ResolveFinally(i, a, verdict)
      PROVE  TypeOK'
  BY <1>9, OpenFactClosedType DEF TypeOK, ResolveFinally, States, TerminalStates, history
<1>10. ASSUME NEW i \in Items, NEW a, ResolveRetry(i, a) PROVE TypeOK'
  <2>1. state' \in [Items -> States] /\ decided' \in [Items -> Nat]
    BY <1>10 DEF TypeOK, ResolveRetry, States, PendingStates
  <2>2. manualRetry' \in [Items -> BOOLEAN]
    BY <1>10 DEF TypeOK, ResolveRetry
  <2> QED  BY <1>10, <2>1, <2>2, OpenFactClosedType DEF TypeOK, ResolveRetry
<1>11. ASSUME NEW op \in Ops, NEW srcs \in SUBSET Sources, NEW seal \in BOOLEAN,
              InstallAdmission(op, srcs, seal)
       PROVE  TypeOK'
  BY <1>11 DEF TypeOK, InstallAdmission, Admissions, Pending, durable, history
<1>12. ASSUME NEW op \in Ops, SealAdmission(op) PROVE TypeOK'
  BY <1>12 DEF TypeOK, SealAdmission, Admissions, durable, history
<1>13. ASSUME NEW op \in Ops, ReleaseAdmission(op) PROVE TypeOK'
  BY <1>13 DEF TypeOK, ReleaseAdmission, NoAdmission, Admissions, durable, history
<1>14. CASE Crash
  BY <1>14 DEF TypeOK, Crash, NoAdmission, Admissions, durable, history
<1>15. CASE Tick
  BY <1>15 DEF TypeOK, Tick, durable, history
<1>16. CASE UNCHANGED vars
  BY <1>16 DEF TypeOK, vars, durable, history
<1> QED
  BY <1>1, <1>2, <1>3, <1>4, <1>5, <1>6, <1>7, <1>8, <1>9, <1>10, <1>11, <1>12,
     <1>13, <1>14, <1>15, <1>16 DEF Next

-----------------------------------------------------------------------------
\* A step that leaves the records of an item alone leaves them in order.
LEMMA Untouched ==
  ASSUME NEW j \in Items, ItemOK(j),
         state'[j] = state[j], attempt'[j] = attempt[j], autoUsed'[j] = autoUsed[j],
         manualRetry'[j] = manualRetry[j], policy'[j] = policy[j], handed'[j] = handed[j],
         announced'[j] = announced[j], closed'[j] = closed[j],
         retried'[j] = retried[j], decided'[j] = decided[j]
  PROVE  ItemOK(j)'
  BY DEF ItemOK, Consistent, Accounted, WithinBudget, NoticesTrue, AuthorizationMatches

\* Enqueueing: the item had no history, so its first attempt is authorised.
LEMMA EnqueueItems ==
  ASSUME TypeOK, NEW j \in Items, ItemOK(j),
         NEW i \in Items, NEW src \in Sources, Enqueue(i, src)
  PROVE  ItemOK(j)'
<1>1. CASE i # j
  BY <1>1, Untouched DEF TypeOK, Enqueue, history
<1>2. CASE i = j
  <2>1. state[j] = "absent" /\ state'[j] = "queued"
    BY <1>2 DEF TypeOK, Enqueue
  <2> QED
    BY <1>2, <2>1, BoundsType DEF TypeOK, Enqueue, history, ItemOK, Consistent, Accounted, WithinBudget,
        NoticesTrue, AuthorizationMatches
<1> QED  BY <1>1, <1>2

\* A new attempt: the step that uses up a decision of the user, or one of the
\* automatic attempts.  The new attempt number was never announced.
LEMMA AttemptStartedItems ==
  ASSUME TypeOK, NEW j \in Items, ItemOK(j),
         NEW p \in Policies, AttemptStarted(j, p),
         NEW s \in {"attempting", "failed"}, state'[j] = s, handed'[j] \in {0, 1}
  PROVE  ItemOK(j)'
<1>1. state[j] \in {"queued", "retry-wait"}
  BY DEF AttemptStarted, Ready
<1>2. /\ attempt'[j] = attempt[j] + 1 /\ manualRetry'[j] = FALSE
      /\ announced'[j] = announced[j] /\ closed'[j] = closed[j]
      /\ retried'[j] = retried[j] /\ decided'[j] = decided[j]
  BY DEF TypeOK, AttemptStarted
<1>3. /\ autoUsed'[j] \in Nat /\ autoUsed'[j] <= MaxAttempts
      /\ attempt'[j] = autoUsed'[j] + decided'[j]
  <2>1. CASE manualRetry[j] = TRUE
    <3>1. autoUsed'[j] = autoUsed[j]
      BY <2>1 DEF TypeOK, AttemptStarted
    <3>2. attempt[j] = autoUsed[j] + decided[j] - 1
      BY <2>1 DEF ItemOK, WithinBudget
    <3> QED  BY <1>2, <3>1, <3>2 DEF TypeOK, ItemOK, WithinBudget
  <2>2. CASE manualRetry[j] = FALSE
    <3>1. autoUsed'[j] = autoUsed[j] + 1
      BY <2>2 DEF TypeOK, AttemptStarted
    <3>2. attempt[j] = autoUsed[j] + decided[j] /\ autoUsed[j] < MaxAttempts
      BY <2>2 DEF TypeOK, AttemptStarted, AuthorizationMatches, ItemOK, WithinBudget
    <3> QED  BY <1>2, <3>1, <3>2, BoundsType DEF TypeOK
  <2> QED  BY <2>1, <2>2 DEF TypeOK
<1>4. Consistent(j)'
  BY <1>1, <1>2 DEF TypeOK, ItemOK, Consistent
<1>5. Accounted(j)'
  BY <1>1, <1>2 DEF TypeOK, ItemOK, Accounted
<1>6. WithinBudget(j)'
  BY <1>1, <1>2, <1>3 DEF TypeOK, WithinBudget
<1>7. NoticesTrue(j)'
  BY <1>1, <1>2 DEF ItemOK, NoticesTrue
<1> QED  BY <1>4, <1>5, <1>6, <1>7 DEF ItemOK

\* claim() of a ready item keeps the records of every item in order.
LEMMA ClaimReadyItems ==
  ASSUME TypeOK, NEW j \in Items, ItemOK(j),
         NEW i \in Items, NEW p \in Policies, ClaimReady(i, p)
  PROVE  ItemOK(j)'
<1>1. CASE i # j
  BY <1>1, Untouched DEF TypeOK, ClaimReady, AttemptStarted
<1>2. CASE i = j
  BY <1>2, AttemptStartedItems DEF TypeOK, ClaimReady
<1> QED  BY <1>1, <1>2

\* recordPreflightFailure() keeps the records of every item in order.
LEMMA PreflightFailureItems ==
  ASSUME TypeOK, NEW j \in Items, ItemOK(j),
         NEW i \in Items, NEW p \in Policies, PreflightFailure(i, p)
  PROVE  ItemOK(j)'
<1>1. CASE i # j
  BY <1>1, Untouched DEF TypeOK, PreflightFailure, AttemptStarted
<1>2. CASE i = j
  BY <1>2, AttemptStartedItems DEF TypeOK, PreflightFailure
<1> QED  BY <1>1, <1>2

\* A redrive changes only how often the attempt was handed out.
LEMMA ClaimRedriveItems ==
  ASSUME TypeOK, NEW j \in Items, ItemOK(j), NEW i \in Items, ClaimRedrive(i)
  PROVE  ItemOK(j)'
<1>1. CASE i # j
  BY <1>1, Untouched DEF TypeOK, ClaimRedrive, durable
<1>2. CASE i = j
  BY <1>2 DEF TypeOK, ClaimRedrive, MayRedrive, durable, ItemOK, Consistent, Accounted,
      WithinBudget, NoticesTrue, AuthorizationMatches
<1> QED  BY <1>1, <1>2

\* The attempt under way becomes the one open fact.
LEMMA ClaimUncertainItems ==
  ASSUME TypeOK, NEW j \in Items, ItemOK(j), NEW i \in Items, ClaimUncertain(i)
  PROVE  ItemOK(j)'
<1>1. CASE i # j
  BY <1>1, Untouched DEF TypeOK, ClaimUncertain, history
<1>2. CASE i = j
  <2>1. /\ state[j] = "attempting" /\ state'[j] = "uncertain"
        /\ announced'[j] = announced[j] \cup {attempt[j]}
    BY <1>2 DEF TypeOK, ClaimUncertain
  <2>2. NoticesTrue(j)'
    BY <1>2, <2>1 DEF TypeOK, ClaimUncertain, ItemOK, Consistent, NoticesTrue
  <2>3. Consistent(j)'
    BY <1>2, <2>1 DEF TypeOK, ClaimUncertain, history, ItemOK, Consistent
  <2> QED
    BY <1>2, <2>1, <2>2, <2>3 DEF TypeOK, ClaimUncertain, history, ItemOK, Accounted,
        WithinBudget, AuthorizationMatches
<1> QED  BY <1>1, <1>2

\* The notice of an outcome closes the open fact of the attempt, if there is
\* one, and the item leaves the state in which it can have one.
LEMMA ClosedNotices ==
  ASSUME TypeOK, NEW j \in Items, ItemOK(j), state[j] \in {"attempting", "uncertain"},
         OpenFactClosed(j), state'[j] \notin {"attempting", "uncertain"},
         UNCHANGED announced
  PROVE  NoticesTrue(j)'
<1>1. closed'[j] = IF state[j] = "uncertain" THEN closed[j] \cup {attempt[j]} ELSE closed[j]
  BY DEF TypeOK, OpenFactClosed
<1>2. CASE state[j] = "uncertain"
  BY <1>1, <1>2 DEF ItemOK, NoticesTrue
<1>3. CASE state[j] = "attempting"
  BY <1>1, <1>3 DEF ItemOK, NoticesTrue
<1> QED  BY <1>2, <1>3

\* The end of an item, by an outcome or by the verdict of the user.
LEMMA EndedItems ==
  ASSUME TypeOK, NEW j \in Items, ItemOK(j), state[j] \in {"attempting", "uncertain"},
         OpenFactClosed(j), state'[j] \in TerminalStates,
         UNCHANGED <<attempt, autoUsed, manualRetry, policy, announced, handed, retried, decided>>
  PROVE  ItemOK(j)'
<1>1. NoticesTrue(j)'
  BY ClosedNotices DEF TerminalStates
<1>2. Consistent(j)'
  BY DEF TypeOK, TerminalStates, ItemOK, Consistent
<1>3. Accounted(j)'
  BY DEF TypeOK, TerminalStates, ItemOK, Accounted
<1>4. WithinBudget(j)'
  BY DEF TypeOK, TerminalStates, ItemOK, WithinBudget
<1> QED  BY <1>1, <1>2, <1>3, <1>4 DEF ItemOK

\* recordOutcome() with success.
LEMMA RecordSentItems ==
  ASSUME TypeOK, NEW j \in Items, ItemOK(j), NEW c \in claims, RecordSent(c)
  PROVE  ItemOK(j)'
<1>1. PICK i \in Items : i = c[1]
  BY ClaimType
<1>2. CASE i # j
  BY <1>1, <1>2, Untouched DEF TypeOK, RecordSent, OpenFactClosed, history
<1>3. CASE i = j
  BY <1>1, <1>3, EndedItems DEF TypeOK, RecordSent, OutcomeAccepted, TerminalStates, history
<1> QED  BY <1>2, <1>3

\* recordOutcome() with a failure that is not retried.
LEMMA RecordFailedItems ==
  ASSUME TypeOK, NEW j \in Items, ItemOK(j), NEW c \in claims, NEW r \in BOOLEAN,
         RecordFailed(c, r)
  PROVE  ItemOK(j)'
<1>1. PICK i \in Items : i = c[1]
  BY ClaimType
<1>2. CASE i # j
  BY <1>1, <1>2, Untouched DEF TypeOK, RecordFailed, OpenFactClosed, history
<1>3. CASE i = j
  BY <1>1, <1>3, EndedItems DEF TypeOK, RecordFailed, OutcomeAccepted, TerminalStates, history
<1> QED  BY <1>2, <1>3

\* A verdict of the user: verified as sent, or abandoned.
LEMMA ResolveFinallyItems ==
  ASSUME TypeOK, NEW j \in Items, ItemOK(j), NEW i \in Items, NEW a,
         NEW verdict \in {"verified-sent", "abandoned"}, ResolveFinally(i, a, verdict)
  PROVE  ItemOK(j)'
<1>1. CASE i # j
  BY <1>1, Untouched DEF TypeOK, ResolveFinally, OpenFactClosed, history
<1>2. CASE i = j
  BY <1>2, EndedItems DEF TypeOK, ResolveFinally, ResolutionAccepted, TerminalStates, history
<1> QED  BY <1>1, <1>2

\* A reported failure that leaves room in the budget.
LEMMA RecordRetryItems ==
  ASSUME TypeOK, NEW j \in Items, ItemOK(j), NEW c \in claims, RecordRetry(c)
  PROVE  ItemOK(j)'
<1>1. PICK i \in Items : i = c[1]
  BY ClaimType
<1>2. CASE i # j
  BY <1>1, <1>2, Untouched DEF TypeOK, RecordRetry, OpenFactClosed
<1>3. CASE i = j
  <2>1. /\ state[j] \in {"attempting", "uncertain"} /\ autoUsed[j] < MaxAttempts
        /\ state'[j] = "retry-wait" /\ retried'[j] = retried[j] + 1
        /\ OpenFactClosed(j)
        /\ UNCHANGED <<attempt, autoUsed, manualRetry, policy, announced, handed, decided>>
    BY <1>1, <1>3 DEF TypeOK, RecordRetry, OutcomeAccepted, MayRetry
  <2>2. NoticesTrue(j)'
    BY <2>1, ClosedNotices
  <2>3. Consistent(j)'
    BY <2>1 DEF TypeOK, ItemOK, Consistent
  <2>4. Accounted(j)'
    BY <2>1 DEF TypeOK, ItemOK, Accounted
  <2>5. WithinBudget(j)'
    BY <2>1 DEF TypeOK, ItemOK, WithinBudget, AuthorizationMatches
  <2> QED  BY <2>1, <2>2, <2>3, <2>4, <2>5 DEF ItemOK
<1> QED  BY <1>2, <1>3

\* A decision of the user: none was waiting, for the item was not in the queue.
LEMMA ResolveRetryItems ==
  ASSUME TypeOK, NEW j \in Items, ItemOK(j), NEW i \in Items, NEW a, ResolveRetry(i, a)
  PROVE  ItemOK(j)'
<1>1. CASE i # j
  BY <1>1, Untouched DEF TypeOK, ResolveRetry, OpenFactClosed
<1>2. CASE i = j
  <2>1. /\ state[j] = "uncertain" /\ state'[j] = "queued"
        /\ manualRetry'[j] = TRUE /\ decided'[j] = decided[j] + 1
        /\ OpenFactClosed(j)
        /\ UNCHANGED <<attempt, autoUsed, policy, announced, handed, retried>>
    BY <1>2 DEF TypeOK, ResolveRetry, ResolutionAccepted
  <2>2. manualRetry[j] = FALSE
    BY <2>1 DEF TypeOK, ItemOK, Consistent
  <2>3. NoticesTrue(j)'
    BY <2>1, ClosedNotices
  <2>4. Consistent(j)'
    BY <2>1 DEF TypeOK, ItemOK, Consistent
  <2>5. Accounted(j)'
    BY <2>1 DEF TypeOK, ItemOK, Accounted
  <2>6. WithinBudget(j)'
    BY <2>1, <2>2 DEF TypeOK, ItemOK, WithinBudget, AuthorizationMatches
  <2> QED  BY <2>1, <2>3, <2>4, <2>5, <2>6 DEF ItemOK
<1> QED  BY <1>1, <1>2

-----------------------------------------------------------------------------
\* Every step keeps the records of every item in order.
LEMMA ItemsStep ==
  ASSUME TypeOK, \A i \in Items : ItemOK(i), [Next]_vars
  PROVE  \A i \in Items : ItemOK(i)'
<1> TAKE j \in Items
<1> ItemOK(j)
  OBVIOUS
<1>1. CASE \E i \in Items, src \in Sources : Enqueue(i, src)
  BY <1>1, EnqueueItems
<1>2. CASE \E i \in Items, p \in Policies : ClaimReady(i, p)
  BY <1>2, ClaimReadyItems
<1>3. CASE \E i \in Items, p \in Policies : PreflightFailure(i, p)
  BY <1>3, PreflightFailureItems
<1>4. CASE \E i \in Items : ClaimRedrive(i)
  BY <1>4, ClaimRedriveItems
<1>5. CASE \E i \in Items : ClaimUncertain(i)
  BY <1>5, ClaimUncertainItems
<1>6. CASE \E c \in claims : RecordSent(c)
  BY <1>6, RecordSentItems
<1>7. CASE \E c \in claims : RecordRetry(c)
  BY <1>7, RecordRetryItems
<1>8. CASE \E c \in claims, r \in BOOLEAN : RecordFailed(c, r)
  BY <1>8, RecordFailedItems
<1>9. CASE \E i \in Items, a \in 1 .. (MaxAttempts + MaxDecisions),
              verdict \in {"verified-sent", "abandoned"} : ResolveFinally(i, a, verdict)
  BY <1>9, ResolveFinallyItems
<1>10. CASE \E i \in Items, a \in 1 .. (MaxAttempts + MaxDecisions) : ResolveRetry(i, a)
  BY <1>10, ResolveRetryItems
<1>11. CASE \E op \in Ops, srcs \in SUBSET Sources, seal \in BOOLEAN :
              InstallAdmission(op, srcs, seal)
  BY <1>11, Untouched DEF InstallAdmission, durable, history
<1>12. CASE \E op \in Ops : SealAdmission(op)
  BY <1>12, Untouched DEF SealAdmission, durable, history
<1>13. CASE \E op \in Ops : ReleaseAdmission(op)
  BY <1>13, Untouched DEF ReleaseAdmission, durable, history
<1>14. CASE Crash \/ Tick \/ UNCHANGED vars
  BY <1>14, Untouched DEF Crash, Tick, vars, durable, history
<1> QED
  BY <1>1, <1>2, <1>3, <1>4, <1>5, <1>6, <1>7, <1>8, <1>9, <1>10, <1>11, <1>12,
     <1>13, <1>14 DEF Next

\* What any step may do to the state of an item: it enters from "absent" only by
\* an enqueue, which binds it to the installed admission and is refused by a
\* sealed one; and from a terminal state it does not move.
LEMMA StateStep ==
  ASSUME TypeOK, [Next]_vars, NEW j \in Items
  PROVE  \/ state'[j] = state[j] /\ binding'[j] = binding[j]
         \/ state[j] \in PendingStates /\ binding'[j] = binding[j]
         \/ /\ state[j] = "absent" /\ binding'[j] = admission.op
            /\ admission' = admission
            /\ admission.op # NoOp => admission.sealed = FALSE
<1>1. CASE \E i \in Items, src \in Sources : Enqueue(i, src)
  <2>1. PICK i \in Items, src \in Sources : Enqueue(i, src)
    BY <1>1
  <2>2. CASE i = j
    BY <2>1, <2>2 DEF TypeOK, Admissions, Enqueue
  <2>3. CASE i # j
    BY <2>1, <2>3 DEF TypeOK, Enqueue
  <2> QED  BY <2>2, <2>3
<1>2. CASE \E i \in Items, p \in Policies : ClaimReady(i, p) \/ PreflightFailure(i, p)
  BY <1>2 DEF TypeOK, ClaimReady, PreflightFailure, AttemptStarted, Ready, PendingStates
<1>3. CASE \E i \in Items : ClaimRedrive(i) \/ ClaimUncertain(i)
  BY <1>3 DEF TypeOK, ClaimRedrive, ClaimUncertain, durable, PendingStates
<1>4. CASE \E c \in claims : RecordSent(c) \/ RecordRetry(c) \/ \E r \in BOOLEAN : RecordFailed(c, r)
  BY <1>4, ClaimType DEF TypeOK, RecordSent, RecordRetry, RecordFailed, OutcomeAccepted, PendingStates
<1>5. CASE \E i \in Items, a \in 1 .. (MaxAttempts + MaxDecisions) :
              \/ ResolveRetry(i, a)
              \/ \E verdict \in {"verified-sent", "abandoned"} : ResolveFinally(i, a, verdict)
  BY <1>5 DEF TypeOK, ResolveRetry, ResolveFinally, ResolutionAccepted, PendingStates
<1>6. CASE UNCHANGED durable
  BY <1>6 DEF durable
<1> QED
  BY <1>1, <1>2, <1>3, <1>4, <1>5, <1>6
     DEF Next, InstallAdmission, SealAdmission, ReleaseAdmission, Crash, Tick, vars

\* What any step may do to the admission.  One that stays installed keeps its
\* operation and what it has frozen, or is (re)installed and freezes all that
\* is pending.
LEMMA AdmissionChange ==
  ASSUME TypeOK, [Next]_vars, SealedHeld
  PROVE  /\ SealedHeld'
         /\ \/ admission'.op = NoOp
            \/ admission'.op = admission.op /\ admission'.frozen = admission.frozen
            \/ Pending \subseteq admission'.frozen /\ state' = state
<1>1. CASE \E op \in Ops, srcs \in SUBSET Sources, seal \in BOOLEAN : InstallAdmission(op, srcs, seal)
  BY <1>1, LifecycleAssumption DEF InstallAdmission, SealedHeld, durable
<1>2. CASE \E op \in Ops : SealAdmission(op)
  BY <1>2, LifecycleAssumption DEF SealAdmission, SealedHeld, TypeOK, Admissions
<1>3. CASE (\E op \in Ops : ReleaseAdmission(op)) \/ Crash
  BY <1>3 DEF ReleaseAdmission, Crash, NoAdmission, SealedHeld
<1>4. CASE UNCHANGED admission
  BY <1>4 DEF SealedHeld
<1> QED
  BY <1>1, <1>2, <1>3, <1>4
     DEF Next, Enqueue, ClaimReady, PreflightFailure, AttemptStarted, ClaimRedrive,
         ClaimUncertain, RecordSent, RecordRetry, RecordFailed, ResolveFinally, ResolveRetry,
         Tick, vars

\* No step lets a delivery slip past the admission.
LEMMA FreezeStep ==
  ASSUME TypeOK, TypeOK', [Next]_vars, SealedHeld, FreezeComplete
  PROVE  FreezeComplete'
<1> SUFFICES ASSUME admission'.op # NoOp, NEW j \in Items, state'[j] \in PendingStates
             PROVE  j \in admission'.frozen \/ binding'[j] = admission'.op
  BY DEF FreezeComplete, AcceptedWork, Pending
<1>1. CASE Pending \subseteq admission'.frozen /\ state' = state
  BY <1>1 DEF Pending
<1>2. CASE admission'.op = admission.op /\ admission'.frozen = admission.frozen
  <2>1. CASE state[j] \in PendingStates /\ binding'[j] = binding[j]
    BY <1>2, <2>1 DEF FreezeComplete, AcceptedWork, Pending
  <2>2. CASE state[j] = "absent" /\ binding'[j] = admission.op
    BY <1>2, <2>2
  <2> QED  BY <2>1, <2>2, StateStep
<1> QED  BY <1>1, <1>2, AdmissionChange

-----------------------------------------------------------------------------
\* The inductive invariant.
LEMMA Invariant == Spec => []IInv
<1>1. Init => IInv
  <2> SUFFICES ASSUME Init PROVE IInv
    OBVIOUS
  <2>1. TypeOK
    BY TypeInit
  <2>2. \A i \in Items : ItemOK(i)
    BY BoundsType DEF Init, ItemOK, Consistent, Accounted, WithinBudget, NoticesTrue
  <2>3. FreezeComplete /\ SealedHeld
    BY DEF Init, NoAdmission, FreezeComplete, SealedHeld
  <2> QED  BY <2>1, <2>2, <2>3 DEF IInv
<1>2. IInv /\ [Next]_vars => IInv'
  <2> SUFFICES ASSUME IInv, [Next]_vars PROVE IInv'
    OBVIOUS
  <2> USE DEF IInv
  <2>1. TypeOK'
    BY TypeStep
  <2>2. \A i \in Items : ItemOK(i)'
    BY ItemsStep
  <2>3. FreezeComplete' /\ SealedHeld'
    BY <2>1, FreezeStep, AdmissionChange
  <2> QED  BY <2>1, <2>2, <2>3
<1> QED  BY <1>1, <1>2, PTL DEF Spec

\* Every variable keeps its type, through every claim, outcome, resolution,
\* admission and crash.
THEOREM TypeCorrect == Spec => []TypeOK
<1>1. IInv => TypeOK
  BY DEF IInv
<1> QED  BY <1>1, Invariant, PTL

\* No recovery path authorises an attempt: each one after the first is paid for
\* by a reported failure or by a decision of the user, for any number of items,
\* attempts, crashes and decisions.
THEOREM AttemptsAreAccounted == Spec => []AttemptsAccounted
<1>1. IInv => AttemptsAccounted
  BY DEF IInv, ItemOK, AttemptsAccounted
<1> QED  BY <1>1, Invariant, PTL

\* The attempt policy of decideDeliveryAttemptOutcomePolicy and
\* authorizationMatches: the budget is kept, and makeAttemptStarted never
\* throws for an item it is offered.
THEOREM BudgetIsRespected == Spec => []BudgetRespected
<1>1. IInv => BudgetRespected
  BY DEF IInv, ItemOK, BudgetRespected
<1> QED  BY <1>1, Invariant, PTL

\* An attempt whose transport made no promise about repetitions is handed to a
\* sender at most once, whatever crashes come between.
THEOREM HandedOut == Spec => []HandedOutOnce
<1>1. IInv => HandedOutOnce
  BY DEF IInv, ItemOK, HandedOutOnce
<1> QED  BY <1>1, Invariant, PTL

\* The status notices and the uncertain attempts agree.
THEOREM NoticesAgree == Spec => []NoticesMatchOpenFacts
<1>1. IInv => NoticesMatchOpenFacts
  BY DEF IInv, ItemOK, NoticesMatchOpenFacts
<1> QED  BY <1>1, Invariant, PTL

\* A lifecycle operation that holds the admission answers for every pending
\* delivery.
THEOREM FreezeIsComplete == Spec => []FreezeComplete
<1>1. IInv => FreezeComplete
  BY DEF IInv
<1> QED  BY <1>1, Invariant, PTL

\* Terminal records are final.
THEOREM TerminalStaysFinal == Spec => TerminalIsFinal
<1>1. TypeOK /\ [Next]_vars =>
        [\A i \in Items : state[i] \in TerminalStates => state'[i] = state[i]]_vars
  BY StateStep DEF TerminalStates, PendingStates
<1> QED  BY <1>1, TypeCorrect, PTL DEF Spec, TerminalIsFinal

\* A sealed admission refuses every enqueue.
LEMMA SealedStep ==
  ASSUME TypeOK, SealedHeld, [Next]_vars, admission.sealed = TRUE
  PROVE  Pending' \subseteq Pending
  BY StateStep DEF Pending, SealedHeld

\* Sealed admissions let nothing in, so an empty settlement stays empty.
THEOREM SealedShrinks == Spec => SealedOnlyShrinks
<1>1. IInv /\ [Next]_vars =>
        [admission.sealed /\ admission'.op = admission.op => Pending' \subseteq Pending]_vars
  <2> SUFFICES ASSUME IInv, [Next]_vars, admission.sealed
               PROVE  Pending' \subseteq Pending
    OBVIOUS
  <2>1. admission.sealed = TRUE
    BY DEF IInv, TypeOK, Admissions
  <2> QED  BY <2>1, SealedStep DEF IInv
<1> QED  BY <1>1, Invariant, PTL DEF Spec, SealedOnlyShrinks
=============================================================================
