-------------------------- MODULE ConfirmationBroker ---------------------------
(***************************************************************************)
(* packages/core/src/confirmation/broker.ts with the subscription of       *)
(* owner-kernel/src/confirmation-hub.ts: tool calls that ask the user for  *)
(* a confirmation are queued, shown one after the other, and settled by a  *)
(* surface, the non-interactive resolver, a cancel or the expiry timer.    *)
(*                                                                         *)
(* A broker with a lifecycle observer (observed) makes every settlement    *)
(* durable first: afterResolved is awaited and may fail.  Without one a    *)
(* request settles in the step that decides it.  An action is a maximal    *)
(* synchronous run between two awaits; the observer is external.           *)
(*                                                                         *)
(* Every request id is used once (they are random UUIDs), so the duplicate *)
(* check and the grace period of resolvedRecent are left out.  So is the   *)
(* branch of expire() for a request that is already resolving: every way   *)
(* to get there clears the timer.                                          *)
(***************************************************************************)
EXTENDS Naturals, Sequences, SequencesExt, FiniteSets

CONSTANTS
    Ids,        \* confirmation request ids
    Decisions,  \* decisions a surface can take
    Causes,     \* CancelCause
    NoCause,
    MaxDepth    \* maxQueueDepth

ASSUME BrokerAssumption ==
    /\ NoCause \notin Causes
    \* kinds of decision are told apart
    /\ Causes \cap {"auto", "expired", "backpressure"} = {}
    /\ (Decisions \cup Causes) \cap {"open", "rejected", "declined"} = {}
    /\ MaxDepth \in Nat \ {0}

VARIABLES
    observed,   \* lifecycleObserver is configured
    phase,      \* where each request is
    queue,      \* queue: ids waiting to be shown or being shown
    cause,      \* admitting[id].cause
    terminal,   \* entry.terminal, or the settlement requestConfirmation awaits
    deferred,   \* cause of entry.deferredTerminal
    timer,      \* entry.expireTimer is armed
    outcome,    \* how the promise of requestConfirmation settled
    listening,  \* requestListeners and resolvedListeners: the hub is attached
    told,       \* requests the hub announced to its clients and did not withdraw
    acked,      \* history: decisions for which afterResolved succeeded
    cancelled,  \* history: requests for which cancel() returned true
    swept       \* history: requests in hand at a cancelAll()

requests == <<phase, queue, cause, terminal, deferred, timer, outcome>>
vars     == <<observed, requests, listening, told, acked, cancelled, swept>>

Phases == {"none", "admitting", "queued", "showing", "resolving", "ending", "done"}
Unasked == {"auto", "expired", "declined", "backpressure"}
Final  == Decisions \cup Causes \cup Unasked
Terminal(d, src, again) == [decision |-> d, source |-> src, requeue |-> again]
NoTerminal == Terminal("open", "none", FALSE)
Terminals  == [decision : Final \cup {"open"}, requeue : BOOLEAN,
               source : {"none", "surface", "non-interactive", "cancel", "expired", "backpressure"}]

Pending == {id \in Ids : phase[id] \in {"queued", "showing", "resolving"}}

Init ==
    /\ observed \in BOOLEAN
    /\ phase = [id \in Ids |-> "none"]
    /\ queue = <<>>
    /\ cause = [id \in Ids |-> NoCause]
    /\ terminal = [id \in Ids |-> NoTerminal]
    /\ deferred = [id \in Ids |-> NoCause]
    /\ timer = [id \in Ids |-> FALSE]
    /\ outcome = [id \in Ids |-> "open"]
    /\ listening \in BOOLEAN
    /\ told = {}
    /\ acked = [id \in Ids |-> {}]
    /\ cancelled = {}
    /\ swept = {}

-----------------------------------------------------------------------------
\* Mutant of ShowHead: the queue moves on, nobody is told.
ShowNothing(q, ph, t) == queue' = q /\ phase' = ph /\ told' = t

\* showHead() over the queue q, where the requests are in the phases ph and the
\* clients have been told t.
ShowHead(q, ph, t) ==
    /\ queue' = q
    /\ IF q # <<>> /\ ph[Head(q)] # "showing"
         THEN /\ phase' = [ph EXCEPT ![Head(q)] = "showing"]
              /\ told' = IF listening THEN t \cup {Head(q)} ELSE t
         ELSE phase' = ph /\ told' = t

\* removeFromQueue, for every request of S.
Without(q, S) ==
    LET kept[i \in 0 .. Len(q)] ==
            IF i = 0 THEN <<>>
            ELSE IF q[i] \in S THEN kept[i - 1] ELSE Append(kept[i - 1], q[i])
    IN  kept[Len(q)]

Withdrawn(S) == IF listening THEN told \ S ELSE told    \* onResolved, from markResolved

\* The requests of S leave the pending map and their promises settle.
\* completeImmediately, and the end of commitTerminal.
Finished(S) == [id \in Ids |-> IF id \in S THEN "done" ELSE phase[id]]

-----------------------------------------------------------------------------
(* requestConfirmation. *)

\* The settlement of a request that never enters the queue.
EndOutside(id, t) ==
    /\ IF observed
         THEN /\ phase' = [phase EXCEPT ![id] = "ending"]
              /\ terminal' = [terminal EXCEPT ![id] = t]
              /\ UNCHANGED <<outcome, told>>
         ELSE /\ phase' = Finished({id})
              /\ outcome' = [outcome EXCEPT ![id] = t.decision]
              /\ told' = Withdrawn({id})
              /\ UNCHANGED terminal
    /\ UNCHANGED <<queue, timer>>

\* pending.size >= maxQueueDepth
Full == Cardinality(Pending) >= MaxDepth

\* Steps 2 to 4, in one synchronous run.
Enter(id, durable) ==
    /\ \/ /\ ~listening /\ ~durable
          /\ EndOutside(id, Terminal("auto", "non-interactive", FALSE))
       \/ /\ listening \/ durable
          /\ Full
          /\ EndOutside(id, Terminal("backpressure", "backpressure", FALSE))
       \/ /\ listening \/ durable
          /\ ~Full
          /\ timer' = [timer EXCEPT ![id] = TRUE]
          /\ IF queue = <<>>
               THEN ShowHead(<<id>>, [phase EXCEPT ![id] = "queued"], told)
               ELSE /\ phase' = [phase EXCEPT ![id] = "queued"]
                    /\ queue' = Append(queue, id)
                    /\ UNCHANGED told
          /\ UNCHANGED <<terminal, outcome>>
    /\ UNCHANGED <<observed, cause, deferred, listening, acked, cancelled, swept>>

\* With an observer: admitting.set, and the await of beforeRequest.
RequestConfirmation(id) ==
    /\ phase[id] = "none"
    /\ \/ ~observed /\ Enter(id, FALSE)
       \/ /\ observed
          /\ phase' = [phase EXCEPT ![id] = "admitting"]
          /\ UNCHANGED <<observed, queue, cause, terminal, deferred, timer, outcome,
                         listening, told, acked, cancelled, swept>>

\* beforeRequest accepts, and the answer may be routed durably to this broker.
AdmissionAccepted(id, durable) ==
    /\ phase[id] = "admitting"
    /\ \/ cause[id] = NoCause /\ Enter(id, durable)
       \/ /\ cause[id] # NoCause
          /\ EndOutside(id, Terminal(cause[id], "cancel", FALSE))
          /\ UNCHANGED <<observed, cause, deferred, listening, acked, cancelled, swept>>

\* beforeRequest declines with a decision, or throws.
AdmissionRefused(id, how) ==
    /\ phase[id] = "admitting"
    /\ phase' = Finished({id})
    /\ outcome' = [outcome EXCEPT ![id] = how]
    /\ told' = IF how = "declined" THEN Withdrawn({id}) ELSE told
    /\ UNCHANGED <<observed, queue, cause, terminal, deferred, timer, listening,
                   acked, cancelled, swept>>

\* afterResolved returns for a request that never entered the queue.
EndingReturns(id, ok) ==
    /\ phase[id] = "ending"
    /\ phase' = Finished({id})
    /\ outcome' = [outcome EXCEPT ![id] = IF ok THEN terminal[id].decision ELSE "rejected"]
    /\ acked' = [acked EXCEPT ![id] = IF ok THEN @ \cup {terminal[id].decision} ELSE @]
    /\ told' = IF ok THEN Withdrawn({id}) ELSE told
    /\ terminal' = [terminal EXCEPT ![id] = NoTerminal]
    /\ UNCHANGED <<observed, queue, cause, deferred, timer, listening, cancelled, swept>>

-----------------------------------------------------------------------------
(* Settling a pending request. *)

\* A pending request without a terminal gets the terminal t: completeImmediately,
\* or startTerminal and commitTerminal up to the await.
Settle(id, t) ==
    /\ id \in Pending /\ terminal[id] = NoTerminal
    /\ timer' = [timer EXCEPT ![id] = FALSE]
    /\ IF observed
         THEN /\ phase' = [phase EXCEPT ![id] = "resolving"]
              /\ queue' = Without(queue, {id})
              /\ terminal' = [terminal EXCEPT ![id] = t]
              /\ UNCHANGED <<outcome, told>>
         ELSE /\ ShowHead(Without(queue, {id}), Finished({id}), Withdrawn({id}))
              /\ outcome' = [outcome EXCEPT ![id] = t.decision]
              /\ UNCHANGED terminal
    /\ UNCHANGED <<observed, cause, deferred, listening, acked, cancelled, swept>>

Resolve(id, d)            == Settle(id, Terminal(d, "surface", FALSE))
ResolveDurably(id, d)     == Settle(id, Terminal(d, "surface", TRUE))
ResolveNonInteractive(id) == Settle(id, Terminal("auto", "non-interactive", TRUE))

\* Mutant of Expire: no expiry once shown.
ExpireWhileQueued(id) ==
    timer[id] /\ phase[id] = "queued" /\ Settle(id, Terminal("expired", "expired", FALSE))

\* The timer of the request.
Expire(id) == timer[id] /\ Settle(id, Terminal("expired", "expired", FALSE))

\* Mutant of CommitSucceeds: the cancel that came meanwhile wins.
CommitYields(id) ==
    /\ phase[id] = "resolving"
    /\ outcome' = [outcome EXCEPT
            ![id] = IF deferred[id] = NoCause THEN terminal[id].decision ELSE deferred[id]]
    /\ acked' = [acked EXCEPT ![id] = @ \cup {terminal[id].decision}]
    /\ terminal' = [terminal EXCEPT ![id] = NoTerminal]
    /\ deferred' = [deferred EXCEPT ![id] = NoCause]
    /\ ShowHead(queue, Finished({id}), Withdrawn({id}))
    /\ UNCHANGED <<observed, cause, timer, listening, cancelled, swept>>

\* commitTerminal after afterResolved succeeded ...
CommitSucceeds(id) ==
    /\ phase[id] = "resolving"
    /\ outcome' = [outcome EXCEPT ![id] = terminal[id].decision]
    /\ acked' = [acked EXCEPT ![id] = @ \cup {terminal[id].decision}]
    /\ terminal' = [terminal EXCEPT ![id] = NoTerminal]
    /\ deferred' = [deferred EXCEPT ![id] = NoCause]
    /\ ShowHead(queue, Finished({id}), Withdrawn({id}))
    /\ UNCHANGED <<observed, cause, timer, listening, cancelled, swept>>

\* ... and after it failed: the deferred cancel takes over, the request goes
\* back to the front of the queue, or its promise is rejected.
CommitFails(id) ==
    /\ phase[id] = "resolving"
    /\ \/ /\ deferred[id] # NoCause
          /\ terminal' = [terminal EXCEPT ![id] = Terminal(deferred[id], "cancel", FALSE)]
          /\ UNCHANGED <<phase, queue, told, timer, outcome>>
       \/ /\ deferred[id] = NoCause /\ terminal[id].requeue
          /\ terminal' = [terminal EXCEPT ![id] = NoTerminal]
          /\ timer' = [timer EXCEPT ![id] = TRUE]
          /\ ShowHead(<<id>> \o queue, [phase EXCEPT ![id] = "queued"], told)
          /\ UNCHANGED outcome
       \/ /\ deferred[id] = NoCause /\ ~terminal[id].requeue
          /\ terminal' = [terminal EXCEPT ![id] = NoTerminal]
          /\ outcome' = [outcome EXCEPT ![id] = "rejected"]
          /\ ShowHead(queue, Finished({id}), told)
          /\ UNCHANGED timer
    /\ deferred' = [deferred EXCEPT ![id] = NoCause]
    /\ UNCHANGED <<observed, cause, listening, acked, cancelled, swept>>

-----------------------------------------------------------------------------
(* Cancelling. *)

\* Mutant of Deciding: a cancel does not wait for the recording to fail.
DecidingNone(S) == {}

Fresh(S) == {id \in S \cap Pending : terminal[id] = NoTerminal}
Deciding(S) == {id \in S \cap Pending : terminal[id].source = "surface"}

\* admitting: up to the end of the settlement of a cancelled admission.
Admitting ==
    {id \in Ids : phase[id] = "admitting" \/ (phase[id] = "ending" /\ terminal[id].source = "cancel")}

\* What cancel(id, c) answers.
Accepts(id, c) ==
    CASE id \in Admitting -> cause[id] \in {NoCause, c}
      [] phase[id] \in {"queued", "showing"} -> TRUE
      [] phase[id] = "resolving" -> terminal[id].source = "surface" \/ terminal[id].decision = c
      [] OTHER -> FALSE

\* cancel(id, c) for every id of S.  A request whose decision by a surface is
\* being recorded keeps the cancel for the case that the recording fails.
CancelEach(S, c) ==
    /\ cause' = [id \in Ids |-> IF id \in S \cap Admitting /\ cause[id] = NoCause
                                  THEN c ELSE cause[id]]
    /\ timer' = [id \in Ids |-> timer[id] /\ id \notin Fresh(S)]
    /\ IF observed
         THEN /\ phase' = [id \in Ids |-> IF id \in Fresh(S) THEN "resolving" ELSE phase[id]]
              /\ queue' = Without(queue, S)
              /\ terminal' = [id \in Ids |-> IF id \in Fresh(S)
                                               THEN Terminal(c, "cancel", FALSE) ELSE terminal[id]]
              /\ deferred' = [id \in Ids |-> IF id \in Deciding(S) /\ deferred[id] = NoCause
                                               THEN c ELSE deferred[id]]
              /\ UNCHANGED <<outcome, told>>
         ELSE /\ ShowHead(Without(queue, S), Finished(Fresh(S)), Withdrawn(Fresh(S)))
              /\ outcome' = [id \in Ids |-> IF id \in Fresh(S) THEN c ELSE outcome[id]]
              /\ UNCHANGED <<terminal, deferred>>
    /\ cancelled' = cancelled \cup {id \in S : Accepts(id, c)}
    /\ UNCHANGED <<observed, acked>>

InHand == Pending \cup Admitting

Cancel(id, c) ==
    /\ id \in InHand
    /\ CancelEach({id}, c)
    /\ UNCHANGED <<listening, swept>>

CancelAll(c) ==
    /\ CancelEach(InHand, c)
    /\ swept' = swept \cup InHand
    /\ UNCHANGED listening

\* Mutant of Detach: unsubscribe, then cancelAll.
DetachFirst(c) ==
    /\ listening /\ ~observed
    /\ phase' = Finished(Fresh(InHand)) /\ queue' = <<>>
    /\ timer' = [id \in Ids |-> FALSE]
    /\ outcome' = [id \in Ids |-> IF id \in Fresh(InHand) THEN c ELSE outcome[id]]
    /\ listening' = FALSE
    /\ UNCHANGED <<observed, cause, terminal, deferred, told, acked, cancelled, swept>>

\* ConfirmationHub.attach and detach: cancelAll, then unsubscribe.
Attach ==
    /\ ~listening
    /\ listening' = TRUE
    /\ UNCHANGED <<observed, requests, told, acked, cancelled, swept>>

Detach(c) ==
    /\ listening
    /\ CancelEach(InHand, c)
    /\ swept' = swept \cup InHand
    /\ listening' = FALSE

-----------------------------------------------------------------------------
Next ==
    \/ \E id \in Ids : RequestConfirmation(id)
    \/ \E id \in Ids, durable \in BOOLEAN : AdmissionAccepted(id, durable)
    \/ \E id \in Ids, how \in {"declined", "rejected"} : AdmissionRefused(id, how)
    \/ \E id \in Ids, ok \in BOOLEAN : EndingReturns(id, ok)
    \/ \E id \in Ids, d \in Decisions : Resolve(id, d)
    \/ \E id \in Ids, d \in Decisions : ResolveDurably(id, d)
    \/ \E id \in Ids : ResolveNonInteractive(id)
    \/ \E id \in Ids : Expire(id)
    \/ \E id \in Ids : CommitSucceeds(id)
    \/ \E id \in Ids : CommitFails(id)
    \/ \E id \in Ids, c \in Causes : Cancel(id, c)
    \/ \E c \in Causes : CancelAll(c)
    \/ Attach
    \/ \E c \in Causes : Detach(c)

Spec == Init /\ [][Next]_vars

\* The observer answers, one way or the other.  Timers fire; a request that was
\* put back has its timer armed again for what is left of the same deadline, so
\* a surface cannot keep winning against it for ever.
Fairness ==
    \A id \in Ids :
        /\ WF_vars(\/ \E durable \in BOOLEAN : AdmissionAccepted(id, durable)
                   \/ \E how \in {"declined", "rejected"} : AdmissionRefused(id, how)
                   \/ \E ok \in BOOLEAN : EndingReturns(id, ok)
                   \/ CommitSucceeds(id) \/ CommitFails(id))
        /\ SF_vars(Expire(id))

FairSpec == Spec /\ Fairness

-----------------------------------------------------------------------------
TypeOK ==
    /\ observed \in BOOLEAN
    /\ phase \in [Ids -> Phases]
    /\ queue \in Seq(Ids)
    /\ cause \in [Ids -> Causes \cup {NoCause}]
    /\ terminal \in [Ids -> Terminals]
    /\ deferred \in [Ids -> Causes \cup {NoCause}]
    /\ timer \in [Ids -> BOOLEAN]
    /\ outcome \in [Ids -> Final \cup {"open", "rejected"}]
    /\ listening \in BOOLEAN
    /\ told \subseteq Ids
    /\ acked \in [Ids -> SUBSET Final]
    /\ cancelled \subseteq Ids
    /\ swept \subseteq Ids

\* No request is forgotten in the queue: the queue holds the waiting requests,
\* each once and each with its expiry timer armed, and its head is shown unless
\* a settlement is under way whose end will show it (showHead in commitTerminal).
WaitersAttended ==
    /\ Range(queue) = {id \in Ids : phase[id] \in {"queued", "showing"}}
    /\ Len(queue) = Cardinality(Range(queue))
    /\ \A id \in Range(queue) : timer[id]
    /\ queue # <<>> => \/ phase[Head(queue)] = "showing"
                       \/ \E id \in Ids : phase[id] = "resolving"

\* The tool call acts on the decision that was made durable, and on no other:
\* of a surface's answer, a cancel and the expiry that meet, at most one is
\* acknowledged by the observer, and it is the one the promise settles with.
OneDecision ==
    \A id \in Ids :
        acked[id] = IF observed /\ outcome[id] \notin {"open", "rejected", "declined"}
                      THEN {outcome[id]} ELSE {}

\* A request whose cancel() was answered with true is not put in front of the
\* user again, whatever the observer does.
CancelledNeverShown ==
    \A id \in cancelled : phase[id] \notin {"queued", "showing"}

\* A broker without a durable observer: the dialogs of the clients are the requests
\* that are shown, also after the hub was detached (confirmation-hub.ts:140-160).
DialogsMatch == ~observed => told = {id \in Ids : phase[id] = "showing"}

\* Every request settles, in the worst case by its expiry.  An id is used once, so
\* this is the same as: again and again no request is open.
EveryRequestSettles == []<>(\A id \in Ids : phase[id] \in {"none", "done"})

\* The comment of cancelAll: requests being admitted and being settled belong
\* to the round too; none of them is put in front of the user afterwards.
SweptNeverShown ==
    \A id \in swept : phase[id] \notin {"queued", "showing"}
=============================================================================
