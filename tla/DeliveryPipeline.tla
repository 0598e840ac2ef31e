--------------------------- MODULE DeliveryPipeline ----------------------------
(***************************************************************************)
(* The effect driver of packages/core/src/delivery/authority-pipeline.ts   *)
(* on top of the durable lifecycle: it walks the claimable items in rounds *)
(* (drains), at most one at a time, and drives one item through claim,     *)
(* send and record.  Around it, the host's operations: activate, quiesce,  *)
(* settle accepted work, resume, stop, and the crash of the process.       *)
(*                                                                         *)
(* External is the endpoint: a send may reach it at any time after it was  *)
(* handed out, also after the sender gave up on it or the process died.    *)
(***************************************************************************)
EXTENDS DeliveryLifecycle

CONSTANTS
    Rank,      \* priority of an item: 0 is "high"
    NoItem,
    MaxCrashes \* bound: crashes of the process

ASSUME PipelineAssumption ==
    /\ Rank \in [Items -> Nat]
    /\ NoItem \notin Items
    /\ MaxCrashes \in Nat

VARIABLES
    pstate,   \* #state
    mode,     \* #activeFlush: none, a background or an explicit drain
    round,    \* items this drain has still to visit
    cur,      \* the item in #process
    step,     \* where #process is
    owner,    \* the host's settle / quiesce call that drives the pipeline
    transit,  \* external: sends that may still reach their endpoint
    copies,   \* external: messages the endpoint accepted, per item
    known,    \* external: attempts an idempotent endpoint has accepted
    crashes

driver   == <<pstate, mode, round, cur, step>>
external == <<transit, copies, known>>
pvars    == <<vars, driver, owner, external, crashes>>

PInit ==
    /\ Init
    /\ pstate = "unstarted"
    /\ mode = "none"
    /\ round = {}
    /\ cur = NoItem
    /\ step = "none"
    /\ owner = "none"
    /\ transit = {}
    /\ copies = [i \in Items |-> 0]
    /\ known = {}
    /\ crashes = 0

-----------------------------------------------------------------------------
(* Drains. *)

\* claimablePage: the ready and the due-retry directories.  Items that enter
\* them later have a log position above enteredThrough and wait for the next
\* drain; none leaves them but through this drain.
Claimable == {i \in Items : Ready(i) \/ state[i] = "attempting"}

\* #startDrain: a call that finds a drain merges into it.
StartDrain(m) ==
    \/ /\ mode = "none"
       /\ mode' = m
       /\ round' = Claimable
       /\ step' = "page"
       /\ UNCHANGED cur
    \/ /\ mode # "none"
       /\ UNCHANGED <<mode, round, step, cur>>

\* #mayContinue
MayContinue == IF mode = "explicit" THEN pstate # "stopped" ELSE pstate = "running"

\* By priority; within one priority the ready directory before the retries.
Before(i, j) ==
    \/ Rank[i] < Rank[j]
    \/ Rank[i] = Rank[j] /\ (state[i] = "retry-wait" => state[j] = "retry-wait")

PickItem(i) ==
    /\ step = "page" /\ MayContinue
    /\ i \in round /\ \A j \in round : Before(i, j)
    /\ round' = round \ {i}
    /\ cur' = i
    /\ step' = "process"
    /\ UNCHANGED <<vars, pstate, mode, owner, external, crashes>>

DrainEnds ==
    /\ step = "page"
    /\ round = {} \/ ~MayContinue
    /\ step' = "ended"
    /\ round' = {}
    /\ UNCHANGED <<vars, pstate, mode, cur, owner, external, crashes>>

\* Mutant of DrainCleared: #activeFlush is not cleared.
DrainKept ==
    /\ step = "ended"
    /\ step' = "none"
    /\ UNCHANGED <<vars, pstate, mode, round, cur, owner, external, crashes>>

\* The finally callback: only now may another drain start.
DrainCleared ==
    /\ step = "ended"
    /\ mode' = "none"
    /\ step' = "none"
    /\ UNCHANGED <<vars, pstate, round, cur, owner, external, crashes>>

NextItem == cur' = NoItem /\ step' = "page"

-----------------------------------------------------------------------------
(* #process. *)

\* No transport is ready, the content cannot be read now, or the evidence
\* check fails: the item stays as it is.
ProcessDefers ==
    /\ step = "process"
    /\ state[cur] # "attempting"
    /\ NextItem
    /\ UNCHANGED <<vars, pstate, mode, round, owner, external, crashes>>

ProcessPreflightFails(p) ==
    /\ step = "process"
    /\ PreflightFailure(cur, p)
    /\ NextItem
    /\ UNCHANGED <<pstate, mode, round, owner, external, crashes>>

HandOver ==
    /\ step' = "sending"
    /\ transit' = transit \cup {<<cur, attempt'[cur], policy'[cur]>>}
    /\ UNCHANGED <<pstate, mode, round, cur, owner, copies, known, crashes>>

ProcessClaims(p) == step = "process" /\ ClaimReady(cur, p) /\ HandOver

ProcessRedrives == step = "process" /\ ClaimRedrive(cur) /\ HandOver

\* The claim says redrive, but no transport or content is at hand.
ProcessCannotRedrive ==
    /\ step = "process"
    /\ ClaimRedrive(cur)
    /\ NextItem
    /\ UNCHANGED <<pstate, mode, round, owner, external, crashes>>

ProcessFindsUncertain ==
    /\ step = "process"
    /\ ClaimUncertain(cur)
    /\ NextItem
    /\ UNCHANGED <<pstate, mode, round, owner, external, crashes>>

Send == <<cur, attempt[cur]>>

\* transport.send answers: success only for what the endpoint has accepted.
\* An exception (or the timeout of the outbox) leaves the outcome open.
SendAnswers(answer) ==
    /\ step = "sending"
    /\ answer = "answered-sent" => <<cur, attempt[cur], policy[cur]>> \notin transit
    /\ step' = answer
    /\ UNCHANGED <<vars, pstate, mode, round, cur, owner, external, crashes>>

\* Mutants of SendThrows: an exception is taken for a success, or the item is
\* put back into the queue without a record.
SendThrowsAsSent ==
    /\ step = "sending"
    /\ step' = "answered-sent"
    /\ UNCHANGED <<vars, pstate, mode, round, cur, owner, external, crashes>>

SendThrowsRequeues ==
    /\ step = "sending"
    /\ state' = [state EXCEPT ![cur] = "queued"]
    /\ NextItem
    /\ UNCHANGED <<now, attempt, autoUsed, manualRetry, nextAt, policy, redriveUntil, binding,
                   announced, closed, claims, admission, history,
                   pstate, mode, round, owner, external, crashes>>

SendThrows ==
    /\ step = "sending"
    /\ NextItem
    /\ UNCHANGED <<vars, pstate, mode, round, owner, external, crashes>>

ProcessRecords ==
    /\ \/ step = "answered-sent" /\ RecordSent(Send)
       \/ step = "answered-retryable" /\ RecordRetry(Send)
       \/ step = "answered-retryable" /\ RecordFailed(Send, TRUE)
       \/ step = "answered-permanent" /\ RecordFailed(Send, FALSE)
    /\ NextItem
    /\ UNCHANGED <<pstate, mode, round, owner, external, crashes>>

\* External: the endpoint accepts a send.  One that promised idempotence takes
\* the repetition of an attempt for what it is.
EndpointAccepts(t) ==
    /\ t \in transit
    /\ transit' = transit \ {t}
    /\ IF t[3] = "idempotent-redrive"
         THEN /\ known' = known \cup {<<t[1], t[2]>>}
              /\ copies' = [copies EXCEPT ![t[1]] = IF <<t[1], t[2]>> \in known THEN @ ELSE @ + 1]
         ELSE /\ copies' = [copies EXCEPT ![t[1]] = @ + 1]
              /\ UNCHANGED known
    /\ UNCHANGED <<vars, driver, owner, crashes>>

-----------------------------------------------------------------------------
(* Operations of the host. *)

Transition(from, to) ==
    /\ pstate = from
    /\ pstate' = to
    /\ UNCHANGED <<vars, external, crashes>>

Prepare == Transition("unstarted", "prepared") /\ UNCHANGED <<mode, round, cur, step, owner>>

Activate ==
    \/ Transition("prepared", "running") /\ StartDrain("background") /\ UNCHANGED owner
    \/ Transition("prepared-paused", "quiesced") /\ UNCHANGED <<mode, round, cur, step, owner>>

\* The interval timer of #startFlushTimer.
TimerFlush ==
    /\ pstate = "running" /\ mode = "none"
    /\ StartDrain("background")
    /\ UNCHANGED <<vars, pstate, owner, external, crashes>>

Closed(s) == CASE s = "running" -> "quiesced"
               [] s = "prepared" -> "prepared-paused"
               [] OTHER -> s

CloseAdmission ==
    /\ pstate \in {"running", "prepared"}
    /\ pstate' = Closed(pstate)
    /\ UNCHANGED <<vars, mode, round, cur, step, owner, external, crashes>>

\* closeAdmission() and waitForQuiescedEffects(), called to settle accepted
\* work (settleAcceptedWork) or to hand the authority over
\* (quiesceForAuthorityTransfer).
QuiesceBegins(call) ==
    /\ owner = "none"
    /\ pstate \in {"running", "quiesced"} \/ (call = "settle" /\ pstate \in {"prepared", "prepared-paused"})
    /\ call = "settle" => admission.op # NoOp
    /\ pstate' = Closed(pstate)
    /\ owner' = IF call = "settle" THEN "settle-wait" ELSE "transfer-wait"
    /\ UNCHANGED <<vars, mode, round, cur, step, external, crashes>>

\* Mutant of QuiesceReturns: it does not wait for the drain.
QuiesceReturnsAtOnce ==
    /\ owner \in {"settle-wait", "transfer-wait"}
    /\ owner' = "quiet"
    /\ UNCHANGED <<vars, driver, external, crashes>>

\* waitForQuiescedEffects() returns: the transfer, and a settlement with the
\* strategy "immediate", are through.
QuiesceReturns ==
    /\ owner \in {"settle-wait", "transfer-wait"}
    /\ mode = "none"
    /\ owner' = "quiet"
    /\ UNCHANGED <<vars, driver, external, crashes>>

\* settleAcceptedWork with "drain" or "cancel": flushQuiescedOnce(), after the
\* drain that is coming to its end.
SettleFlushes ==
    /\ owner = "settle-wait"
    /\ mode = "none"
    /\ \/ /\ pstate \in {"quiesced", "prepared-paused"}
          /\ StartDrain("explicit")
          /\ owner' = "settle-drain"
       \/ /\ pstate \notin {"quiesced", "prepared-paused"}   \* it throws
          /\ owner' = "none"
          /\ UNCHANGED <<mode, round, cur, step>>
    /\ UNCHANGED <<vars, pstate, external, crashes>>

\* The explicit drain is over: accepted work is empty (return), an uncertain
\* delivery or the deadline ends the settlement (throw), or another turn.  The
\* result lasts ("settled") when the producers had been sealed before.
SettleChecks ==
    /\ owner = "settle-drain"
    /\ mode = "none"
    /\ \/ admission.op # NoOp /\ AcceptedWork = {}
              /\ owner' = IF admission.sealed THEN "settled" ELSE "quiet"
       \/ admission.op # NoOp /\ AcceptedWork # {} /\ owner' \in {"none", "settle-wait"}
              /\ (owner' = "settle-wait" => \A i \in Items : state[i] # "uncertain")
       \/ admission.op = NoOp /\ owner' = "none"
    /\ UNCHANGED <<vars, driver, external, crashes>>

Resume ==
    /\ owner \in {"none", "quiet", "settled"}
    /\ \/ Transition("quiesced", "running") /\ StartDrain("background")
       \/ Transition("prepared-paused", "prepared") /\ UNCHANGED <<mode, round, cur, step>>
    /\ owner' = "none"

Stop ==
    /\ \E s \in {"running", "prepared", "prepared-paused", "quiesced"} : Transition(s, "stopped")
    /\ UNCHANGED <<mode, round, cur, step, owner>>

\* The process dies and is started again: a new pipeline over the same log.
ProcessCrash ==
    /\ crashes < MaxCrashes
    /\ crashes' = crashes + 1
    /\ Crash
    /\ pstate' = "unstarted"
    /\ mode' = "none"
    /\ round' = {}
    /\ cur' = NoItem
    /\ step' = "none"
    /\ owner' = "none"
    /\ UNCHANGED external

\* Transactions of others that run between the driver's steps.
Environment ==
    /\ \/ \E i \in Items, src \in Sources : Enqueue(i, src)
       \/ \E i \in Items, a \in 1 .. (MaxAttempts + MaxDecisions),
             verdict \in {"verified-sent", "abandoned"} : ResolveFinally(i, a, verdict)
       \/ \E i \in Items, a \in 1 .. (MaxAttempts + MaxDecisions) : ResolveRetry(i, a)
       \/ Tick
    /\ UNCHANGED <<driver, owner, external, crashes>>

AdmissionStep ==
    /\ \/ \E op \in Ops, srcs \in SUBSET Sources, seal \in BOOLEAN : InstallAdmission(op, srcs, seal)
       \/ \E op \in Ops : SealAdmission(op)
    /\ UNCHANGED <<driver, owner, external, crashes>>

AdmissionReleased ==
    /\ \E op \in Ops : ReleaseAdmission(op)
    /\ owner' = IF owner = "settled" THEN "quiet" ELSE owner
    /\ UNCHANGED <<driver, external, crashes>>

DrainStep ==
    \/ \E i \in Items : PickItem(i)
    \/ DrainEnds
    \/ DrainCleared
    \/ ProcessFindsUncertain
    \/ ProcessRedrives
    \/ ProcessRecords

PNext ==
    \/ DrainStep
    \/ ProcessDefers
    \/ \E p \in Policies : ProcessPreflightFails(p)
    \/ \E p \in Policies : ProcessClaims(p)
    \/ ProcessCannotRedrive
    \/ \E answer \in {"answered-sent", "answered-retryable", "answered-permanent"} : SendAnswers(answer)
    \/ SendThrows
    \/ \E t \in transit : EndpointAccepts(t)
    \/ Prepare
    \/ Activate
    \/ TimerFlush
    \/ CloseAdmission
    \/ \E call \in {"settle", "transfer"} : QuiesceBegins(call)
    \/ QuiesceReturns
    \/ SettleFlushes
    \/ SettleChecks
    \/ Resume
    \/ Stop
    \/ ProcessCrash
    \/ Environment
    \/ AdmissionStep
    \/ AdmissionReleased

PSpec == PInit /\ [][PNext]_pvars

\* The event loop runs what is runnable, the interval timer fires, sends come
\* to an end (Outbox), and a transport that is ready again and again is at some
\* time ready when its item is processed.
PFairness ==
    /\ WF_pvars(DrainStep)
    /\ WF_pvars(TimerFlush)
    /\ WF_pvars(SendThrows \/ \E answer \in {"answered-sent", "answered-retryable", "answered-permanent"} :
                                SendAnswers(answer))
    /\ WF_pvars(step = "process" /\ (ProcessDefers \/ \E p \in Policies : ProcessClaims(p)))
    /\ \A i \in Items : SF_pvars(cur = i /\ \E p \in Policies : ProcessClaims(p))

PFairSpec == PSpec /\ PFairness

-----------------------------------------------------------------------------

\* The recipient never gets a second copy on the system's own account: beyond
\* the first, every copy is paid for by a failure that the transport reported
\* as retryable or by a decision of the user.  Crashes before, during and
\* after the send, lost answers and sends that arrive late are no exception.
NeverDuplicatedOnItsOwn ==
    \A i \in Items : copies[i] <= 1 + retried[i] + decided[i]

\* A delivery recorded as sent has reached its endpoint.
SentMeansArrived ==
    \A i \in Items : state[i] = "sent" => copies[i] >= 1

\* Once a quiesce call has returned there is no drain, so no claim and no send,
\* until the host resumes: the flush timer, a merged flush and the drain that
\* was ending are all through.
QuietMeansNoEffects ==
    owner \in {"quiet", "settled"} => mode = "none" /\ cur = NoItem /\ pstate # "running"

\* settleAcceptedWork returns under a sealed admission only when no delivery is
\* pending, and this stays so until the admission is released: the host may
\* then erase the device or hand over the authority.
SettledMeansEmpty == owner = "settled" => Pending = {}

\* The driver takes only steps that the durable lifecycle allows.
ImplementsLifecycle == Spec

\* While the pipeline runs, an accepted delivery is driven to an end, or to the
\* user as uncertain; it is not skipped for ever by the bound of the rounds, by
\* merged flushes or by the deliveries of higher priority.
EveryDeliveryDriven ==
    \A i \in Items :
        (state[i] \in {"queued", "retry-wait", "attempting"} /\ pstate = "running")
            ~> (state[i] \in TerminalStates \cup {"uncertain"} \/ pstate # "running")
=============================================================================
