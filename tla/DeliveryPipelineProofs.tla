------------------------- MODULE DeliveryPipelineProofs ------------------------
(***************************************************************************)
(* The effect driver implements the durable lifecycle, and what its host   *)
(* relies on when it quiesces and settles it, for every value of the       *)
(* constants; the recipient never gets a second copy on the system's own   *)
(* account, for any number of items, attempts, crashes and late arrivals.  *)
(***************************************************************************)
EXTENDS DeliveryPipeline, DeliveryLifecycleProofs, FiniteSetTheorems

Sending == {"sending", "answered-sent", "answered-retryable", "answered-permanent"}

(* Where the driver is.  A send it waits for is one that was handed out in this
   process: this is why every outcome it records is an outcome the lifecycle
   may record. *)
DriverOK ==
    /\ round \subseteq Items
    /\ step \in {"none", "page", "ended", "process"} \cup Sending
    /\ step \in {"process"} \cup Sending => cur \in Items
    /\ step \in {"none", "page", "ended"} => cur = NoItem
    /\ step \in Sending => <<cur, attempt[cur]>> \in claims
    /\ mode = "none" <=> step = "none"

-----------------------------------------------------------------------------
\* Initially the driver rests.
LEMMA DriverInit == PInit => DriverOK
  BY DEF PInit, DriverOK, Sending

\* A step of the driver or of its host is a step of the lifecycle or leaves all
\* of its variables alone.
LEMMA StepRefines ==
  ASSUME DriverOK, [PNext]_pvars
  PROVE  [Next]_vars
<1>1. CASE UNCHANGED vars
  BY <1>1
<1>2. CASE \E p \in Policies : ProcessPreflightFails(p) \/ ProcessClaims(p)
  <2>1. PICK p \in Policies : PreflightFailure(cur, p) \/ ClaimReady(cur, p)
    BY <1>2 DEF ProcessPreflightFails, ProcessClaims
  <2>2. cur \in Items
    BY <1>2 DEF ProcessPreflightFails, ProcessClaims, DriverOK
  <2> QED  BY <2>1, <2>2 DEF Next
<1>3. CASE ProcessRedrives \/ ProcessCannotRedrive \/ ProcessFindsUncertain
  <2>1. cur \in Items /\ (ClaimRedrive(cur) \/ ClaimUncertain(cur))
    BY <1>3 DEF ProcessRedrives, ProcessCannotRedrive, ProcessFindsUncertain, DriverOK
  <2> QED  BY <2>1 DEF Next
<1>4. CASE ProcessRecords
  <2>1. Send \in claims
    BY <1>4 DEF ProcessRecords, Send, DriverOK, Sending
  <2>2. \/ RecordSent(Send) \/ RecordRetry(Send)
        \/ \E r \in BOOLEAN : RecordFailed(Send, r)
    BY <1>4 DEF ProcessRecords
  <2> QED  BY <2>1, <2>2 DEF Next
<1>5. CASE ProcessCrash
  BY <1>5 DEF ProcessCrash, Next
<1>6. CASE Environment
  BY <1>6 DEF Environment, Next
<1>7. CASE AdmissionStep \/ AdmissionReleased
  BY <1>7 DEF AdmissionStep, AdmissionReleased, Next
<1> QED
  BY <1>1, <1>2, <1>3, <1>4, <1>5, <1>6, <1>7
     DEF PNext, DrainStep, PickItem, DrainEnds, DrainCleared, ProcessDefers, SendAnswers,
         SendThrows, EndpointAccepts, Prepare, Activate, Transition, TimerFlush, CloseAdmission,
         QuiesceBegins, QuiesceReturns, SettleFlushes, SettleChecks, Resume, Stop, pvars

\* Starting a drain, over whatever is claimable.
LEMMA StartDrainDriver ==
  ASSUME DriverOK, NEW m \in {"background", "explicit"}, StartDrain(m), UNCHANGED vars
  PROVE  DriverOK'
  BY DEF DriverOK, StartDrain, Claimable, Sending, vars, durable

\* The driver keeps its place through every step.
LEMMA DriverStep ==
  ASSUME TypeOK, DriverOK, [PNext]_pvars
  PROVE  DriverOK'
<1>1. CASE UNCHANGED <<mode, round, cur, step, attempt, claims>>
  BY <1>1 DEF DriverOK
<1>2. CASE \E i \in Items : PickItem(i)
  BY <1>2 DEF PickItem, DriverOK, Sending
<1>3. CASE DrainEnds \/ DrainCleared
  BY <1>3 DEF DrainEnds, DrainCleared, DriverOK, Sending
<1>4. CASE ProcessDefers \/ SendThrows
  BY <1>4 DEF ProcessDefers, SendThrows, NextItem, DriverOK, Sending
<1>5. CASE \E p \in Policies : ProcessPreflightFails(p)
  BY <1>5 DEF ProcessPreflightFails, NextItem, DriverOK, Sending
<1>6. CASE ProcessCannotRedrive \/ ProcessFindsUncertain \/ ProcessRecords
  BY <1>6 DEF ProcessCannotRedrive, ProcessFindsUncertain, ProcessRecords, NextItem, DriverOK, Sending
<1>7. CASE \E p \in Policies : ProcessClaims(p)
  BY <1>7 DEF TypeOK, ProcessClaims, ClaimReady, AttemptStarted, HandOver, DriverOK, Sending
<1>8. CASE ProcessRedrives
  BY <1>8 DEF ProcessRedrives, ClaimRedrive, HandOver, durable, DriverOK, Sending
<1>9. CASE \E answer \in {"answered-sent", "answered-retryable", "answered-permanent"} : SendAnswers(answer)
  BY <1>9 DEF SendAnswers, DriverOK, Sending, vars, durable
<1>10. CASE Activate \/ TimerFlush \/ SettleFlushes \/ Resume
  <2>1. UNCHANGED vars
    BY <1>10 DEF Activate, TimerFlush, SettleFlushes, Resume, Transition
  <2>2. \/ \E m \in {"background", "explicit"} : StartDrain(m)
        \/ UNCHANGED <<mode, round, cur, step>>
    BY <1>10 DEF Activate, TimerFlush, SettleFlushes, Resume
  <2> QED  BY <2>1, <2>2, <1>1, StartDrainDriver DEF vars, durable
<1>11. CASE ProcessCrash
  BY <1>11 DEF ProcessCrash, DriverOK, Sending
<1>12. CASE Environment
  BY <1>12, <1>1 DEF Environment, Enqueue, ResolveFinally, ResolveRetry, Tick, durable, driver
<1>13. CASE AdmissionStep \/ AdmissionReleased
  BY <1>13, <1>1 DEF AdmissionStep, AdmissionReleased, InstallAdmission, SealAdmission,
                     ReleaseAdmission, durable, driver
<1>14. CASE (\E t \in transit : EndpointAccepts(t)) \/ Prepare \/ CloseAdmission
             \/ (\E call \in {"settle", "transfer"} : QuiesceBegins(call))
             \/ QuiesceReturns \/ SettleChecks \/ Stop \/ UNCHANGED pvars
  BY <1>14, <1>1 DEF EndpointAccepts, Prepare, Transition, CloseAdmission, QuiesceBegins,
                     QuiesceReturns, SettleChecks, Stop, pvars, driver, vars, durable
<1> QED
  BY <1>2, <1>3, <1>4, <1>5, <1>6, <1>7, <1>8, <1>9, <1>10, <1>11, <1>12, <1>13, <1>14
     DEF PNext, DrainStep

\* The types of the lifecycle and the place of the driver, along every behaviour.
LEMMA DriverInvariant == PSpec => [](TypeOK /\ DriverOK)
<1>1. PInit => TypeOK /\ DriverOK
  BY TypeInit, DriverInit DEF PInit
<1>2. (TypeOK /\ DriverOK) /\ [PNext]_pvars => (TypeOK /\ DriverOK)'
  BY StepRefines, TypeStep, DriverStep
<1> QED  BY <1>1, <1>2, PTL DEF PSpec

\* The driver implements the durable lifecycle: with any number of drains,
\* crashes and host operations it takes no step that the transactions of the
\* authority do not allow.
THEOREM PipelineImplements == PSpec => ImplementsLifecycle
<1>1. PInit => Init
  BY DEF PInit
<1>2. DriverOK /\ [PNext]_pvars => [Next]_vars
  BY StepRefines
<1> QED  BY <1>1, <1>2, DriverInvariant, PTL DEF PSpec, ImplementsLifecycle, Spec

-----------------------------------------------------------------------------
(* The host.  While one of its calls drives the pipeline, or has returned and
   the host did not resume, no background drain can start; a lasting settlement
   keeps the admission sealed that makes it last. *)
HostOK ==
    /\ pstate \in {"unstarted", "prepared", "prepared-paused", "running", "quiesced", "stopped"}
    /\ owner \in {"none", "settle-wait", "settle-drain", "transfer-wait", "quiet", "settled"}
    /\ owner # "none" => pstate \in {"quiesced", "prepared-paused", "stopped"}
    /\ owner \in {"quiet", "settled"} => mode = "none"

SettlementOK ==
    owner = "settled" => admission.op # NoOp /\ admission.sealed = TRUE /\ Pending = {}

\* The calls of the host, and the drains they allow.
LEMMA HostStep ==
  ASSUME DriverOK, HostOK, [PNext]_pvars
  PROVE  HostOK'
<1>1. CASE UNCHANGED <<pstate, mode, owner>>
  BY <1>1 DEF HostOK
<1>2. CASE DrainCleared
  BY <1>2 DEF DrainCleared, HostOK
<1>3. CASE Prepare \/ Activate \/ TimerFlush
  BY <1>3 DEF Prepare, Activate, TimerFlush, Transition, StartDrain, HostOK
<1>4. CASE CloseAdmission \/ \E call \in {"settle", "transfer"} : QuiesceBegins(call)
  BY <1>4 DEF CloseAdmission, QuiesceBegins, Closed, HostOK
<1>5. CASE QuiesceReturns \/ SettleFlushes \/ SettleChecks
  BY <1>5 DEF QuiesceReturns, SettleFlushes, SettleChecks, StartDrain, driver, HostOK
<1>6. CASE Resume \/ Stop \/ ProcessCrash
  BY <1>6 DEF Resume, Stop, ProcessCrash, Transition, StartDrain, HostOK
<1>7. CASE AdmissionReleased
  BY <1>7 DEF AdmissionReleased, driver, HostOK
<1> QED
  BY <1>1, <1>2, <1>3, <1>4, <1>5, <1>6, <1>7
     DEF PNext, DrainStep, PickItem, DrainEnds, ProcessFindsUncertain, ProcessRedrives,
         ProcessRecords, ProcessDefers, ProcessPreflightFails, ProcessClaims, HandOver,
         ProcessCannotRedrive, SendAnswers, SendThrows, EndpointAccepts, Environment,
         AdmissionStep, driver, pvars

\* A step into a lasting settlement has seen the accepted work empty, which is
\* all the pending work; afterwards the seal keeps it so until the release.
LEMMA SettlementStep ==
  ASSUME IInv, SettlementOK, DriverOK, [PNext]_pvars
  PROVE  SettlementOK'
<1> SUFFICES ASSUME owner' = "settled"
             PROVE  admission'.op # NoOp /\ admission'.sealed = TRUE /\ Pending' = {}
  BY DEF SettlementOK
<1>1. CASE SettleChecks
  <2>1. UNCHANGED vars
    BY <1>1 DEF SettleChecks
  <2>2. admission.op # NoOp /\ AcceptedWork = {} /\ admission.sealed = TRUE
    BY <1>1 DEF SettleChecks, IInv, TypeOK, Admissions
  <2>3. Pending = {}
    BY <2>2 DEF IInv, FreezeComplete
  <2> QED  BY <2>1, <2>2, <2>3 DEF vars, durable, Pending
<1>2. CASE owner = "settled" /\ ~AdmissionReleased /\ ~ProcessCrash
  <2>1. Pending' = {}
    BY <1>2, StepRefines, SealedStep DEF SettlementOK, IInv
  <2>2. CASE UNCHANGED admission
    BY <1>2, <2>1, <2>2 DEF SettlementOK
  <2>3. CASE AdmissionStep
    BY <1>2, <2>1, <2>3 DEF AdmissionStep, InstallAdmission, SealAdmission, SettlementOK,
                            IInv, TypeOK, Admissions
  <2> QED
    BY <1>2, <2>2, <2>3
       DEF PNext, DrainStep, PickItem, DrainEnds, DrainCleared, ProcessFindsUncertain,
           ProcessRedrives, ClaimRedrive, ClaimUncertain, ProcessRecords, RecordSent, RecordRetry,
           RecordFailed, ProcessDefers, ProcessPreflightFails, PreflightFailure, AttemptStarted,
           ProcessClaims, ClaimReady, ProcessCannotRedrive, SendAnswers, SendThrows,
           EndpointAccepts, Prepare, Activate, TimerFlush, CloseAdmission, QuiesceBegins,
           QuiesceReturns, SettleFlushes, SettleChecks, Resume, Stop, Transition, Environment,
           Enqueue, ResolveFinally, ResolveRetry, Tick, pvars, vars
<1>3. owner = "settled" \/ SettleChecks
  BY DEF PNext, DrainStep, PickItem, DrainEnds, DrainCleared, ProcessFindsUncertain,
         ProcessRedrives, ProcessRecords, ProcessDefers, ProcessPreflightFails, ProcessClaims,
         HandOver, ProcessCannotRedrive, SendAnswers, SendThrows, EndpointAccepts, Prepare,
         Activate, TimerFlush, CloseAdmission, QuiesceBegins, QuiesceReturns, SettleFlushes,
         Resume, Stop, ProcessCrash, Environment, AdmissionStep, AdmissionReleased, pvars
<1>4. ~AdmissionReleased /\ ~ProcessCrash
  BY DEF AdmissionReleased, ProcessCrash
<1> QED  BY <1>1, <1>2, <1>3, <1>4

\* The invariant of the host along every behaviour.
LEMMA HostInvariant == PSpec => [](IInv /\ DriverOK /\ HostOK /\ SettlementOK)
<1>1. PInit => HostOK /\ SettlementOK
  BY DEF PInit, HostOK, SettlementOK
<1>2. IInv /\ DriverOK /\ HostOK /\ SettlementOK /\ [PNext]_pvars => HostOK' /\ SettlementOK'
  BY HostStep, SettlementStep
<1>3. PSpec => []IInv
  BY PipelineImplements, Invariant, PTL DEF ImplementsLifecycle
<1> QED  BY <1>1, <1>2, <1>3, DriverInvariant, PTL DEF PSpec

\* quiesceForAuthorityTransfer and settleAcceptedWork: after they return there
\* is no drain, hence no claim and no send, until the host resumes.
THEOREM QuietIsQuiet == PSpec => []QuietMeansNoEffects
<1>1. DriverOK /\ HostOK => QuietMeansNoEffects
  BY DEF DriverOK, HostOK, QuietMeansNoEffects
<1> QED  BY <1>1, HostInvariant, PTL

\* settleAcceptedWork under a sealed admission: nothing is pending when it
\* returns, nor later, until the release.
THEOREM SettledIsEmpty == PSpec => []SettledMeansEmpty
<1>1. SettlementOK => SettledMeansEmpty
  BY DEF SettlementOK, SettledMeansEmpty
<1> QED  BY <1>1, HostInvariant, PTL

-----------------------------------------------------------------------------
(* The endpoint.  The send the driver waits for is on its way or has arrived,
   and an attempt an idempotent endpoint knows has arrived. *)
ExternalType ==
    /\ transit \subseteq Items \X Nat \X {"manual-resolution", "idempotent-redrive"}
    /\ copies \in [Items -> Nat]
    /\ known \subseteq Items \X Nat

ArrivedOK ==
    /\ \A k \in known : copies[k[1]] >= 1
    /\ step \in Sending => <<cur, attempt[cur], policy[cur]>> \in transit \/ copies[cur] >= 1
    /\ step = "answered-sent" => copies[cur] >= 1
    /\ SentMeansArrived

\* The endpoint never loses what it accepted.
LEMMA ExternalStep ==
  ASSUME TypeOK, TypeOK', DriverOK, ExternalType, [PNext]_pvars
  PROVE  ExternalType' /\ \A i \in Items : copies'[i] >= copies[i]
<1>1. CASE UNCHANGED external
  BY <1>1 DEF ExternalType, external
<1>2. CASE HandOver /\ step = "process"
  <2>1. cur \in Items
    BY <1>2 DEF DriverOK
  <2>2. <<cur, attempt'[cur], policy'[cur]>> \in Items \X Nat \X {"manual-resolution", "idempotent-redrive"}
    BY <2>1 DEF TypeOK
  <2> QED  BY <1>2, <2>2 DEF HandOver, ExternalType
<1>3. CASE \E t \in transit : EndpointAccepts(t)
  <2>1. PICK t \in transit : EndpointAccepts(t)
    BY <1>3
  <2>2. t[1] \in Items /\ t[2] \in Nat
    BY DEF ExternalType
  <2>3. transit' \subseteq transit
    BY <2>1 DEF EndpointAccepts
  <2>4. known' \subseteq known \cup {<<t[1], t[2]>>}
    BY <2>1 DEF EndpointAccepts
  <2>5. copies' = copies \/ copies' = [copies EXCEPT ![t[1]] = copies[t[1]] + 1]
    <3>1. CASE t[3] = "idempotent-redrive" /\ <<t[1], t[2]>> \in known
      BY <2>1, <2>2, <3>1 DEF EndpointAccepts, ExternalType
    <3>2. CASE ~(t[3] = "idempotent-redrive" /\ <<t[1], t[2]>> \in known)
      BY <2>1, <2>2, <3>2 DEF EndpointAccepts, ExternalType
    <3> QED  BY <3>1, <3>2
  <2> QED  BY <2>2, <2>3, <2>4, <2>5 DEF ExternalType
<1> QED
  BY <1>1, <1>2, <1>3
     DEF PNext, DrainStep, PickItem, DrainEnds, DrainCleared, ProcessFindsUncertain,
         ProcessRedrives, ProcessRecords, ProcessDefers, ProcessPreflightFails, ProcessClaims,
         ProcessCannotRedrive, SendAnswers, SendThrows, Prepare, Activate, TimerFlush,
         CloseAdmission, QuiesceBegins, QuiesceReturns, SettleFlushes, SettleChecks, Resume,
         Stop, Transition, ProcessCrash, Environment, AdmissionStep, AdmissionReleased, pvars

\* An item enters "sent" only through ProcessRecords, after the answer.
LEMMA SentStep ==
  ASSUME TypeOK, DriverOK, [PNext]_pvars, NEW i \in Items, state'[i] = "sent", state[i] # "sent"
  PROVE  step = "answered-sent" /\ cur = i
<1>1. CASE ProcessRecords
  BY <1>1 DEF ProcessRecords, RecordSent, RecordRetry, RecordFailed, Send, TypeOK, DriverOK, Sending
<1>2. CASE Environment
  BY <1>2 DEF Environment, Enqueue, ResolveFinally, ResolveRetry, Tick, TypeOK, durable
<1>3. CASE \E p \in Policies : ProcessClaims(p) \/ ProcessPreflightFails(p)
  BY <1>3 DEF ProcessClaims, ProcessPreflightFails, ClaimReady, PreflightFailure, TypeOK, DriverOK
<1>4. CASE ProcessFindsUncertain
  BY <1>4 DEF ProcessFindsUncertain, ClaimUncertain, TypeOK, DriverOK
<1>5. CASE UNCHANGED state
  BY <1>5
<1> QED
  BY <1>1, <1>2, <1>3, <1>4, <1>5
     DEF PNext, DrainStep, PickItem, DrainEnds, DrainCleared, ProcessRedrives, ClaimRedrive,
         ProcessDefers, ProcessCannotRedrive, SendAnswers, SendThrows, EndpointAccepts, Prepare,
         Activate, TimerFlush, CloseAdmission, QuiesceBegins, QuiesceReturns, SettleFlushes,
         SettleChecks, Resume, Stop, Transition, ProcessCrash, Crash, AdmissionStep,
         AdmissionReleased, InstallAdmission, SealAdmission, ReleaseAdmission, pvars, vars, durable

\* While the driver waits for a send, nothing but the endpoint touches it.
LEMMA SendStep ==
  ASSUME TypeOK, DriverOK, [PNext]_pvars, step' \in Sending
  PROVE  \/ HandOver
         \/ /\ step \in Sending /\ cur' = cur
            /\ attempt'[cur] = attempt[cur] /\ policy'[cur] = policy[cur]
            /\ \/ step' = step /\ (transit' = transit \/ \E t \in transit : EndpointAccepts(t))
               \/ /\ transit' = transit /\ copies' = copies
                  /\ step' = "answered-sent" => <<cur, attempt[cur], policy[cur]>> \notin transit
<1>1. CASE \E p \in Policies : ProcessClaims(p)
  BY <1>1 DEF ProcessClaims
<1>2. CASE ProcessRedrives
  BY <1>2 DEF ProcessRedrives
<1>3. CASE \E answer \in {"answered-sent", "answered-retryable", "answered-permanent"} : SendAnswers(answer)
  BY <1>3 DEF SendAnswers, Sending, vars, durable, external
<1>4. CASE \E t \in transit : EndpointAccepts(t)
  BY <1>4 DEF EndpointAccepts, driver, vars, durable
<1>5. CASE UNCHANGED <<cur, step, attempt, policy, external>>
  BY <1>5 DEF external
<1>6. CASE Environment
  BY <1>5, <1>6 DEF Environment, Enqueue, ResolveFinally, ResolveRetry, Tick, driver, durable
<1>7. CASE AdmissionStep \/ AdmissionReleased
  BY <1>5, <1>7 DEF AdmissionStep, AdmissionReleased, InstallAdmission, SealAdmission,
                    ReleaseAdmission, driver, durable
<1>8. CASE Activate \/ TimerFlush \/ SettleFlushes \/ Resume
  BY <1>5, <1>8 DEF Activate, TimerFlush, SettleFlushes, Resume, Transition, StartDrain, Sending,
                    vars, durable
<1>9. CASE (\E i \in Items : PickItem(i)) \/ DrainEnds \/ DrainCleared \/ ProcessFindsUncertain
            \/ ProcessRecords \/ ProcessDefers \/ (\E p \in Policies : ProcessPreflightFails(p))
            \/ ProcessCannotRedrive \/ SendThrows \/ ProcessCrash
  BY <1>9 DEF PickItem, DrainEnds, DrainCleared, ProcessFindsUncertain, ProcessRecords, ProcessDefers,
              ProcessPreflightFails, ProcessCannotRedrive, SendThrows, ProcessCrash, NextItem, Sending
<1>10. CASE Prepare \/ CloseAdmission \/ (\E call \in {"settle", "transfer"} : QuiesceBegins(call))
             \/ QuiesceReturns \/ SettleChecks \/ Stop \/ UNCHANGED pvars
  BY <1>5, <1>10 DEF Prepare, CloseAdmission, QuiesceBegins, QuiesceReturns, SettleChecks, Stop,
                     Transition, pvars, driver, vars, durable
<1> QED
  BY <1>1, <1>2, <1>3, <1>4, <1>6, <1>7, <1>8, <1>9, <1>10 DEF PNext, DrainStep

\* What the endpoint accepts has arrived.
LEMMA AcceptedArrives ==
  ASSUME ExternalType, \A k \in known : copies[k[1]] >= 1, NEW t \in transit, EndpointAccepts(t)
  PROVE  copies'[t[1]] >= 1 /\ transit' = transit \ {t} /\ known' \subseteq known \cup {<<t[1], t[2]>>}
<1>1. t[1] \in Items
  BY DEF ExternalType
<1>2. CASE t[3] = "idempotent-redrive" /\ <<t[1], t[2]>> \in known
  BY <1>1, <1>2 DEF EndpointAccepts, ExternalType
<1>3. CASE ~(t[3] = "idempotent-redrive" /\ <<t[1], t[2]>> \in known)
  BY <1>1, <1>3 DEF EndpointAccepts, ExternalType
<1> QED  BY <1>2, <1>3 DEF EndpointAccepts

\* The answer "sent" is given and recorded only after the arrival.
LEMMA ArrivedStep ==
  ASSUME TypeOK, TypeOK', DriverOK, DriverOK', ExternalType, ArrivedOK, [PNext]_pvars
  PROVE  ArrivedOK'
<1>1. ExternalType' /\ \A i \in Items : copies'[i] >= copies[i]
  BY ExternalStep
<1>2. \A i \in Items : copies[i] \in Nat /\ copies'[i] \in Nat
  BY <1>1 DEF ExternalType
<1>3. \A k \in known' : copies'[k[1]] >= 1
  <2> TAKE k \in known'
  <2>1. CASE k \in known
    BY <1>1, <1>2, <2>1 DEF ArrivedOK, ExternalType
  <2>2. CASE k \notin known
    <3>1. PICK t \in transit : EndpointAccepts(t)
      BY <2>2 DEF PNext, DrainStep, PickItem, DrainEnds, DrainCleared, ProcessFindsUncertain,
         ProcessRedrives, ProcessRecords, ProcessDefers, ProcessPreflightFails, ProcessClaims,
         HandOver, ProcessCannotRedrive, SendAnswers, SendThrows, Prepare, Activate, TimerFlush,
         CloseAdmission, QuiesceBegins, QuiesceReturns, SettleFlushes, SettleChecks, Resume,
         Stop, Transition, ProcessCrash, Environment, AdmissionStep, AdmissionReleased, pvars, external
    <3>2. k = <<t[1], t[2]>> /\ copies'[t[1]] >= 1
      BY <2>2, <3>1, AcceptedArrives DEF ArrivedOK
    <3> QED  BY <3>2
  <2> QED  BY <2>1, <2>2
<1>4. step' \in Sending =>
        /\ <<cur, attempt[cur], policy[cur]>>' \in transit' \/ copies'[cur'] >= 1
        /\ step' = "answered-sent" => copies'[cur'] >= 1
  <2> SUFFICES ASSUME step' \in Sending
               PROVE  /\ <<cur', attempt'[cur'], policy'[cur']>> \in transit' \/ copies'[cur'] >= 1
                      /\ step' = "answered-sent" => copies'[cur'] >= 1
    OBVIOUS
  <2>1. CASE HandOver
    BY <2>1 DEF HandOver
  <2>2. CASE /\ step \in Sending /\ cur' = cur
             /\ attempt'[cur] = attempt[cur] /\ policy'[cur] = policy[cur]
    <3>1. cur \in Items
      BY <2>2 DEF DriverOK
    <3>2. CASE step' = step /\ transit' = transit
      BY <1>1, <1>2, <2>2, <3>1, <3>2 DEF ArrivedOK
    <3>3. CASE step' = step /\ \E t \in transit : EndpointAccepts(t)
      <4>1. PICK t \in transit : EndpointAccepts(t)
        BY <3>3
      <4>2. copies'[t[1]] >= 1 /\ transit' = transit \ {t}
        BY <4>1, AcceptedArrives DEF ArrivedOK
      <4>3. CASE t = <<cur, attempt[cur], policy[cur]>>
        BY <2>2, <4>2, <4>3
      <4>4. CASE t # <<cur, attempt[cur], policy[cur]>>
        BY <1>1, <1>2, <2>2, <3>1, <3>3, <4>2, <4>4 DEF ArrivedOK
      <4>5. step' = "answered-sent" => copies'[cur'] >= 1
        BY <1>1, <1>2, <2>2, <3>1, <3>3 DEF ArrivedOK
      <4> QED  BY <4>3, <4>4, <4>5
    <3>4. CASE /\ transit' = transit /\ copies' = copies
               /\ step' = "answered-sent" => <<cur, attempt[cur], policy[cur]>> \notin transit
      BY <2>2, <3>4 DEF ArrivedOK
    <3> QED  BY <2>2, <3>2, <3>3, <3>4, SendStep, <2>1
  <2> QED  BY <2>1, <2>2, SendStep
<1>5. SentMeansArrived'
  <2> SUFFICES ASSUME NEW i \in Items, state'[i] = "sent" PROVE copies'[i] >= 1
    BY DEF SentMeansArrived
  <2>1. CASE state[i] = "sent"
    BY <1>1, <1>2, <2>1 DEF ArrivedOK, SentMeansArrived
  <2>2. CASE state[i] # "sent"
    BY <1>1, <1>2, <2>2, SentStep DEF ArrivedOK
  <2> QED  BY <2>1, <2>2
<1>6. Sending' = Sending
  BY DEF Sending
<1>7. step' = "answered-sent" => step' \in Sending
  BY DEF Sending
<1> QED  BY <1>3, <1>4, <1>5, <1>6, <1>7 DEF ArrivedOK

\* A delivery the log records as sent has reached its endpoint, through every
\* interleaving of late arrivals, redrives, lost answers and crashes.
THEOREM SentArrived == PSpec => []SentMeansArrived
<1>1. PInit => ExternalType /\ ArrivedOK
  BY DEF PInit, Init, ExternalType, ArrivedOK, SentMeansArrived, Sending
<1>2. TypeOK /\ TypeOK' /\ DriverOK /\ DriverOK' /\ ExternalType /\ ArrivedOK /\ [PNext]_pvars
        => ExternalType' /\ ArrivedOK'
  BY ExternalStep, ArrivedStep
<1>3. ArrivedOK => SentMeansArrived
  BY DEF ArrivedOK
<1> QED  BY <1>1, <1>2, <1>3, DriverInvariant, PTL DEF PSpec

-----------------------------------------------------------------------------
(* No second copy on the system's own account.  The argument counts: every copy
   at the endpoint and every send that can still become one belongs to an attempt
   of its own, and there are no more attempts than facts that authorise them
   (AttemptsAccounted). *)

\* The attempts of an item whose send may still add a copy.
Open(i) ==
    {a \in 1 .. attempt[i] : \E t \in transit :
        /\ t[1] = i /\ t[2] = a
        /\ t[3] = "idempotent-redrive" => <<i, a>> \notin known}

(* A send belongs to an attempt that was started and carries its policy, so an
   attempt is on its way under one policy only; and an attempt that may be
   redriven is on its way already or known to the endpoint. *)
TransitOK ==
    /\ \A t \in transit : t[2] \in 1 .. attempt[t[1]]
    /\ \A t \in transit : t[2] = attempt[t[1]] => t[3] = policy[t[1]]
    /\ \A t, u \in transit : t[1] = u[1] /\ t[2] = u[2] => t[3] = u[3]
    /\ \A i \in Items : state[i] = "attempting" /\ policy[i] = "idempotent-redrive" =>
          <<i, attempt[i], policy[i]>> \in transit \/ <<i, attempt[i]>> \in known

CopiesCounted == \A i \in Items : copies[i] + Cardinality(Open(i)) <= attempt[i]

-----------------------------------------------------------------------------
\* The open attempts of an item are finitely many.
LEMMA OpenFinite ==
  ASSUME TypeOK, NEW i \in Items
  PROVE  IsFiniteSet(Open(i)) /\ Cardinality(Open(i)) \in Nat
<1>1. IsFiniteSet(1 .. attempt[i])
  BY FS_Interval DEF TypeOK
<1>2. Open(i) \in SUBSET (1 .. attempt[i])
  BY DEF Open
<1>3. IsFiniteSet(Open(i))
  BY <1>1, <1>2, FS_Subset
<1> QED  BY <1>3, FS_CardinalityType

\* The effects a step can have on what the count is about.
LEMMA StepKinds ==
  ASSUME TypeOK, DriverOK, [PNext]_pvars
  PROVE  \/ /\ UNCHANGED <<external, attempt, policy>>
            /\ \A i \in Items : state'[i] = "attempting" => state[i] = "attempting"
         \/ /\ cur \in Items
            /\ \E p \in Policies :
                  /\ AttemptStarted(cur, p)
                  /\ \/ ClaimReady(cur, p) /\ HandOver
                     \/ PreflightFailure(cur, p) /\ UNCHANGED external
         \/ cur \in Items /\ ClaimRedrive(cur) /\ HandOver
         \/ UNCHANGED vars /\ \E t \in transit : EndpointAccepts(t)
<1>1. CASE \E p \in Policies : ProcessClaims(p) \/ ProcessPreflightFails(p)
  BY <1>1 DEF ProcessClaims, ProcessPreflightFails, ClaimReady, PreflightFailure, DriverOK
<1>2. CASE ProcessRedrives
  BY <1>2 DEF ProcessRedrives, DriverOK
<1>3. CASE \E t \in transit : EndpointAccepts(t)
  BY <1>3 DEF EndpointAccepts
<1>4. CASE UNCHANGED <<external, attempt, policy, state>>
  BY <1>4
<1>5. CASE ProcessRecords
  <2>1. cur \in Items
    BY <1>5 DEF ProcessRecords, DriverOK, Sending
  <2> QED
    BY <1>5, <2>1 DEF ProcessRecords, RecordSent, RecordRetry, RecordFailed, Send, TypeOK
<1>6. CASE ProcessFindsUncertain
  BY <1>6 DEF ProcessFindsUncertain, ClaimUncertain, DriverOK, TypeOK
<1>7. CASE Environment
  BY <1>7 DEF Environment, Enqueue, ResolveFinally, ResolveRetry, Tick, TypeOK, durable
<1> QED
  BY <1>1, <1>2, <1>3, <1>4, <1>5, <1>6, <1>7
     DEF PNext, DrainStep, PickItem, DrainEnds, DrainCleared, ProcessDefers,
         ProcessCannotRedrive, ClaimRedrive, SendAnswers, SendThrows, Prepare, Activate,
         TimerFlush, CloseAdmission, QuiesceBegins, QuiesceReturns, SettleFlushes, SettleChecks,
         Resume, Stop, Transition, ProcessCrash, Crash, AdmissionStep, AdmissionReleased,
         InstallAdmission, SealAdmission, ReleaseAdmission, pvars, vars, durable

\* A new attempt opens at most itself.
LEMMA StartedCounts ==
  ASSUME TypeOK, ExternalType, TransitOK, CopiesCounted,
         cur \in Items, NEW p \in Policies, AttemptStarted(cur, p),
         \/ ClaimReady(cur, p) /\ HandOver
         \/ PreflightFailure(cur, p) /\ UNCHANGED external
  PROVE  TransitOK' /\ CopiesCounted'
<1> DEFINE new == <<cur, attempt[cur] + 1, p>>
<1>1. /\ attempt' = [attempt EXCEPT ![cur] = attempt[cur] + 1]
      /\ policy' = [policy EXCEPT ![cur] = p]
  BY DEF AttemptStarted
<1>2. transit' \subseteq transit \cup {new} /\ UNCHANGED <<known, copies>>
  BY <1>1 DEF HandOver, external, TypeOK
<1>3. /\ attempt'[cur] = attempt[cur] + 1 /\ policy'[cur] = p /\ attempt[cur] \in Nat
      /\ \A i \in Items : i # cur => attempt'[i] = attempt[i] /\ policy'[i] = policy[i]
      /\ \A i \in Items : attempt[i] \in Nat /\ attempt'[i] \in Nat
  BY <1>1 DEF TypeOK
<1>4. \A t \in transit : t[1] \in Items /\ t[2] \in Nat
  BY DEF ExternalType
<1>5. TransitOK'
  <2>1. \A t \in transit' : t[2] \in 1 .. attempt'[t[1]]
    BY <1>2, <1>3, <1>4 DEF TransitOK
  <2>2. \A t \in transit' : t[2] = attempt'[t[1]] => t[3] = policy'[t[1]]
    BY <1>2, <1>3, <1>4 DEF TransitOK
  <2>3. \A t, u \in transit' : t[1] = u[1] /\ t[2] = u[2] => t[3] = u[3]
    BY <1>2, <1>3, <1>4 DEF TransitOK
  <2>4. \A i \in Items : state'[i] = "attempting" /\ policy'[i] = "idempotent-redrive" =>
          <<i, attempt'[i], policy'[i]>> \in transit' \/ <<i, attempt'[i]>> \in known'
    <3> TAKE i \in Items
    <3>1. CASE i = cur
      BY <1>3, <3>1 DEF ClaimReady, PreflightFailure, HandOver, TypeOK
    <3>2. CASE i # cur
      <4>1. state'[i] = state[i] /\ transit \subseteq transit' /\ known' = known
        BY <3>2, <1>2 DEF ClaimReady, PreflightFailure, HandOver, external, TypeOK
      <4> QED  BY <1>3, <3>2, <4>1 DEF TransitOK
    <3> QED  BY <3>1, <3>2
  <2> QED  BY <2>1, <2>2, <2>3, <2>4 DEF TransitOK
<1>6. CopiesCounted'
  <2> SUFFICES ASSUME NEW i \in Items
               PROVE  copies'[i] + Cardinality(Open(i)') <= attempt'[i]
    BY DEF CopiesCounted
  <2>0. copies'[i] = copies[i] /\ copies[i] \in Nat
    BY <1>2 DEF ExternalType
  <2>1. CASE i = cur
    <3>1. Open(i)' \in SUBSET (Open(i) \cup {attempt[i] + 1})
      <4> SUFFICES ASSUME NEW a \in Open(i)', a # attempt[i] + 1 PROVE a \in Open(i)
        OBVIOUS
      <4>1. a \in 1 .. attempt[i]
        BY <1>3, <2>1 DEF Open
      <4>2. PICK t \in transit' : /\ t[1] = i /\ t[2] = a
                                  /\ t[3] = "idempotent-redrive" => <<i, a>> \notin known'
        BY DEF Open
      <4>3. t \in transit
        BY <1>2, <2>1, <4>2
      <4> QED  BY <1>2, <4>1, <4>2, <4>3 DEF Open
    <3>2. /\ IsFiniteSet(Open(i) \cup {attempt[i] + 1})
          /\ Cardinality(Open(i) \cup {attempt[i] + 1}) <= Cardinality(Open(i)) + 1
      <4>1. IsFiniteSet(Open(i)) /\ Cardinality(Open(i)) \in Nat
        BY OpenFinite
      <4>2. /\ IsFiniteSet(Open(i) \cup {attempt[i] + 1})
            /\ \/ Cardinality(Open(i) \cup {attempt[i] + 1}) = Cardinality(Open(i))
               \/ Cardinality(Open(i) \cup {attempt[i] + 1}) = Cardinality(Open(i)) + 1
        BY <4>1, FS_AddElement, Zenon
      <4> QED  BY <4>1, <4>2
    <3>3. IsFiniteSet(Open(i)') /\ Cardinality(Open(i)') <= Cardinality(Open(i) \cup {attempt[i] + 1})
      BY <3>1, <3>2, FS_Subset
    <3>4. Cardinality(Open(i)') \in Nat /\ Cardinality(Open(i) \cup {attempt[i] + 1}) \in Nat
      BY <3>2, <3>3, FS_CardinalityType
    <3> QED  BY <1>3, <2>0, <2>1, <3>2, <3>3, <3>4, OpenFinite DEF CopiesCounted
  <2>2. CASE i # cur
    <3>1. Open(i)' \in SUBSET Open(i)
      BY <1>2, <1>3, <2>2 DEF Open
    <3>2. IsFiniteSet(Open(i)') /\ Cardinality(Open(i)') <= Cardinality(Open(i))
      BY <3>1, OpenFinite, FS_Subset
    <3>3. Cardinality(Open(i)') \in Nat
      BY <3>2, FS_CardinalityType
    <3> QED  BY <1>3, <2>0, <2>2, <3>2, <3>3, OpenFinite DEF CopiesCounted
  <2> QED  BY <2>1, <2>2
<1> QED  BY <1>5, <1>6

\* A redrive repeats what is on its way, or what the endpoint knows.
LEMMA RedriveCounts ==
  ASSUME TypeOK, ExternalType, TransitOK, CopiesCounted, Accounted(cur),
         cur \in Items, ClaimRedrive(cur), HandOver
  PROVE  TransitOK' /\ CopiesCounted'
<1> DEFINE again == <<cur, attempt[cur], policy[cur]>>
<1>1. /\ UNCHANGED durable /\ state[cur] = "attempting" /\ policy[cur] = "idempotent-redrive"
      /\ UNCHANGED <<known, copies>>
  BY DEF ClaimRedrive, MayRedrive, HandOver
<1>2. UNCHANGED <<state, attempt, policy>>
  BY <1>1 DEF durable
<1>3. transit' = transit \cup {again}
  BY <1>2 DEF HandOver
<1>4. again \in transit \/ <<cur, attempt[cur]>> \in known
  BY <1>1 DEF TransitOK
<1>5. attempt[cur] \in 1 .. attempt[cur]
  BY <1>1 DEF TypeOK, Accounted
<1>6. TransitOK'
  <2>1. \A t \in transit' : t[2] \in 1 .. attempt'[t[1]]
    BY <1>2, <1>3, <1>5 DEF TransitOK
  <2>2. \A t \in transit' : t[2] = attempt'[t[1]] => t[3] = policy'[t[1]]
    BY <1>2, <1>3 DEF TransitOK
  <2>3. \A t, u \in transit' : t[1] = u[1] /\ t[2] = u[2] => t[3] = u[3]
    BY <1>3 DEF TransitOK
  <2>4. \A i \in Items : state'[i] = "attempting" /\ policy'[i] = "idempotent-redrive" =>
          <<i, attempt'[i], policy'[i]>> \in transit' \/ <<i, attempt'[i]>> \in known'
    BY <1>1, <1>2, <1>3 DEF TransitOK
  <2> QED  BY <2>1, <2>2, <2>3, <2>4 DEF TransitOK
<1>7. \A i \in Items : Open(i)' = Open(i)
  <2> TAKE i \in Items
  <2>1. Open(i) \subseteq Open(i)'
    BY <1>1, <1>2, <1>3 DEF Open
  <2>2. Open(i)' \subseteq Open(i)
    <3> SUFFICES ASSUME NEW a \in Open(i)' PROVE a \in Open(i)
      OBVIOUS
    <3>1. PICK t \in transit' : /\ t[1] = i /\ t[2] = a
                                /\ t[3] = "idempotent-redrive" => <<i, a>> \notin known'
      BY DEF Open
    <3>2. t \in transit
      BY <1>1, <1>3, <1>4, <3>1
    <3> QED  BY <1>1, <1>2, <3>1, <3>2 DEF Open
  <2> QED  BY <2>1, <2>2
<1>8. CopiesCounted'
  BY <1>1, <1>2, <1>7 DEF CopiesCounted
<1> QED  BY <1>6, <1>8

\* An arrival turns an open attempt into a copy, or repeats a known one.
LEMMA ArrivalCounts ==
  ASSUME TypeOK, ExternalType, TransitOK, CopiesCounted, UNCHANGED vars,
         NEW t \in transit, EndpointAccepts(t)
  PROVE  TransitOK' /\ CopiesCounted'
<1>1. UNCHANGED <<state, attempt, policy>> /\ transit' = transit \ {t}
  BY DEF vars, durable, EndpointAccepts
<1>2. t[1] \in Items /\ t[2] \in Nat /\ t = <<t[1], t[2], t[3]>>
  BY DEF ExternalType
<1>3. known \subseteq known'
  BY DEF EndpointAccepts
<1>4. TransitOK'
  <2>1. \A i \in Items : state'[i] = "attempting" /\ policy'[i] = "idempotent-redrive" =>
          <<i, attempt'[i], policy'[i]>> \in transit' \/ <<i, attempt'[i]>> \in known'
    <3> TAKE i \in Items
    <3>1. CASE t = <<i, attempt[i], policy[i]>>
      BY <1>1, <3>1 DEF EndpointAccepts
    <3>2. CASE t # <<i, attempt[i], policy[i]>>
      BY <1>1, <1>3, <3>2 DEF TransitOK
    <3> QED  BY <3>1, <3>2
  <2> QED  BY <1>1, <2>1 DEF TransitOK
<1>5. \A i \in Items : Open(i)' \in SUBSET Open(i)
  BY <1>1, <1>3 DEF Open
<1>6. CASE t[3] = "idempotent-redrive" /\ <<t[1], t[2]>> \in known
  <2>1. copies' = copies
    BY <1>2, <1>6 DEF EndpointAccepts, ExternalType
  <2>2. \A i \in Items : /\ IsFiniteSet(Open(i)') /\ Cardinality(Open(i)') <= Cardinality(Open(i))
                         /\ Cardinality(Open(i)') \in Nat /\ Cardinality(Open(i)) \in Nat
    BY <1>5, OpenFinite, FS_Subset, FS_CardinalityType
  <2>3. CopiesCounted'
    BY <1>1, <2>1, <2>2 DEF CopiesCounted, TypeOK, ExternalType
  <2> QED  BY <1>4, <2>3
<1>7. CASE ~(t[3] = "idempotent-redrive" /\ <<t[1], t[2]>> \in known)
  <2>1. copies' = [copies EXCEPT ![t[1]] = copies[t[1]] + 1]
    BY <1>2, <1>7 DEF EndpointAccepts, ExternalType
  <2>2. t[2] \in Open(t[1])
    BY <1>7 DEF Open, TransitOK
  <2>3. t[2] \notin Open(t[1])'
    <3> SUFFICES ASSUME NEW u \in transit', u[1] = t[1], u[2] = t[2],
                        u[3] = "idempotent-redrive" => <<t[1], t[2]>> \notin known'
                 PROVE  FALSE
      BY DEF Open
    <3>1. u \in transit /\ u # t /\ u[3] = t[3]
      BY <1>1 DEF TransitOK
    <3>2. u = <<u[1], u[2], u[3]>>
      BY <3>1 DEF ExternalType
    <3> QED  BY <1>2, <3>1, <3>2
  <2>4. CopiesCounted'
    <3> SUFFICES ASSUME NEW i \in Items
                 PROVE  copies'[i] + Cardinality(Open(i)') <= attempt[i]
      BY <1>1 DEF CopiesCounted
    <3>1. /\ copies[i] \in Nat /\ attempt[i] \in Nat
          /\ copies[i] + Cardinality(Open(i)) <= attempt[i]
          /\ IsFiniteSet(Open(i)) /\ Cardinality(Open(i)) \in Nat
      BY OpenFinite DEF TypeOK, ExternalType, CopiesCounted
    <3>2. CASE i = t[1]
      <4>1. Open(i)' \in SUBSET (Open(i) \ {t[2]})
        BY <1>5, <2>3, <3>2
      <4>2. IsFiniteSet(Open(i) \ {t[2]}) /\ Cardinality(Open(i) \ {t[2]}) = Cardinality(Open(i)) - 1
        BY <2>2, <3>1, <3>2, FS_RemoveElement
      <4>3. IsFiniteSet(Open(i)') /\ Cardinality(Open(i)') <= Cardinality(Open(i) \ {t[2]})
        BY <4>1, <4>2, FS_Subset
      <4>4. Cardinality(Open(i)') \in Nat
        BY <4>3, FS_CardinalityType
      <4>5. copies'[i] = copies[i] + 1
        BY <2>1, <3>2 DEF ExternalType
      <4> QED  BY <3>1, <4>2, <4>3, <4>4, <4>5
    <3>3. CASE i # t[1]
      <4>1. IsFiniteSet(Open(i)') /\ Cardinality(Open(i)') <= Cardinality(Open(i))
        BY <1>5, <3>1, FS_Subset
      <4>2. Cardinality(Open(i)') \in Nat
        BY <4>1, FS_CardinalityType
      <4>3. copies'[i] = copies[i]
        BY <2>1, <3>3 DEF ExternalType
      <4> QED  BY <3>1, <4>1, <4>2, <4>3
    <3> QED  BY <3>2, <3>3
  <2> QED  BY <1>4, <2>4
<1> QED  BY <1>6, <1>7

\* Every step keeps the count.
LEMMA CountStep ==
  ASSUME IInv, DriverOK, ExternalType, TransitOK, CopiesCounted, [PNext]_pvars
  PROVE  TransitOK' /\ CopiesCounted'
<1> TypeOK /\ \A i \in Items : Accounted(i)
  BY DEF IInv, ItemOK
<1>1. CASE /\ UNCHANGED <<external, attempt, policy>>
           /\ \A i \in Items : state'[i] = "attempting" => state[i] = "attempting"
  BY <1>1 DEF external, TransitOK, CopiesCounted, Open
<1> QED
  BY <1>1, StepKinds, StartedCounts, RedriveCounts, ArrivalCounts

\* Every copy beyond the first is paid for by a reported failure or a decision
\* of the user: crashes around the send, lost answers, redrives and arrivals
\* after the sender gave up never duplicate a message.
THEOREM NeverDuplicated == PSpec => []NeverDuplicatedOnItsOwn
<1>1. PInit => TypeOK /\ ExternalType /\ TransitOK /\ CopiesCounted
  <2> SUFFICES ASSUME PInit PROVE TypeOK /\ ExternalType /\ TransitOK /\ CopiesCounted
    OBVIOUS
  <2>1. TypeOK /\ ExternalType /\ TransitOK
    BY TypeInit DEF PInit, Init, ExternalType, TransitOK
  <2>2. \A i \in Items : Open(i) = {}
    BY DEF PInit, Init, Open
  <2>3. CopiesCounted
    BY <2>2, FS_EmptySet DEF PInit, Init, CopiesCounted
  <2> QED  BY <2>1, <2>3
<1>2. IInv /\ IInv' /\ DriverOK /\ ExternalType /\ TransitOK /\ CopiesCounted /\ [PNext]_pvars
        => ExternalType' /\ TransitOK' /\ CopiesCounted'
  BY CountStep, ExternalStep DEF IInv
<1>3. IInv /\ ExternalType /\ CopiesCounted => NeverDuplicatedOnItsOwn
  <2> SUFFICES ASSUME IInv, ExternalType, CopiesCounted, NEW i \in Items
               PROVE  copies[i] <= 1 + retried[i] + decided[i]
    BY DEF NeverDuplicatedOnItsOwn
  <2>1. TypeOK /\ Accounted(i) /\ Consistent(i)
    BY DEF IInv, ItemOK
  <2>2. attempt[i] \in Nat /\ attempt[i] <= 1 + retried[i] + decided[i]
    BY <2>1 DEF TypeOK, Accounted, Consistent
  <2>3. copies[i] <= attempt[i]
    BY <2>1, OpenFinite DEF ExternalType, CopiesCounted, TypeOK
  <2> QED  BY <2>1, <2>2, <2>3 DEF TypeOK, ExternalType
<1>4. PSpec => [](IInv /\ DriverOK)
  BY HostInvariant, PTL
<1> QED  BY <1>1, <1>2, <1>3, <1>4, PTL DEF PSpec
=============================================================================
