------------------------------- MODULE FileLock --------------------------------
(***************************************************************************)
(* packages/core/src/persistence/file-lock.ts: a lock file is published by *)
(* an exclusive hard link and names its owner; a contender that finds the  *)
(* file checks in the background whether the owner's process is gone and,  *)
(* if so, removes the file under a guard, which is itself a lock file      *)
(* (".reclaim") that may be left by a dead reclaimer and is then reclaimed *)
(* under its own guard, and so on.                                         *)
(*                                                                         *)
(* file[0] is the lock, file[l + 1] the guard of file[l].  A record is     *)
(* reduced to the contender that wrote it: its random token, pid and birth *)
(* identify that call, and a process that comes back is a new process with *)
(* new contenders.  Every step is the code between two file operations or  *)
(* identity queries.  Claim files carry no ownership and heartbeats only   *)
(* move the age of a file, which matters for a missing record only         *)
(* (Reclaimable); both are left out, and so are records of other versions, *)
(* which stay busy for ever.                                               *)
(***************************************************************************)
EXTENDS Naturals, FiniteSets

CONSTANTS
    Contenders,     \* calls of acquireFileLock
    NoOne,          \* the file does not exist
    Processes,
    Proc,           \* the process of each contender
    MaxLevel        \* bound on guards of guards

ASSUME FileLockAssumption ==
    /\ NoOne \notin Contenders
    /\ Proc \in [Contenders -> Processes]
    /\ MaxLevel \in Nat \ {0}

VARIABLES
    file,       \* the lock file and its guards: the record each one holds
    pc,         \* where each contender is; "gone" once its process is
    check,      \* its background owner check: none, under way, or its verdict
    obs,        \* observedOwner: the record the check, or reclaimDeadLock, read
    level,      \* the file it reclaims
    result,     \* what reclaimObservedOwner returns, or throws
    expired,    \* contenders whose waitMs has passed
    lone        \* history: contenders that met no live competitor and no fault

local == <<check, obs, level, result>>
vars  == <<file, pc, local, expired, lone>>

Records  == Contenders \cup {NoOne}
Levels   == 0 .. MaxLevel
Verdicts == {"reclaimable", "refused"}
Ended    == {"idle", "done", "busy", "failed", "gone"}
Leaves   == {"held", "release", "releaseRm"}
Guarding == {"reread", "recheck", "remove", "unguard", "unguardRm"}
Steps    == Ended \cup Leaves \cup Guarding \cup {"create", "checking", "guard", "observe", "judge"}

Gone(c) == pc[c] = "gone"

Init ==
    /\ file = [l \in Levels |-> NoOne]
    /\ pc = [c \in Contenders |-> "idle"]
    /\ check = [c \in Contenders |-> "none"]
    /\ obs = [c \in Contenders |-> NoOne]
    /\ level = [c \in Contenders |-> 0]
    /\ result = [c \in Contenders |-> "kept"]
    /\ expired = {}
    /\ lone = {}

-----------------------------------------------------------------------------
Goto(c, step) == pc' = [pc EXCEPT ![c] = step]

\* No other contender works on the lock and no file names a live process.
Quiet(c) ==
    /\ \A d \in Contenders \ {c} : pc[d] \in Ended
    /\ \A l \in Levels : file[l] \in Contenders => Gone(file[l])

\* A call of acquireFileLock.
Start(c) ==
    /\ pc[c] = "idle"
    /\ Goto(c, "create")
    /\ lone' = IF Quiet(c) THEN {c} ELSE {}
    /\ UNCHANGED <<file, local, expired>>

\* tryCreateLockFile succeeds: the lock is held, a check still under way is void.
Create(c) ==
    /\ pc[c] = "create" /\ file[0] = NoOne
    /\ file' = [file EXCEPT ![0] = c]
    /\ Goto(c, "held")
    /\ check' = [check EXCEPT ![c] = "none"]
    /\ obs' = [obs EXCEPT ![c] = NoOne]
    /\ expired' = expired \ {c}
    /\ UNCHANGED <<level, result, lone>>

\* The file exists: check ??= startOwnerCheck().
CreateFails(c) ==
    /\ pc[c] = "create" /\ file[0] # NoOne
    /\ Goto(c, "checking")
    /\ check' = [check EXCEPT ![c] = IF @ = "none" THEN "started" ELSE @]
    /\ UNCHANGED <<file, obs, level, result, expired, lone>>

\* performance.now() - startedAt >= waitMs; waitMs may be zero.
Expire(c) ==
    /\ pc[c] \in {"create", "checking"} /\ c \notin expired
    /\ expired' = expired \cup {c}
    /\ UNCHANGED <<file, pc, local, lone>>

\* Not expired and the check not settled: sleep retryMs, then try to create again.
Retry(c) ==
    /\ pc[c] = "checking" /\ check[c] \notin Verdicts /\ c \notin expired
    /\ Goto(c, "create")
    /\ UNCHANGED <<file, local, expired, lone>>

\* A link, or the identity of the own process, fails for another reason.
Throw(c) ==
    /\ pc[c] \in {"create", "guard"}
    /\ Goto(c, "failed")
    /\ UNCHANGED <<file, local, expired, lone>>

\* observeReclaimableOwner of the background check reads the record ...
CheckReads(c) ==
    /\ pc[c] \in {"create", "checking"} /\ check[c] = "started"
    /\ check' = [check EXCEPT ![c] = "read"]
    /\ obs' = [obs EXCEPT ![c] = file[0]]
    /\ UNCHANGED <<file, pc, level, result, expired, lone>>

\* isReclaimable: the process is proven gone.  An identity query without an answer
\* (known is FALSE) proves nothing.  A record that vanished is reported reclaimable
\* if the earlier stat() was old; nothing is removed for it, as it equals no owner.
Reclaimable(r, known) == known /\ (r # NoOne => Gone(r))

\* An identity query of c without an answer is a fault it met.
Doubt(c, known) == lone' = IF known THEN lone ELSE lone \ {c}

\* ... and asks for the identity of its process.
CheckSettles(c, known) ==
    /\ pc[c] \in {"create", "checking"} /\ check[c] = "read"
    /\ check' = [check EXCEPT ![c] = IF Reclaimable(obs[c], known) THEN "reclaimable" ELSE "refused"]
    /\ Doubt(c, known)
    /\ UNCHANGED <<file, pc, obs, level, result, expired>>

\* Mutant of After: the wait never ends.
NeverGiveUp(c, r) ==
    /\ Goto(c, IF r = "failed" THEN "failed" ELSE "create")
    /\ obs' = [obs EXCEPT ![c] = NoOne]
    /\ level' = [level EXCEPT ![c] = 0]
    /\ result' = [result EXCEPT ![c] = "kept"]

\* Back in the loop: progress of the recovery is no contention.
After(c, r) ==
    /\ Goto(c, IF r = "failed" THEN "failed"
               ELSE IF r = "kept" /\ c \in expired THEN "busy" ELSE "create")
    /\ obs' = [obs EXCEPT ![c] = NoOne]
    /\ level' = [level EXCEPT ![c] = 0]
    /\ result' = [result EXCEPT ![c] = "kept"]

\* The verdict is used once: the record found reclaimable is reclaimed, otherwise
\* the contender sleeps, or gives up when its time is over.
TakeVerdict(c) ==
    /\ pc[c] = "checking" /\ check[c] \in Verdicts
    /\ check' = [check EXCEPT ![c] = "none"]
    /\ IF check[c] = "reclaimable"
         THEN Goto(c, "guard") /\ UNCHANGED <<obs, level, result>>
         ELSE After(c, "kept")
    /\ UNCHANGED <<file, expired, lone>>

-----------------------------------------------------------------------------
\* reclaimObservedOwner publishes its guard ...
CreateGuard(c) ==
    /\ pc[c] = "guard" /\ level[c] < MaxLevel
    /\ file[level[c] + 1] = NoOne
    /\ file' = [file EXCEPT ![level[c] + 1] = c]
    /\ Goto(c, "reread")
    /\ UNCHANGED <<local, expired, lone>>

\* Mutant of GuardExists: a guard left behind is contention like any other.
GuardIsContention(c) ==
    /\ pc[c] = "guard" /\ level[c] < MaxLevel
    /\ file[level[c] + 1] # NoOne
    /\ After(c, "kept")
    /\ UNCHANGED <<file, check, expired, lone>>

\* ... or finds one, and reclaims it like any other lock: reclaimDeadLock(guard).
GuardExists(c) ==
    /\ pc[c] = "guard" /\ level[c] < MaxLevel
    /\ file[level[c] + 1] # NoOne
    /\ level' = [level EXCEPT ![c] = @ + 1]
    /\ Goto(c, "observe")
    /\ UNCHANGED <<file, check, obs, result, expired, lone>>

\* observeReclaimableOwner(guard) reads the record ...
Observe(c) ==
    /\ pc[c] = "observe"
    /\ obs' = [obs EXCEPT ![c] = file[level[c]]]
    /\ Goto(c, "judge")
    /\ UNCHANGED <<file, check, level, result, expired, lone>>

\* ... and asks for the identity of its process.
Judge(c, known) ==
    /\ pc[c] = "judge"
    /\ IF Reclaimable(obs[c], known)
         THEN Goto(c, "guard") /\ UNCHANGED <<obs, level, result>>
         ELSE After(c, "kept")
    /\ Doubt(c, known)
    /\ UNCHANGED <<file, check, expired>>

\* Leave the guarded section with the result r.
Conclude(c, r) == Goto(c, "unguard") /\ result' = [result EXCEPT ![c] = r]

\* Mutant of Reread: the verdict of the check is trusted under the guard.
TrustVerdict(c) ==
    /\ pc[c] = "reread"
    /\ Goto(c, "recheck")
    /\ UNCHANGED <<file, local, expired, lone>>

\* Under the guard: is the record still the observed one?
Reread(c) ==
    /\ pc[c] = "reread"
    /\ IF obs[c] # NoOne /\ file[level[c]] = obs[c]
         THEN Goto(c, "recheck") /\ UNCHANGED result
         ELSE Conclude(c, "kept")
    /\ UNCHANGED <<file, check, obs, level, expired, lone>>

\* Under the guard: is its process still gone?
Recheck(c, known) ==
    /\ pc[c] = "recheck"
    /\ IF Reclaimable(obs[c], known)
         THEN Goto(c, "remove") /\ UNCHANGED result
         ELSE Conclude(c, "kept")
    /\ Doubt(c, known)
    /\ UNCHANGED <<file, check, obs, level, expired>>

\* rm(lockPath) removes whatever the path names now; when it fails the error
\* leaves acquireFileLock after the guard is released.
Remove(c, ok) ==
    /\ pc[c] = "remove"
    /\ file' = IF ok THEN [file EXCEPT ![level[c]] = NoOne] ELSE file
    /\ Conclude(c, IF ok THEN "removed" ELSE "failed")
    /\ UNCHANGED <<check, obs, level, expired, lone>>

\* releaseLockFile(guard) reads the record and leaves a foreign one alone ...
Unguard(c) ==
    /\ pc[c] = "unguard"
    /\ IF file[level[c] + 1] = c
         THEN Goto(c, "unguardRm") /\ UNCHANGED <<obs, level, result>>
         ELSE After(c, result[c])
    /\ UNCHANGED <<file, check, expired, lone>>

\* ... and removes its own; three failures leave it where it is.
UnguardRemoves(c, ok) ==
    /\ pc[c] = "unguardRm"
    /\ file' = IF ok THEN [file EXCEPT ![level[c] + 1] = NoOne] ELSE file
    /\ lone' = IF ok THEN lone ELSE lone \ {c}
    /\ After(c, result[c])
    /\ UNCHANGED <<check, expired>>

-----------------------------------------------------------------------------
\* The returned function: from here on the caller no longer holds the lock.
Release(c) ==
    /\ pc[c] = "held"
    /\ Goto(c, "release")
    /\ UNCHANGED <<file, local, expired, lone>>

\* releaseLockFile(lock): as for the guard.
ReleaseReads(c) ==
    /\ pc[c] = "release"
    /\ Goto(c, IF file[0] = c THEN "releaseRm" ELSE "done")
    /\ UNCHANGED <<file, local, expired, lone>>

ReleaseRemoves(c, ok) ==
    /\ pc[c] = "releaseRm"
    /\ file' = IF ok THEN [file EXCEPT ![0] = NoOne] ELSE file
    /\ Goto(c, "done")
    /\ UNCHANGED <<local, expired, lone>>

\* The process is gone and its memory with it; its files stay.
Crash(p) ==
    LET its == {c \in Contenders : Proc[c] = p}
    IN  /\ \E c \in its : ~Gone(c)
        /\ pc' = [c \in Contenders |-> IF c \in its THEN "gone" ELSE pc[c]]
        /\ check' = [c \in Contenders |-> IF c \in its THEN "none" ELSE check[c]]
        /\ obs' = [c \in Contenders |-> IF c \in its THEN NoOne ELSE obs[c]]
        /\ level' = [c \in Contenders |-> IF c \in its THEN 0 ELSE level[c]]
        /\ result' = [c \in Contenders |-> IF c \in its THEN "kept" ELSE result[c]]
        /\ expired' = expired \ its
        /\ lone' = lone \ its
        /\ UNCHANGED file

Loop(c)  == Create(c) \/ CreateFails(c) \/ Retry(c) \/ TakeVerdict(c)
Check(c) == CheckReads(c) \/ \E known \in BOOLEAN : CheckSettles(c, known)
Reclaim(c) ==
    \/ CreateGuard(c) \/ GuardExists(c) \/ Observe(c) \/ Reread(c) \/ Unguard(c)
    \/ \E known \in BOOLEAN : Judge(c, known) \/ Recheck(c, known)
    \/ \E ok \in BOOLEAN : Remove(c, ok) \/ UnguardRemoves(c, ok)
Leaving(c) == Release(c) \/ ReleaseReads(c) \/ \E ok \in BOOLEAN : ReleaseRemoves(c, ok)

Next ==
    \/ \E c \in Contenders : \/ Start(c) \/ Expire(c) \/ Throw(c)
                             \/ Loop(c) \/ Check(c) \/ Reclaim(c) \/ Leaving(c)
    \/ \E p \in Processes : Crash(p)

Spec == Init /\ [][Next]_vars

\* The event loop of a live process runs its steps, and time passes.
Fairness ==
    \A c \in Contenders :
        /\ WF_vars(Loop(c)) /\ WF_vars(Check(c)) /\ WF_vars(Reclaim(c))
        /\ SF_vars(Expire(c))

FairSpec == Spec /\ Fairness

-----------------------------------------------------------------------------
\* The type invariant.
TypeOK ==
    /\ file \in [Levels -> Records]
    /\ pc \in [Contenders -> Steps]
    /\ check \in [Contenders -> {"none", "started", "read"} \cup Verdicts]
    /\ expired \subseteq Contenders
    /\ level \in [Contenders -> Levels]
    /\ obs \in [Contenders -> Records]
    /\ result \in [Contenders -> {"kept", "removed", "failed"}]
    /\ lone \subseteq Contenders

\* A live owner keeps its file, be it the lock or a guard: a reclaimer removes the
\* record it observed and never a successor's, however late it comes
\* (file-lock.ts:217-229).
OwnersKeepFiles ==
    \A c \in Contenders :
        /\ pc[c] \in Leaves => file[0] = c
        /\ pc[c] \in Guarding => file[level[c] + 1] = c

\* FileLockBusyError means contention: a caller, even one with waitMs 0, that met
\* no live competitor and no fault recovers whatever the dead left behind,
\* abandoned guards included (file-lock.ts:136-139).
BusyMeansContention == \A c \in lone : pc[c] # "busy"

\* Every call of acquireFileLock in a process that lives on ends: with the lock,
\* with FileLockBusyError or with an error.  (A contender is one call, so this is
\* the same as: again and again no call is waiting.)
EveryCallAnswered == []<>(\A c \in Contenders : pc[c] \in Ended \cup Leaves)

\* The lock file protocol implements the mutual exclusion lock: a crash of the
\* holder's process and the start of a release both end its ownership.
Holding == {c \in Contenders : pc[c] = "held"}
L == INSTANCE Lock WITH holders <- Holding
ImplementsLock == L!LockSpec
================================================================================
