---------------------------- MODULE FileLockProofs -----------------------------
(***************************************************************************)
(* The lock file protocol gives mutual exclusion for any number of         *)
(* contenders and processes and any depth of guards of guards, and answers *)
(* "busy" only to a call that met a live competitor or a fault.            *)
(*                                                                         *)
(* Mutual exclusion rests on IInv: a live owner finds its record where it  *)
(* put it, and a reclaimer removes, under its own guard, a record whose    *)
(* process was seen gone, which nobody relies on any more.  "Busy" rests   *)
(* on LInv: while a call works alone every file in its way was left by the *)
(* dead, stays as it was seen, and is therefore never refused.             *)
(***************************************************************************)
EXTENDS FileLock, TLAPS

\* A contender that holds the lock or a guard finds its own record there.
OwnsFile(c) ==
    /\ pc[c] \in Leaves => file[0] = c
    /\ pc[c] \in Guarding => level[c] < MaxLevel /\ file[level[c] + 1] = c

\* The background check of a contender runs in its loop only.
CheckInLoop(c) == check[c] # "none" => pc[c] \in {"create", "checking", "failed"}

\* A record a contender is about to reclaim was written by a process now gone.
ObservedGone(c) ==
    (pc[c] \in {"guard"} \cup Guarding \/ check[c] = "reclaimable")
        => (obs[c] # NoOne => Gone(obs[c]))

\* Between the second reading and the removal the file is the observed one.
SameOwner(c) ==
    pc[c] \in {"recheck", "remove"} => obs[c] # NoOne /\ file[level[c]] = obs[c]

Good(c) == OwnsFile(c) /\ CheckInLoop(c) /\ ObservedGone(c) /\ SameOwner(c)

IInv == TypeOK /\ \A c \in Contenders : Good(c)

-----------------------------------------------------------------------------
\* Back in the loop: After() touches nothing but the contender's own state.
LEMMA AfterEffect ==
    ASSUME TypeOK, NEW c \in Contenders, NEW r, After(c, r)
    PROVE  /\ pc'[c] \in {"create", "busy", "failed"}
           /\ pc' = [pc EXCEPT ![c] = pc'[c]]
           /\ pc' \in [Contenders -> Steps]
           /\ obs' = [obs EXCEPT ![c] = NoOne]
           /\ obs' \in [Contenders -> Records]
           /\ level' \in [Contenders -> Levels]
           /\ level' = [level EXCEPT ![c] = 0]
           /\ result' \in [Contenders -> {"kept", "removed", "failed"}]
<1> DEFINE step == IF r = "failed" THEN "failed"
                   ELSE IF r = "kept" /\ c \in expired THEN "busy" ELSE "create"
<1>1. step \in {"create", "busy", "failed"}
  OBVIOUS
<1>2. pc' = [pc EXCEPT ![c] = step]
  BY DEF After, Goto
<1>3. pc'[c] = step
  BY <1>2 DEF TypeOK
<1> HIDE DEF step
<1>4. pc' \in [Contenders -> Steps]
  BY <1>1, <1>2 DEF TypeOK, Steps, Ended
<1>5. level' \in [Contenders -> Levels]
  BY FileLockAssumption DEF After, TypeOK, Levels
<1> QED BY <1>1, <1>2, <1>3, <1>4, <1>5 DEF After, TypeOK, Records

\* Every step keeps the types.
LEMMA TypeStep == ASSUME TypeOK, [Next]_vars PROVE TypeOK'
<1> USE FileLockAssumption
<1> USE DEF TypeOK, Levels, Records, Steps, Ended, Leaves, Guarding, Verdicts, Goto, vars, local
<1>1. CASE UNCHANGED vars
  BY <1>1
<1>2. ASSUME NEW c \in Contenders, Start(c) \/ Expire(c) \/ Throw(c)  PROVE TypeOK'
  BY <1>2 DEF Start, Expire, Throw
<1>3. ASSUME NEW c \in Contenders, Loop(c)  PROVE TypeOK'
  <2>1. CASE Create(c)
    BY <2>1 DEF Create
  <2>2. CASE CreateFails(c)
    BY <2>2 DEF CreateFails
  <2>3. CASE Retry(c)
    BY <2>3 DEF Retry
  <2>4. CASE TakeVerdict(c)
    <3>1. CASE check[c] = "reclaimable"
      BY <2>4, <3>1 DEF TakeVerdict
    <3>2. CASE check[c] # "reclaimable"
      BY <2>4, <3>2, AfterEffect DEF TakeVerdict
    <3> QED BY <3>1, <3>2
  <2> QED BY <1>3, <2>1, <2>2, <2>3, <2>4 DEF Loop
<1>4. ASSUME NEW c \in Contenders, Check(c)  PROVE TypeOK'
  <2>1. CASE CheckReads(c)
    BY <2>1 DEF CheckReads
  <2>2. ASSUME NEW known \in BOOLEAN, CheckSettles(c, known)  PROVE TypeOK'
    BY <2>2 DEF CheckSettles, Doubt
  <2> QED BY <1>4, <2>1, <2>2 DEF Check
<1>5. ASSUME NEW c \in Contenders, Reclaim(c)  PROVE TypeOK'
  <2>1. CASE CreateGuard(c)
    BY <2>1 DEF CreateGuard
  <2>2. CASE GuardExists(c)
    <3>1. level[c] + 1 \in Levels
      BY <2>2 DEF GuardExists
    <3> QED BY <2>2, <3>1 DEF GuardExists
  <2>9. CASE Observe(c)
    BY <2>9 DEF Observe
  <2>3. ASSUME NEW known \in BOOLEAN, Judge(c, known)  PROVE TypeOK'
    <3>1. CASE Reclaimable(obs[c], known)
      BY <2>3, <3>1 DEF Judge, Doubt
    <3>2. CASE ~Reclaimable(obs[c], known)
      BY <2>3, <3>2, AfterEffect DEF Judge, Doubt
    <3> QED BY <3>1, <3>2
  <2>4. CASE Reread(c)
    BY <2>4 DEF Reread, Conclude
  <2>5. ASSUME NEW known \in BOOLEAN, Recheck(c, known)  PROVE TypeOK'
    BY <2>5 DEF Recheck, Conclude, Doubt
  <2>6. ASSUME NEW ok \in BOOLEAN, Remove(c, ok)  PROVE TypeOK'
    BY <2>6 DEF Remove, Conclude
  <2>7. CASE Unguard(c)
    <3>1. CASE file[level[c] + 1] = c
      BY <2>7, <3>1 DEF Unguard
    <3>2. CASE file[level[c] + 1] # c
      BY <2>7, <3>2, AfterEffect DEF Unguard
    <3> QED BY <3>1, <3>2
  <2>8. ASSUME NEW ok \in BOOLEAN, UnguardRemoves(c, ok)  PROVE TypeOK'
    BY <2>8, AfterEffect DEF UnguardRemoves
  <2> QED BY <1>5, <2>1, <2>2, <2>3, <2>4, <2>5, <2>6, <2>7, <2>8, <2>9 DEF Reclaim
<1>6. ASSUME NEW c \in Contenders, Leaving(c)  PROVE TypeOK'
  BY <1>6 DEF Leaving, Release, ReleaseReads, ReleaseRemoves
<1>7. ASSUME NEW p \in Processes, Crash(p)  PROVE TypeOK'
  BY <1>7 DEF Crash
<1> QED BY <1>1, <1>2, <1>3, <1>4, <1>5, <1>6, <1>7 DEF Next

-----------------------------------------------------------------------------
\* What a step of c may do to the others: it writes its own local state, its
\* process lives on, and it leaves the files the others rely on.
OnlyOwn(c) ==
    /\ \A d \in Contenders \ {c} :
           pc'[d] = pc[d] /\ check'[d] = check[d] /\ obs'[d] = obs[d] /\ level'[d] = level[d]
    /\ ~Gone(c) /\ ~Gone(c)'

KeepsFiles(c) ==
    \A d \in Contenders \ {c} :
        /\ pc[d] \in Leaves => file'[0] = file[0]
        /\ pc[d] \in Guarding => file'[level[d] + 1] = file[level[d] + 1]
        /\ pc[d] \in {"recheck", "remove"} => file'[level[d]] = file[level[d]]

\* A step of c that leaves alone what the others rely on keeps their part of IInv.
LEMMA Others ==
    ASSUME IInv, NEW c \in Contenders, OnlyOwn(c), KeepsFiles(c), Good(c)'
    PROVE  \A d \in Contenders : Good(d)'
<1>1. SUFFICES ASSUME NEW d \in Contenders, d # c  PROVE Good(d)'
  OBVIOUS
<1>2. Good(d) /\ obs[d] \in Records
  BY DEF IInv, TypeOK
<1>3. pc'[d] = pc[d] /\ check'[d] = check[d] /\ obs'[d] = obs[d] /\ level'[d] = level[d]
  BY <1>1 DEF OnlyOwn
<1>4. OwnsFile(d)'
  BY <1>1, <1>2, <1>3 DEF Good, OwnsFile, KeepsFiles
<1>5. CheckInLoop(d)'
  BY <1>2, <1>3 DEF Good, CheckInLoop
<1>6. ObservedGone(d)'
  <2>1. ASSUME NEW r \in Contenders, Gone(r)  PROVE Gone(r)'
    BY <2>1 DEF OnlyOwn, Gone
  <2> QED BY <1>2, <1>3, <2>1 DEF Good, ObservedGone, Records
<1>7. SameOwner(d)'
  BY <1>1, <1>2, <1>3 DEF Good, SameOwner, KeepsFiles, Guarding
<1> QED BY <1>4, <1>5, <1>6, <1>7 DEF Good

\* A step of c that leaves the files alone.
LEMMA NoFileStep ==
    ASSUME IInv, NEW c \in Contenders, UNCHANGED file
    PROVE  KeepsFiles(c)
BY DEF KeepsFiles

\* The steps of the loop and of the background check.
LEMMA LoopStep ==
    ASSUME IInv, NEW c \in Contenders,
           Start(c) \/ Expire(c) \/ Throw(c) \/ Loop(c) \/ Check(c)
    PROVE  OnlyOwn(c) /\ KeepsFiles(c) /\ Good(c)'
<1> USE FileLockAssumption
<1> USE DEF Goto, local
<1>0. TypeOK /\ Good(c) /\ 0 \in Levels
  BY DEF IInv, Levels
<1>1. CASE Start(c)
  BY <1>0, <1>1, NoFileStep DEF Start, TypeOK, Good, OwnsFile, CheckInLoop, ObservedGone,
     SameOwner, Leaves, Guarding, Gone, OnlyOwn, Records
<1>7. CASE Expire(c)
  BY <1>0, <1>7, NoFileStep DEF Expire, TypeOK, Good, OwnsFile, CheckInLoop, ObservedGone,
     SameOwner, Leaves, Guarding, Gone, OnlyOwn, Records
<1>8. CASE Throw(c)
  BY <1>0, <1>8, NoFileStep DEF Throw, TypeOK, Good, OwnsFile, CheckInLoop, ObservedGone,
     SameOwner, Leaves, Guarding, Gone, OnlyOwn, Records
<1>2. CASE Create(c)
  <2>1. KeepsFiles(c)
    <3> SUFFICES ASSUME NEW d \in Contenders, d # c  PROVE
           /\ pc[d] \in Leaves => file'[0] = file[0]
           /\ pc[d] \in Guarding => file'[level[d] + 1] = file[level[d] + 1]
           /\ pc[d] \in {"recheck", "remove"} => file'[level[d]] = file[level[d]]
      BY DEF KeepsFiles
    <3>1. Good(d) /\ level[d] \in Levels
      BY DEF IInv, TypeOK
    <3>2. pc[d] \notin Leaves
      BY <1>0, <1>2, <3>1 DEF Create, Good, OwnsFile
    <3>3. level[d] + 1 # 0
      BY <3>1 DEF Levels
    <3>4. pc[d] \in {"recheck", "remove"} => level[d] # 0
      BY <1>2, <3>1 DEF Create, Good, SameOwner
    <3> QED BY <1>0, <1>2, <3>2, <3>3, <3>4 DEF Create, TypeOK
  <2>2. OnlyOwn(c) /\ Good(c)'
    BY <1>0, <1>2 DEF Create, TypeOK, Good, OwnsFile, CheckInLoop, ObservedGone, SameOwner, Leaves, Guarding,
       Gone, OnlyOwn
  <2> QED BY <2>1, <2>2
<1>3. CASE CreateFails(c)
  BY <1>0, <1>3, NoFileStep DEF CreateFails, TypeOK, Good, OwnsFile, CheckInLoop, ObservedGone,
     SameOwner, Leaves, Guarding, Gone, OnlyOwn, Records
<1>9. CASE Retry(c)
  BY <1>0, <1>9, NoFileStep DEF Retry, TypeOK, Good, OwnsFile, CheckInLoop, ObservedGone,
     SameOwner, Leaves, Guarding, Gone, OnlyOwn, Records
<1>4. CASE TakeVerdict(c)
  <2>1. CASE check[c] = "reclaimable"
    BY <1>0, <1>4, <2>1, NoFileStep DEF TakeVerdict, TypeOK, Good, OwnsFile, CheckInLoop, ObservedGone,
       SameOwner, Leaves, Guarding, Gone, OnlyOwn, Records
  <2>2. CASE check[c] # "reclaimable"
    BY <1>0, <1>4, <2>2, NoFileStep, AfterEffect DEF TakeVerdict, TypeOK, Good, OwnsFile, CheckInLoop,
       ObservedGone, SameOwner, Leaves, Guarding, Gone, OnlyOwn, Records
  <2> QED BY <2>1, <2>2
<1>5. CASE CheckReads(c)
  BY <1>0, <1>5, NoFileStep DEF CheckReads, TypeOK, Good, OwnsFile, CheckInLoop, ObservedGone,
     SameOwner, Leaves, Guarding, Gone, OnlyOwn, Records
<1>6. ASSUME NEW known \in BOOLEAN, CheckSettles(c, known)
      PROVE OnlyOwn(c) /\ KeepsFiles(c) /\ Good(c)'
  BY <1>0, <1>6, NoFileStep DEF CheckSettles, Reclaimable, TypeOK, Good, OwnsFile, CheckInLoop,
     ObservedGone, SameOwner, Leaves, Guarding, Gone, OnlyOwn, Records
<1> QED BY <1>1, <1>2, <1>3, <1>4, <1>5, <1>6, <1>7, <1>8, <1>9 DEF Loop, Check

\* The file that a step of c writes at level l was free, or was c's own, or had a
\* writer that is gone and is reclaimed by c: no other contender relies on it.
LEMMA Unrelied ==
    ASSUME IInv, NEW c \in Contenders, NEW l \in Levels, NEW r \in Records,
           \/ file[l] = NoOne
           \/ file[l] = c /\ ~Gone(c)
           \/ l < MaxLevel /\ file[l + 1] = c /\ file[l] \in Contenders /\ Gone(file[l]),
           file' = [file EXCEPT ![l] = r]
    PROVE  KeepsFiles(c)
<1>0. TypeOK
  BY DEF IInv
<1> SUFFICES ASSUME NEW d \in Contenders, d # c
             PROVE  /\ pc[d] \in Leaves => file'[0] = file[0]
                    /\ pc[d] \in Guarding => file'[level[d] + 1] = file[level[d] + 1]
                    /\ pc[d] \in {"recheck", "remove"} => file'[level[d]] = file[level[d]]
  BY DEF KeepsFiles
<1>1. Good(d) /\ level[d] \in Levels /\ obs[d] \in Records
  BY DEF IInv, TypeOK
<1>2. ASSUME NEW k \in Levels, k # l  PROVE file'[k] = file[k]
  BY <1>0, <1>2 DEF TypeOK
<1>3. pc[d] \in Leaves \cup Guarding => ~Gone(d)
  BY DEF Gone, Leaves, Guarding
<1>4. d # NoOne
  BY FileLockAssumption
<1>5. ASSUME NEW k \in Levels, file[k] = d, ~Gone(d)  PROVE k # l
  BY <1>4, <1>5
<1>6. 0 \in Levels
  BY FileLockAssumption DEF Levels
<1>7. pc[d] \in Leaves => file'[0] = file[0]
  BY <1>1, <1>2, <1>3, <1>5, <1>6 DEF Good, OwnsFile
<1>8. ASSUME pc[d] \in Guarding  PROVE level[d] + 1 \in Levels
  BY <1>1, <1>8, FileLockAssumption DEF Good, OwnsFile, Levels
<1>9. pc[d] \in Guarding => file'[level[d] + 1] = file[level[d] + 1]
  BY <1>1, <1>2, <1>3, <1>5, <1>8 DEF Good, OwnsFile
<1>10. ASSUME pc[d] \in {"recheck", "remove"}  PROVE level[d] # l
  <2>1. pc[d] \in Guarding
    BY <1>10 DEF Guarding
  <2>2. obs[d] # NoOne /\ file[level[d]] = obs[d] /\ Gone(obs[d])
    BY <1>1, <1>10, <2>1 DEF Good, SameOwner, ObservedGone
  <2>3. file[level[d] + 1] = d
    BY <1>1, <2>1 DEF Good, OwnsFile
  <2> QED BY <2>2, <2>3
<1> QED BY <1>1, <1>2, <1>7, <1>9, <1>10

\* The steps of reclaimObservedOwner and reclaimDeadLock.
LEMMA ReclaimStep ==
    ASSUME IInv, NEW c \in Contenders, Reclaim(c)
    PROVE  OnlyOwn(c) /\ KeepsFiles(c) /\ Good(c)'
<1> USE FileLockAssumption
<1> USE DEF Goto, local, Conclude
<1>0. TypeOK /\ Good(c) /\ level[c] \in Levels
  BY DEF IInv, TypeOK
<1>a. c \in Records /\ NoOne \in Records
  BY DEF Records
<1>1. CASE CreateGuard(c)
  <2>1. level[c] + 1 \in Levels
    BY <1>0, <1>1 DEF CreateGuard, Levels
  <2>2. KeepsFiles(c)
    BY <1>1, <1>a, <2>1, Unrelied DEF CreateGuard
  <2> QED BY <1>0, <1>1, <2>1, <2>2 DEF CreateGuard, TypeOK, Good, OwnsFile, CheckInLoop,
       ObservedGone, SameOwner, Leaves, Guarding, Gone, OnlyOwn, Records
<1>2. CASE GuardExists(c)
  BY <1>0, <1>2, NoFileStep DEF GuardExists, TypeOK, Good, OwnsFile, CheckInLoop,
     ObservedGone, SameOwner, Leaves, Guarding, Gone, OnlyOwn, Records
<1>3. CASE Observe(c)
  BY <1>0, <1>3, NoFileStep DEF Observe, TypeOK, Good, OwnsFile, CheckInLoop,
     ObservedGone, SameOwner, Leaves, Guarding, Gone, OnlyOwn, Records
<1>4. ASSUME NEW known \in BOOLEAN, Judge(c, known)
      PROVE OnlyOwn(c) /\ KeepsFiles(c) /\ Good(c)'
  <2>1. CASE Reclaimable(obs[c], known)
    BY <1>0, <1>4, <2>1, NoFileStep DEF Judge, Reclaimable, TypeOK, Good, OwnsFile, CheckInLoop,
       ObservedGone, SameOwner, Leaves, Guarding, Gone, OnlyOwn, Records
  <2>2. CASE ~Reclaimable(obs[c], known)
    BY <1>0, <1>4, <2>2, NoFileStep, AfterEffect DEF Judge, TypeOK, Good, OwnsFile, CheckInLoop,
       ObservedGone, SameOwner, Leaves, Guarding, Gone, OnlyOwn
  <2> QED BY <2>1, <2>2
<1>5. CASE Reread(c)
  BY <1>0, <1>5, NoFileStep DEF Reread, TypeOK, Good, OwnsFile, CheckInLoop,
     ObservedGone, SameOwner, Leaves, Guarding, Gone, OnlyOwn, Records
<1>6. ASSUME NEW known \in BOOLEAN, Recheck(c, known)
      PROVE OnlyOwn(c) /\ KeepsFiles(c) /\ Good(c)'
  BY <1>0, <1>6, NoFileStep DEF Recheck, TypeOK, Good, OwnsFile, CheckInLoop,
     ObservedGone, SameOwner, Leaves, Guarding, Gone, OnlyOwn, Records
<1>7. ASSUME NEW ok \in BOOLEAN, Remove(c, ok)
      PROVE OnlyOwn(c) /\ KeepsFiles(c) /\ Good(c)'
  <2>1. /\ obs[c] # NoOne /\ file[level[c]] = obs[c] /\ Gone(obs[c])
        /\ level[c] < MaxLevel /\ file[level[c] + 1] = c
    BY <1>0, <1>7 DEF Remove, Good, OwnsFile, SameOwner, ObservedGone, Guarding
  <2>2. obs[c] \in Contenders
    BY <1>0, <2>1 DEF TypeOK, Records
  <2>3. KeepsFiles(c)
    <3>1. CASE ok
      BY <1>0, <1>7, <1>a, <2>1, <2>2, <3>1, Unrelied DEF Remove
    <3>2. CASE ~ok
      BY <1>7, <3>2, NoFileStep DEF Remove
    <3> QED BY <3>1, <3>2
  <2>4. file'[level[c] + 1] = c
    BY <1>0, <1>7, <2>1 DEF Remove, TypeOK, Levels
  <2> QED BY <1>0, <1>7, <2>1, <2>2, <2>3, <2>4 DEF Remove, TypeOK, Good, OwnsFile, CheckInLoop,
       ObservedGone, SameOwner, Leaves, Guarding, Gone, OnlyOwn
<1>8. CASE Unguard(c)
  <2>1. CASE file[level[c] + 1] = c
    BY <1>0, <1>8, <2>1, NoFileStep DEF Unguard, TypeOK, Good, OwnsFile, CheckInLoop,
       ObservedGone, SameOwner, Leaves, Guarding, Gone, OnlyOwn, Records
  <2>2. CASE file[level[c] + 1] # c
    BY <1>0, <1>8, <2>2, NoFileStep, AfterEffect DEF Unguard, TypeOK, Good, OwnsFile, CheckInLoop,
       ObservedGone, SameOwner, Leaves, Guarding, Gone, OnlyOwn
  <2> QED BY <2>1, <2>2
<1>9. ASSUME NEW ok \in BOOLEAN, UnguardRemoves(c, ok)
      PROVE OnlyOwn(c) /\ KeepsFiles(c) /\ Good(c)'
  <2>1. level[c] + 1 \in Levels /\ file[level[c] + 1] = c /\ ~Gone(c)
    BY <1>0, <1>9 DEF UnguardRemoves, Good, OwnsFile, Guarding, Levels, Gone
  <2>2. KeepsFiles(c)
    <3>1. CASE ok
      BY <1>9, <1>a, <2>1, <3>1, Unrelied DEF UnguardRemoves
    <3>2. CASE ~ok
      BY <1>9, <3>2, NoFileStep DEF UnguardRemoves
    <3> QED BY <3>1, <3>2
  <2> QED BY <1>0, <1>9, <2>2, AfterEffect DEF UnguardRemoves, TypeOK, Good, OwnsFile, CheckInLoop,
       ObservedGone, SameOwner, Leaves, Guarding, Gone, OnlyOwn
<1> QED BY <1>1, <1>2, <1>3, <1>4, <1>5, <1>6, <1>7, <1>8, <1>9 DEF Reclaim

\* The steps of the release.
LEMMA LeavingStep ==
    ASSUME IInv, NEW c \in Contenders, Leaving(c)
    PROVE  OnlyOwn(c) /\ KeepsFiles(c) /\ Good(c)'
<1> USE FileLockAssumption
<1> USE DEF Goto, local
<1>0. TypeOK /\ Good(c) /\ 0 \in Levels /\ NoOne \in Records
  BY DEF IInv, Levels, Records
<1>1. CASE Release(c)
  BY <1>0, <1>1, NoFileStep DEF Release, TypeOK, Good, OwnsFile, CheckInLoop,
     ObservedGone, SameOwner, Leaves, Guarding, Gone, OnlyOwn, Records
<1>2. CASE ReleaseReads(c)
  BY <1>0, <1>2, NoFileStep DEF ReleaseReads, TypeOK, Good, OwnsFile, CheckInLoop,
     ObservedGone, SameOwner, Leaves, Guarding, Gone, OnlyOwn, Records
<1>3. ASSUME NEW ok \in BOOLEAN, ReleaseRemoves(c, ok)
      PROVE OnlyOwn(c) /\ KeepsFiles(c) /\ Good(c)'
  <2>1. file[0] = c /\ ~Gone(c)
    BY <1>0, <1>3 DEF ReleaseRemoves, Good, OwnsFile, Leaves, Gone
  <2>2. KeepsFiles(c)
    <3>1. CASE ok
      BY <1>0, <1>3, <2>1, <3>1, Unrelied DEF ReleaseRemoves
    <3>2. CASE ~ok
      BY <1>3, <3>2, NoFileStep DEF ReleaseRemoves
    <3> QED BY <3>1, <3>2
  <2> QED BY <1>0, <1>3, <2>2 DEF ReleaseRemoves, TypeOK, Good, OwnsFile, CheckInLoop,
       ObservedGone, SameOwner, Leaves, Guarding, Gone, OnlyOwn, Records
<1> QED BY <1>1, <1>2, <1>3 DEF Leaving

\* A crash: the contenders of the process are gone, everybody else's record stays.
LEMMA CrashStep ==
    ASSUME IInv, NEW p \in Processes, Crash(p)
    PROVE  \A d \in Contenders : Good(d)'
<1> SUFFICES ASSUME NEW d \in Contenders  PROVE Good(d)'
  OBVIOUS
<1>0. TypeOK /\ Good(d) /\ obs[d] \in Records
  BY DEF IInv, TypeOK
<1>1. CASE Proc[d] = p
  BY <1>0, <1>1 DEF Crash, TypeOK, Good, OwnsFile, CheckInLoop, ObservedGone, SameOwner, Leaves, Guarding
<1>2. CASE Proc[d] # p
  <2>1. pc'[d] = pc[d] /\ check'[d] = check[d] /\ obs'[d] = obs[d] /\ level'[d] = level[d] /\ file' = file
    BY <1>2 DEF Crash
  <2>2. ASSUME NEW r \in Contenders, Gone(r)  PROVE Gone(r)'
    BY <2>2 DEF Crash, Gone
  <2> QED BY <1>0, <2>1, <2>2 DEF Good, OwnsFile, CheckInLoop, ObservedGone, SameOwner, Records
<1> QED BY <1>1, <1>2

\* The inductive invariant holds at first and every step keeps it.
LEMMA IInvInit == Init => IInv
BY FileLockAssumption DEF Init, IInv, TypeOK, Levels, Records, Steps, Ended, Good, OwnsFile, CheckInLoop,
   ObservedGone, SameOwner, Leaves, Guarding

\* As above: one case for each kind of step.
LEMMA IInvStep == IInv /\ [Next]_vars => IInv'
<1> SUFFICES ASSUME IInv, [Next]_vars  PROVE IInv'
  OBVIOUS
<1>1. TypeOK'
  BY TypeStep DEF IInv
<1>2. CASE UNCHANGED vars
  BY <1>1, <1>2 DEF vars, local, IInv, Good, OwnsFile, CheckInLoop, ObservedGone, SameOwner, Gone
<1>3. ASSUME NEW c \in Contenders,
             OnlyOwn(c) /\ KeepsFiles(c) /\ Good(c)'
      PROVE  IInv'
  BY <1>1, <1>3, Others DEF IInv
<1>4. ASSUME NEW c \in Contenders,
             Start(c) \/ Expire(c) \/ Throw(c) \/ Loop(c) \/ Check(c)
      PROVE  IInv'
  BY <1>3, <1>4, LoopStep
<1>5. ASSUME NEW c \in Contenders, Reclaim(c)  PROVE IInv'
  BY <1>3, <1>5, ReclaimStep
<1>6. ASSUME NEW c \in Contenders, Leaving(c)  PROVE IInv'
  BY <1>3, <1>6, LeavingStep
<1>7. ASSUME NEW p \in Processes, Crash(p)  PROVE IInv'
  BY <1>1, <1>7, CrashStep DEF IInv
<1> QED BY <1>2, <1>4, <1>5, <1>6, <1>7 DEF Next

\* No step of any contender takes the lock file or a guard from its live owner, for
\* any number of contenders, processes and levels.
THEOREM OwnersKeepFilesAlways == Spec => [](TypeOK /\ OwnersKeepFiles)
<1>1. IInv => TypeOK /\ OwnersKeepFiles
  BY DEF IInv, Good, OwnsFile, OwnersKeepFiles
<1> QED BY <1>1, IInvInit, IInvStep, PTL DEF Spec

-----------------------------------------------------------------------------
\* Every step of the protocol is a step of the abstract lock, or none.
LEMMA LockStep == IInv /\ [Next]_vars => [L!LockNext]_Holding
<1> SUFFICES ASSUME IInv, [Next]_vars  PROVE L!LockNext \/ Holding' = Holding
  OBVIOUS
<1>0. TypeOK /\ \A c \in Contenders : Good(c)
  BY DEF IInv
<1>1. CASE UNCHANGED vars
  BY <1>1 DEF vars, Holding
<1>2. ASSUME NEW c \in Contenders, Create(c)  PROVE L!LockNext
  <2>1. Holding = {}
    <3> SUFFICES ASSUME NEW d \in Contenders, pc[d] = "held"  PROVE FALSE
      BY DEF Holding
    <3>1. file[0] = d
      BY <1>0 DEF Good, OwnsFile, Leaves
    <3> QED BY <1>2, <3>1, FileLockAssumption DEF Create
  <2>2. Holding' = {c}
    BY <1>0, <1>2, <2>1 DEF Create, Goto, Holding, TypeOK
  <2> QED BY <2>1, <2>2 DEF L!LockNext, L!Acquire
<1>3. ASSUME NEW c \in Contenders, Release(c)  PROVE L!LockNext
  BY <1>0, <1>3 DEF Release, Goto, Holding, TypeOK, L!LockNext, L!Leave
<1>4. ASSUME NEW c \in Contenders, pc' = [pc EXCEPT ![c] = pc'[c]], pc[c] # "held", pc'[c] # "held"
      PROVE  Holding' = Holding
  BY <1>0, <1>4 DEF Holding, TypeOK
<1>5. ASSUME NEW c \in Contenders, Start(c) \/ Expire(c) \/ Throw(c) \/ CreateFails(c) \/ Retry(c) \/ Check(c)
      PROVE  Holding' = Holding
  BY <1>0, <1>4, <1>5 DEF Start, Expire, Throw, CreateFails, Retry, Check, CheckReads, CheckSettles, Goto, TypeOK
<1>6. ASSUME NEW c \in Contenders, TakeVerdict(c)  PROVE Holding' = Holding
  BY <1>0, <1>4, <1>6, AfterEffect DEF TakeVerdict, Goto, TypeOK
<1>7. ASSUME NEW c \in Contenders, Reclaim(c)  PROVE Holding' = Holding
  <2>1. ASSUME NEW known \in BOOLEAN, Judge(c, known)  PROVE Holding' = Holding
    BY <1>0, <1>4, <2>1, AfterEffect DEF Judge, Goto, TypeOK
  <2>2. CASE Unguard(c)
    BY <1>0, <1>4, <2>2, AfterEffect DEF Unguard, Goto, TypeOK
  <2>3. ASSUME NEW ok \in BOOLEAN, UnguardRemoves(c, ok)  PROVE Holding' = Holding
    BY <1>0, <1>4, <2>3, AfterEffect DEF UnguardRemoves
  <2>4. CASE CreateGuard(c) \/ GuardExists(c) \/ Observe(c)
    BY <1>0, <1>4, <2>4 DEF CreateGuard, GuardExists, Observe, Goto, TypeOK
  <2>5. CASE Reread(c)
    BY <1>0, <1>4, <2>5 DEF Reread, Conclude, Goto, TypeOK
  <2>6. ASSUME NEW known \in BOOLEAN, Recheck(c, known)  PROVE Holding' = Holding
    BY <1>0, <1>4, <2>6 DEF Recheck, Conclude, Goto, TypeOK
  <2>7. ASSUME NEW ok \in BOOLEAN, Remove(c, ok)  PROVE Holding' = Holding
    BY <1>0, <1>4, <2>7 DEF Remove, Conclude, Goto, TypeOK
  <2> QED BY <1>7, <2>1, <2>2, <2>3, <2>4, <2>5, <2>6, <2>7 DEF Reclaim
<1>8. ASSUME NEW c \in Contenders, ReleaseReads(c) \/ \E ok \in BOOLEAN : ReleaseRemoves(c, ok)
      PROVE  Holding' = Holding
  BY <1>0, <1>4, <1>8 DEF ReleaseReads, ReleaseRemoves, Goto, TypeOK
<1>9. ASSUME NEW p \in Processes, Crash(p)  PROVE L!LockNext \/ Holding' = Holding
  <2>1. ASSUME NEW c \in Contenders, NEW d \in Contenders, c \in Holding, d \in Holding  PROVE c = d
    BY <1>0, <2>1 DEF Holding, Good, OwnsFile, Leaves
  <2>2. Holding' = {c \in Holding : Proc[c] # p}
    BY <1>9 DEF Crash, Holding
  <2>3. CASE \E c \in Holding : Proc[c] = p
    <3>1. PICK c \in Holding : Proc[c] = p
      BY <2>3
    <3>2. c \in Contenders
      BY <3>1 DEF Holding
    <3>3. \A d \in Holding : d = c
      BY <2>1, <3>1, <3>2 DEF Holding
    <3>4. Holding' = Holding \ {c}
      BY <2>2, <3>1, <3>3
    <3> QED BY <3>1, <3>2, <3>4 DEF L!LockNext, L!Leave
  <2>4. CASE \A c \in Holding : Proc[c] # p
    BY <2>2, <2>4
  <2> QED BY <2>3, <2>4
<1> QED BY <1>1, <1>2, <1>3, <1>5, <1>6, <1>7, <1>8, <1>9 DEF Next, Loop, Leaving

\* The lock file protocol implements the abstract lock: for any number of contenders
\* and processes, crashes at any step and reclaimers as late as they like, two callers
\* never hold the lock at once.
THEOREM FileLockImplementsLock == Spec => ImplementsLock
<1>1. Init => L!LockInit
  BY DEF Init, Holding, L!LockInit
<1> QED BY <1>1, IInvInit, IInvStep, LockStep, PTL DEF Spec, ImplementsLock, L!LockSpec
-----------------------------------------------------------------------------
\* A contender in its loop reclaims nothing yet.
AtLoop == \A c \in Contenders : pc[c] \in {"idle", "create", "checking"} => level[c] = 0

Working == Guarding \cup {"create", "checking", "guard", "observe", "judge"}

\* No file names a live process, but for the guard of c itself.
DeadFiles(c) ==
    \A l \in Levels : file[l] \in Contenders =>
        Gone(file[l]) \/ (file[l] = c /\ pc[c] \in Guarding /\ l = level[c] + 1)

\* The file that c found in its way is still there, and c saw what is in it.
SeesFile(c) ==
    /\ pc[c] \in {"create", "checking"} =>
           /\ check[c] # "refused"
           /\ check[c] # "none" => file[0] # NoOne
           /\ check[c] \in {"read", "reclaimable"} => obs[c] = file[0]
    /\ pc[c] = "observe" => file[level[c]] # NoOne
    /\ pc[c] \in {"guard", "judge", "reread", "recheck", "remove"} =>
           obs[c] # NoOne /\ obs[c] = file[level[c]]
    /\ pc[c] \in {"unguard", "unguardRm"} => result[c] # "kept"

LoneOK(c) ==
    /\ pc[c] # "busy"
    /\ pc[c] \in Working =>
           /\ \A d \in Contenders \ {c} : pc[d] \in Ended
           /\ DeadFiles(c)
           /\ SeesFile(c)

LInv == AtLoop /\ \A c \in lone : LoneOK(c)


\* Every step keeps the file a looping contender works on at the lock itself.
LEMMA AtLoopStep == ASSUME IInv, AtLoop, [Next]_vars PROVE AtLoop'
<1> SUFFICES ASSUME NEW d \in Contenders, pc'[d] \in {"idle", "create", "checking"}  PROVE level'[d] = 0
  BY DEF AtLoop
<1>0. TypeOK
  BY DEF IInv
<1>a. pc[d] \in {"idle", "create", "checking"} => level[d] = 0
  BY DEF AtLoop
<1> USE DEF Goto, local
<1>1. CASE UNCHANGED vars
  BY <1>1, <1>a DEF vars
<1>2. ASSUME NEW c \in Contenders, Start(c) \/ Expire(c) \/ Throw(c) \/ Check(c) \/ Leaving(c)
      PROVE  level'[d] = 0
  BY <1>0, <1>2, <1>a DEF Start, Expire, Throw, Check, CheckReads, CheckSettles, Leaving, Release,
     ReleaseReads, ReleaseRemoves, TypeOK
<1>3. ASSUME NEW c \in Contenders, Create(c) \/ CreateFails(c) \/ Retry(c)  PROVE level'[d] = 0
  BY <1>0, <1>3, <1>a DEF Create, CreateFails, Retry, TypeOK
<1>4. ASSUME NEW c \in Contenders, TakeVerdict(c)  PROVE level'[d] = 0
  BY <1>0, <1>4, <1>a DEF TakeVerdict, After, TypeOK
<1>5. ASSUME NEW c \in Contenders, Reclaim(c)  PROVE level'[d] = 0
  <2>1. CASE CreateGuard(c) \/ GuardExists(c) \/ Observe(c)
    BY <1>0, <1>a, <2>1 DEF CreateGuard, GuardExists, Observe, TypeOK
  <2>2. CASE Reread(c)
    BY <1>0, <1>a, <2>2 DEF Reread, Conclude, TypeOK
  <2>3. ASSUME NEW ok \in BOOLEAN, Recheck(c, ok) \/ Remove(c, ok)  PROVE level'[d] = 0
    BY <1>0, <1>a, <2>3 DEF Recheck, Remove, Conclude, TypeOK
  <2>4. ASSUME NEW known \in BOOLEAN, Judge(c, known)  PROVE level'[d] = 0
    BY <1>0, <1>a, <2>4 DEF Judge, After, TypeOK
  <2>5. CASE Unguard(c)
    BY <1>0, <1>a, <2>5 DEF Unguard, After, TypeOK
  <2>6. ASSUME NEW ok \in BOOLEAN, UnguardRemoves(c, ok)  PROVE level'[d] = 0
    BY <1>0, <1>a, <2>6 DEF UnguardRemoves, After, TypeOK
  <2> QED BY <1>5, <2>1, <2>2, <2>3, <2>4, <2>5, <2>6 DEF Reclaim
<1>6. ASSUME NEW p \in Processes, Crash(p)  PROVE level'[d] = 0
  BY <1>6, <1>a DEF Crash
<1> QED BY <1>1, <1>2, <1>3, <1>4, <1>5, <1>6 DEF Next, Loop

\* A step that changes no file, and no guard of c, leaves dead what was dead.
LEMMA DeadFilesKept ==
    ASSUME TypeOK, NEW c \in Contenders, DeadFiles(c), OnlyOwn(c), file' = file,
           pc[c] \in Guarding => pc'[c] \in Guarding /\ level'[c] = level[c]
    PROVE  DeadFiles(c)'
<1> SUFFICES ASSUME NEW l \in Levels, file[l] \in Contenders
             PROVE  Gone(file[l])' \/ (file[l] = c /\ pc'[c] \in Guarding /\ l = level'[c] + 1)
  BY DEF DeadFiles
<1>1. CASE Gone(file[l])
  BY <1>1 DEF OnlyOwn, Gone
<1>2. CASE file[l] = c /\ pc[c] \in Guarding /\ l = level[c] + 1
  BY <1>2
<1> QED BY <1>1, <1>2 DEF DeadFiles

\* What a contender that works alone finds in its way was left by the dead.
LEMMA FoundIsGone ==
    ASSUME TypeOK, NEW c \in Contenders, DeadFiles(c), NEW l \in Levels, file[l] # NoOne,
           pc[c] \notin Guarding \/ l # level[c] + 1
    PROVE  file[l] \in Contenders /\ Gone(file[l])
BY DEF TypeOK, Records, DeadFiles

\* Its own steps take a lone contender to the lock or to an error, never to "busy".
LEMMA LoneOwnStep ==
    ASSUME IInv, LInv, NEW c \in lone, c \in lone', OnlyOwn(c),
           Expire(c) \/ Throw(c) \/ Loop(c) \/ Check(c) \/ Reclaim(c) \/ Leaving(c)
    PROVE  LoneOK(c)'
<1> USE FileLockAssumption
<1> USE DEF Goto, local
<1>0. TypeOK /\ c \in Contenders /\ Good(c) /\ LoneOK(c) /\ 0 \in Levels /\ level[c] \in Levels
  BY DEF IInv, TypeOK, LInv, Levels
<1>a. pc[c] \in {"create", "checking"} => level[c] = 0
  BY <1>0 DEF LInv, AtLoop
<1>b. ASSUME pc'[c] \notin Working, pc'[c] # "busy"  PROVE LoneOK(c)'
  BY <1>b DEF LoneOK
<1>c. ASSUME pc[c] \in Working, pc'[c] # "busy", DeadFiles(c)', SeesFile(c)'  PROVE LoneOK(c)'
  <2>1. \A d \in Contenders \ {c} : pc'[d] \in Ended
    BY <1>0, <1>c DEF LoneOK, OnlyOwn
  <2> QED BY <1>c, <2>1 DEF LoneOK
<1>d. ASSUME pc[c] \in Working  PROVE DeadFiles(c) /\ SeesFile(c)
  BY <1>0, <1>d DEF LoneOK
<1>1. CASE Expire(c)
  <2>1. pc[c] \in Working /\ pc'[c] # "busy"
    BY <1>1 DEF Expire, Working
  <2>2. DeadFiles(c)'
    BY <1>0, <1>1, <1>d, <2>1, DeadFilesKept DEF Expire
  <2>3. SeesFile(c)'
    BY <1>1, <1>d, <2>1 DEF Expire, SeesFile
  <2> QED BY <1>c, <2>1, <2>2, <2>3
<1>2. CASE Throw(c)
  BY <1>0, <1>2, <1>b DEF Throw, TypeOK, Working, Guarding
<1>3. CASE Create(c)
  BY <1>0, <1>3, <1>b DEF Create, TypeOK, Working, Guarding
<1>4. CASE CreateFails(c)
  <2>1. pc[c] \in Working /\ pc[c] \notin Guarding /\ pc'[c] = "checking"
    BY <1>0, <1>4 DEF CreateFails, Working, Guarding, TypeOK
  <2>2. DeadFiles(c)'
    BY <1>0, <1>4, <1>d, <2>1, DeadFilesKept DEF CreateFails
  <2>3. SeesFile(c)'
    BY <1>0, <1>4, <1>d, <2>1 DEF CreateFails, SeesFile, TypeOK
  <2> QED BY <1>c, <2>1, <2>2, <2>3
<1>5. CASE Retry(c)
  <2>1. pc[c] \in Working /\ pc[c] \notin Guarding /\ pc[c] = "checking" /\ pc'[c] = "create"
    BY <1>0, <1>5 DEF Retry, Working, Guarding, TypeOK
  <2>2. DeadFiles(c)'
    BY <1>0, <1>5, <1>d, <2>1, DeadFilesKept DEF Retry
  <2>3. SeesFile(c)'
    BY <1>5, <1>d, <2>1 DEF Retry, SeesFile
  <2> QED BY <1>c, <2>1, <2>2, <2>3
<1>6. CASE TakeVerdict(c)
  <2>1. pc[c] \in Working /\ pc[c] \notin Guarding /\ pc[c] = "checking"
    BY <1>6 DEF TakeVerdict, Working, Guarding
  <2>2. check[c] = "reclaimable" /\ file[0] # NoOne /\ obs[c] = file[0]
    BY <1>6, <1>d, <2>1 DEF TakeVerdict, SeesFile, Verdicts
  <2>3. pc'[c] = "guard" /\ obs'[c] = obs[c] /\ level'[c] = 0 /\ file' = file
    BY <1>0, <1>6, <1>a, <2>1, <2>2 DEF TakeVerdict, TypeOK
  <2>4. DeadFiles(c)'
    BY <1>0, <1>d, <2>1, <2>3, DeadFilesKept
  <2>5. SeesFile(c)'
    BY <2>2, <2>3 DEF SeesFile
  <2> QED BY <1>c, <2>1, <2>3, <2>4, <2>5
<1>7. CASE CheckReads(c)
  <2>1. pc[c] \in Working /\ pc[c] \notin Guarding /\ pc[c] \in {"create", "checking"} /\ pc'[c] = pc[c]
    BY <1>7 DEF CheckReads, Working, Guarding
  <2>2. DeadFiles(c)'
    BY <1>0, <1>7, <1>d, <2>1, DeadFilesKept DEF CheckReads
  <2>3. SeesFile(c)'
    BY <1>0, <1>7, <1>d, <2>1 DEF CheckReads, SeesFile, TypeOK
  <2> QED BY <1>c, <2>1, <2>2, <2>3
<1>8. ASSUME NEW known \in BOOLEAN, CheckSettles(c, known)  PROVE LoneOK(c)'
  <2>1. pc[c] \in Working /\ pc[c] \notin Guarding /\ pc[c] \in {"create", "checking"} /\ pc'[c] = pc[c]
    BY <1>8 DEF CheckSettles, Working, Guarding
  <2>2. file[0] # NoOne /\ obs[c] = file[0]
    BY <1>8, <1>d, <2>1 DEF CheckSettles, SeesFile
  <2>3. Gone(obs[c])
    BY <1>0, <1>d, <2>1, <2>2, FoundIsGone
  <2>4. known
    BY <1>8 DEF CheckSettles, Doubt
  <2>5. check'[c] = "reclaimable" /\ obs'[c] = obs[c] /\ file' = file
    BY <1>0, <1>8, <2>3, <2>4 DEF CheckSettles, Reclaimable, TypeOK
  <2>6. DeadFiles(c)'
    BY <1>0, <1>d, <2>1, <2>5, DeadFilesKept
  <2>7. SeesFile(c)'
    BY <2>1, <2>2, <2>5 DEF SeesFile
  <2> QED BY <1>c, <2>1, <2>6, <2>7
<1>9. CASE CreateGuard(c)
  <2>1. pc[c] \in Working /\ pc[c] \notin Guarding /\ pc[c] = "guard" /\ pc'[c] = "reread"
    BY <1>0, <1>9 DEF CreateGuard, Working, Guarding, TypeOK
  <2>2. level[c] + 1 \in Levels /\ level'[c] = level[c] /\ obs'[c] = obs[c]
    BY <1>0, <1>9 DEF CreateGuard, Levels
  <2>3. DeadFiles(c)'
    <3> SUFFICES ASSUME NEW l \in Levels, file'[l] \in Contenders
                 PROVE  Gone(file[l])' \/ (file'[l] = c /\ pc'[c] \in Guarding /\ l = level'[c] + 1)
      BY DEF DeadFiles
    <3>1. CASE l = level[c] + 1
      BY <1>0, <1>9, <2>1, <2>2, <3>1 DEF CreateGuard, TypeOK, Guarding
    <3>2. CASE l # level[c] + 1
      <4>1. file'[l] = file[l]
        BY <1>0, <1>9, <3>2 DEF CreateGuard, TypeOK
      <4>2. Gone(file[l])
        BY <1>d, <2>1, <4>1 DEF DeadFiles
      <4> QED BY <4>1, <4>2 DEF OnlyOwn, Gone
    <3> QED BY <3>1, <3>2
  <2>4. SeesFile(c)'
    <3>1. file'[level[c]] = file[level[c]]
      BY <1>0, <1>9, <2>2 DEF CreateGuard, TypeOK, Levels
    <3> QED BY <1>d, <2>1, <2>2, <3>1 DEF SeesFile
  <2> QED BY <1>c, <2>1, <2>3, <2>4
<1>10. CASE GuardExists(c)
  <2>1. pc[c] \in Working /\ pc[c] \notin Guarding /\ pc'[c] = "observe"
    BY <1>0, <1>10 DEF GuardExists, Working, Guarding, TypeOK
  <2>2. DeadFiles(c)'
    BY <1>0, <1>10, <1>d, <2>1, DeadFilesKept DEF GuardExists
  <2>3. level'[c] = level[c] + 1
    BY <1>0, <1>10 DEF GuardExists, TypeOK
  <2>4. SeesFile(c)'
    BY <1>10, <2>1, <2>3 DEF GuardExists, SeesFile
  <2> QED BY <1>c, <2>1, <2>2, <2>4
<1>11. CASE Observe(c)
  <2>1. pc[c] \in Working /\ pc[c] \notin Guarding /\ pc[c] = "observe" /\ pc'[c] = "judge"
    BY <1>0, <1>11 DEF Observe, Working, Guarding, TypeOK
  <2>2. DeadFiles(c)'
    BY <1>0, <1>11, <1>d, <2>1, DeadFilesKept DEF Observe
  <2>3. SeesFile(c)'
    BY <1>0, <1>11, <1>d, <2>1 DEF Observe, SeesFile, TypeOK
  <2> QED BY <1>c, <2>1, <2>2, <2>3
<1>12. ASSUME NEW known \in BOOLEAN, Judge(c, known)  PROVE LoneOK(c)'
  <2>1. pc[c] \in Working /\ pc[c] \notin Guarding /\ pc[c] = "judge"
    BY <1>12 DEF Judge, Working, Guarding
  <2>2. obs[c] # NoOne /\ obs[c] = file[level[c]]
    BY <1>d, <2>1 DEF SeesFile
  <2>3. Gone(obs[c])
    BY <1>0, <1>d, <2>1, <2>2, FoundIsGone
  <2>4. known
    BY <1>12 DEF Judge, Doubt
  <2>5. pc'[c] = "guard" /\ UNCHANGED <<file, obs, level>>
    BY <1>0, <1>12, <2>3, <2>4 DEF Judge, Reclaimable, TypeOK
  <2>6. DeadFiles(c)'
    BY <1>0, <1>d, <2>1, <2>5, DeadFilesKept
  <2>7. SeesFile(c)'
    BY <2>2, <2>5 DEF SeesFile
  <2> QED BY <1>c, <2>1, <2>5, <2>6, <2>7
<1>13. CASE Reread(c)
  <2>1. pc[c] \in Working /\ pc[c] \in Guarding /\ pc[c] = "reread"
    BY <1>13 DEF Reread, Working, Guarding
  <2>2. obs[c] # NoOne /\ obs[c] = file[level[c]]
    BY <1>d, <2>1 DEF SeesFile
  <2>3. pc'[c] = "recheck" /\ UNCHANGED <<file, obs, level>>
    BY <1>0, <1>13, <2>2 DEF Reread, TypeOK
  <2>4. DeadFiles(c)'
    BY <1>0, <1>d, <2>1, <2>3, DeadFilesKept DEF Guarding
  <2>5. SeesFile(c)'
    BY <2>2, <2>3 DEF SeesFile
  <2> QED BY <1>c, <2>1, <2>3, <2>4, <2>5
<1>14. ASSUME NEW known \in BOOLEAN, Recheck(c, known)  PROVE LoneOK(c)'
  <2>1. pc[c] \in Working /\ pc[c] \in Guarding /\ pc[c] = "recheck"
    BY <1>14 DEF Recheck, Working, Guarding
  <2>2. obs[c] # NoOne /\ obs[c] = file[level[c]]
    BY <1>d, <2>1 DEF SeesFile
  <2>3. Gone(obs[c])
    BY <1>0, <2>1, <2>2 DEF Good, ObservedGone
  <2>4. known
    BY <1>14 DEF Recheck, Doubt
  <2>5. pc'[c] = "remove" /\ UNCHANGED <<file, obs, level>>
    BY <1>0, <1>14, <2>3, <2>4 DEF Recheck, Reclaimable, TypeOK
  <2>6. DeadFiles(c)'
    BY <1>0, <1>d, <2>1, <2>5, DeadFilesKept DEF Guarding
  <2>7. SeesFile(c)'
    BY <2>2, <2>5 DEF SeesFile
  <2> QED BY <1>c, <2>1, <2>5, <2>6, <2>7
<1>15. ASSUME NEW ok \in BOOLEAN, Remove(c, ok)  PROVE LoneOK(c)'
  <2>1. pc[c] \in Working /\ pc[c] \in Guarding /\ pc'[c] = "unguard" /\ level' = level
    BY <1>0, <1>15 DEF Remove, Conclude, Working, Guarding, TypeOK
  <2>2. result'[c] # "kept"
    BY <1>0, <1>15 DEF Remove, Conclude, TypeOK
  <2>3. DeadFiles(c)'
    <3>1. CASE ok
      <4> SUFFICES ASSUME NEW l \in Levels, file'[l] \in Contenders
                   PROVE  Gone(file[l])' \/ (file'[l] = c /\ pc'[c] \in Guarding /\ l = level'[c] + 1)
        BY DEF DeadFiles
      <4>1. l # level[c] /\ file'[l] = file[l]
        BY <1>0, <1>15, <3>1 DEF Remove, TypeOK
      <4>2. CASE Gone(file[l])
        BY <4>1, <4>2 DEF OnlyOwn, Gone
      <4>3. CASE file[l] = c /\ pc[c] \in Guarding /\ l = level[c] + 1
        BY <2>1, <4>1, <4>3 DEF Guarding
      <4> QED BY <1>d, <2>1, <4>1, <4>2, <4>3 DEF DeadFiles
    <3>2. CASE ~ok
      BY <1>0, <1>15, <1>d, <2>1, <3>2, DeadFilesKept DEF Remove, Guarding
    <3> QED BY <3>1, <3>2
  <2>4. SeesFile(c)'
    BY <2>1, <2>2 DEF SeesFile
  <2> QED BY <1>c, <2>1, <2>3, <2>4
<1>16. CASE Unguard(c)
  <2>1. pc[c] \in Working /\ pc[c] \in Guarding /\ pc[c] = "unguard"
    BY <1>16 DEF Unguard, Working, Guarding
  <2>2. file[level[c] + 1] = c
    BY <1>0, <2>1 DEF Good, OwnsFile
  <2>3. pc'[c] = "unguardRm" /\ UNCHANGED <<file, level, result>>
    BY <1>0, <1>16, <2>2 DEF Unguard, TypeOK
  <2>4. DeadFiles(c)'
    BY <1>0, <1>d, <2>1, <2>3, DeadFilesKept DEF Guarding
  <2>5. SeesFile(c)'
    BY <1>d, <2>1, <2>3 DEF SeesFile
  <2> QED BY <1>c, <2>1, <2>3, <2>4, <2>5
<1>17. ASSUME NEW ok \in BOOLEAN, UnguardRemoves(c, ok)  PROVE LoneOK(c)'
  <2>1. pc[c] \in Working /\ pc[c] \in Guarding /\ pc[c] = "unguardRm"
    BY <1>17 DEF UnguardRemoves, Working, Guarding
  <2>2. ok /\ check'[c] = "none"
    BY <1>0, <1>17, <2>1 DEF UnguardRemoves, Good, CheckInLoop
  <2>3. result[c] # "kept"
    BY <1>d, <2>1 DEF SeesFile
  <2>4. pc'[c] \in {"create", "failed"}
    BY <1>0, <1>17, <2>3 DEF UnguardRemoves, After, TypeOK
  <2>5. level[c] + 1 \in Levels
    BY <1>0, <2>1 DEF Good, OwnsFile, Levels
  <2>6. DeadFiles(c)'
    <3> SUFFICES ASSUME NEW l \in Levels, file'[l] \in Contenders
                 PROVE  Gone(file[l])'
      BY DEF DeadFiles
    <3>1. l # level[c] + 1 /\ file'[l] = file[l]
      BY <1>0, <1>17, <2>2, <2>5 DEF UnguardRemoves, TypeOK
    <3>2. Gone(file[l])
      BY <1>d, <2>1, <3>1 DEF DeadFiles
    <3> QED BY <3>1, <3>2 DEF OnlyOwn, Gone
  <2>7. SeesFile(c)'
    BY <2>2, <2>4 DEF SeesFile
  <2> QED BY <1>c, <2>1, <2>4, <2>6, <2>7
<1>18. CASE Leaving(c)
  BY <1>0, <1>18, <1>b DEF Leaving, Release, ReleaseReads, ReleaseRemoves, TypeOK, Working, Guarding
<1> QED BY <1>1, <1>2, <1>3, <1>4, <1>5, <1>6, <1>7, <1>8, <1>9, <1>10, <1>11, <1>12, <1>13, <1>14,
           <1>15, <1>16, <1>17, <1>18 DEF Loop, Check, Reclaim

\* While a lone contender works, another can only start, which makes c no longer
\* lone, or crash.
LEMMA LoneOtherStep ==
    ASSUME IInv, LInv, NEW c \in lone, NEW d \in Contenders, d # c, OnlyOwn(d),
           Expire(d) \/ Throw(d) \/ Loop(d) \/ Check(d) \/ Reclaim(d) \/ Leaving(d)
    PROVE  LoneOK(c)'
<1>0. TypeOK /\ c \in Contenders /\ LoneOK(c)
  BY DEF IInv, TypeOK, LInv
<1>1. pc[d] \notin Ended
  BY DEF Ended, Expire, Throw, Loop, Create, CreateFails, Retry, TakeVerdict, Check, CheckReads, CheckSettles,
     Reclaim, CreateGuard, GuardExists, Observe, Judge, Reread, Recheck, Remove, Unguard, UnguardRemoves,
     Leaving, Release, ReleaseReads, ReleaseRemoves
<1>2. pc[c] \notin Working /\ pc[c] # "busy"
  BY <1>0, <1>1 DEF LoneOK
<1>3. pc'[c] = pc[c]
  BY <1>0 DEF OnlyOwn
<1> QED BY <1>2, <1>3 DEF LoneOK

\* A crash of others takes nothing from a lone contender.
LEMMA LoneCrashStep ==
    ASSUME IInv, LInv, NEW c \in lone', NEW p \in Processes, Crash(p)
    PROVE  LoneOK(c)'
<1>0. TypeOK /\ c \in lone /\ c \in Contenders /\ LoneOK(c)
  BY DEF IInv, TypeOK, LInv, Crash
<1>1. Proc[c] # p
  BY <1>0 DEF Crash
<1>2. /\ pc'[c] = pc[c] /\ check'[c] = check[c] /\ obs'[c] = obs[c] /\ level'[c] = level[c]
      /\ result'[c] = result[c] /\ file' = file
  BY <1>0, <1>1 DEF Crash
<1>3. \A d \in Contenders : pc[d] \in Ended => pc'[d] \in Ended
  BY DEF Crash, Ended
<1>4. \A r \in Contenders : Gone(r) => Gone(r)'
  BY DEF Crash, Gone
<1>5. SeesFile(c) => SeesFile(c)'
  BY <1>2 DEF SeesFile
<1>6. DeadFiles(c) => DeadFiles(c)'
  BY <1>2, <1>4 DEF DeadFiles
<1> QED BY <1>0, <1>2, <1>3, <1>5, <1>6 DEF LoneOK

\* The invariant of lone contenders holds at first and every step keeps it.
LEMMA LInvInit == Init => LInv
BY DEF Init, LInv, AtLoop

\* As above: a call that starts alone finds only files of the dead.
LEMMA LInvStep == IInv /\ LInv /\ [Next]_vars => LInv'
<1> SUFFICES ASSUME IInv, LInv, [Next]_vars  PROVE LInv'
  OBVIOUS
<1>1. AtLoop'
  BY AtLoopStep DEF LInv
<1> SUFFICES ASSUME NEW c \in lone'  PROVE LoneOK(c)'
  BY <1>1 DEF LInv
<1>0. TypeOK
  BY DEF IInv
<1>2. CASE UNCHANGED vars
  BY <1>2 DEF vars, local, LInv, LoneOK, DeadFiles, SeesFile, Gone
<1>3. ASSUME NEW d \in Contenders, Start(d)  PROVE LoneOK(c)'
  <2>1. c = d /\ Quiet(d)
    BY <1>3 DEF Start
  <2>2. pc'[d] = "create" /\ \A e \in Contenders \ {d} : pc'[e] = pc[e]
    BY <1>0, <1>3 DEF Start, Goto, TypeOK
  <2>3. check'[d] = "none" /\ file' = file
    BY <1>3 DEF Start, local, IInv, Good, CheckInLoop
  <2>4. DeadFiles(d)'
    BY <1>3, <2>1, <2>2, <2>3 DEF Start, Quiet, DeadFiles, Gone
  <2>5. SeesFile(d)'
    BY <2>2, <2>3 DEF SeesFile
  <2> QED BY <2>1, <2>2, <2>4, <2>5 DEF LoneOK, Quiet
<1>4. ASSUME NEW d \in Contenders,
             Expire(d) \/ Throw(d) \/ Loop(d) \/ Check(d) \/ Reclaim(d) \/ Leaving(d)
      PROVE  LoneOK(c)'
  <2>1. OnlyOwn(d)
    BY <1>4, LoopStep, ReclaimStep, LeavingStep
  <2>2. c \in lone
    BY <1>4 DEF Expire, Throw, Loop, Create, CreateFails, Retry, TakeVerdict, Check, CheckReads, CheckSettles,
       Doubt, Reclaim, CreateGuard, GuardExists, Observe, Judge, Reread, Recheck, Remove, Unguard,
       UnguardRemoves, Leaving, Release, ReleaseReads, ReleaseRemoves
  <2>3. CASE c = d
    BY <1>4, <2>1, <2>2, <2>3, LoneOwnStep
  <2>4. CASE c # d
    BY <1>4, <2>1, <2>2, <2>4, LoneOtherStep
  <2> QED BY <2>3, <2>4
<1>5. ASSUME NEW p \in Processes, Crash(p)  PROVE LoneOK(c)'
  BY <1>5, LoneCrashStep
<1> QED BY <1>2, <1>3, <1>4, <1>5 DEF Next

\* FileLockBusyError means contention, for any number of contenders and any depth of
\* guards the dead left behind: a call that met no live competitor and no fault gets
\* the lock or an error of the file system, even when its time is over.
THEOREM BusyMeansContentionAlways == Spec => []BusyMeansContention
<1>1. LInv => BusyMeansContention
  BY DEF LInv, LoneOK, BusyMeansContention
<1> QED BY <1>1, IInvInit, IInvStep, LInvInit, LInvStep, PTL DEF Spec
=============================================================================
