------------------------------- MODULE CommitLog -------------------------------
(***************************************************************************)
(* packages/core/src/authority/commit-log.ts: the append-only log all      *)
(* authority facts are committed to, and a durable projection of it.       *)
(*                                                                         *)
(* Several instances (writers) share the files.  A transaction runs under  *)
(* the writer lock, which an instance keeps between its operations until a *)
(* failure, the idle timer, the hold limit or a hand-off closes the        *)
(* session: verify the log and quarantine an incomplete tail, bring the    *)
(* projection up to the head (or, in an instance that has not registered   *)
(* it, replay the log), let the caller decide from that state, write one   *)
(* frame, sync, publish to the projection, answer.  Processes die between  *)
(* any two of these steps, writes stop short, syncs fail, and power fails. *)
(*                                                                         *)
(* A frame is reduced to the transaction it carries; its LSN is its place  *)
(* and a prefix digest is the prefix itself (the digests chain, so equal   *)
(* digests mean equal prefixes; a frame written again after it was lost    *)
(* carries another time and another digest, which only makes the code      *)
(* rebuild a projection the model may keep).  The caller's decision is the *)
(* one its users make: a transaction already in the projection is answered *)
(* from there and not written again.                                       *)
(*                                                                         *)
(* The disk: a process crash keeps what was written; a power failure keeps *)
(* at least what was synced and of the rest some prefix, the next frame    *)
(* possibly incomplete.                                                    *)
(***************************************************************************)
EXTENDS Naturals, Sequences, FiniteSets

CONSTANTS
    Writers,    \* instances of FileAuthorityCommitLog on one directory
    Registered, \* the instances that have registered the durable projection
    Ops,        \* transactions callers submit, and submit again
    None

ASSUME CommitLogAssumption ==
    /\ None \notin Ops /\ None \notin Writers
    /\ Registered \subseteq Writers

VARIABLES
    file,       \* the whole frames of authority.log
    torn,       \* the incomplete frame behind them, or None
    synced,     \* number of frames that survive a power failure
    saved,      \* incomplete frames copied to the quarantine directory
    disk,       \* the projection's published checkpoint and state
    holders,    \* who holds the writer lock
    pc,         \* where each writer's operation is
    op,         \* the transaction it works on
    tail,       \* #verifiedTail: the log content its operation has verified
    mem,        \* its projection, or the state it has replayed
    fresh,      \* writers whose projection stems from the published generation
    acked       \* history: the LSN a caller was told its transaction got, or 0

store  == <<file, torn, synced, saved>>
proj   == <<disk, mem, fresh>>
vars   == <<store, proj, holders, pc, op, tail, acked>>

Steps == {"idle", "enter", "load", "copied", "project", "decide", "write", "sync", "publish"}

\* Steps taken inside #withLogLock.
Inside == Steps \ {"idle", "enter"}

Extends(s, t) == Len(t) <= Len(s) /\ SubSeq(s, 1, Len(t)) = t

Applied(s) == {s[i] : i \in 1 .. Len(s)}

EmptyProjection == [prefix |-> << >>, applied |-> {}]

Init ==
    /\ file = << >> /\ torn = None /\ synced = 0 /\ saved = {}
    /\ disk = EmptyProjection
    /\ holders = {}
    /\ pc = [w \in Writers |-> "idle"]
    /\ op = [w \in Writers |-> None]
    /\ tail = [w \in Writers |-> << >>]
    /\ mem = [w \in Writers |-> EmptyProjection]
    /\ fresh = {}
    /\ acked = [o \in Ops |-> 0]

-----------------------------------------------------------------------------
Goto(w, step) == pc' = [pc EXCEPT ![w] = step]

\* The next operation verifies the log again.
End(w) ==
    /\ Goto(w, "idle")
    /\ op' = [op EXCEPT ![w] = None]
    /\ tail' = [tail EXCEPT ![w] = << >>]

\* The operation ends with an error: the session closes at this boundary.
Fail(w) == End(w) /\ holders' = holders \ {w}

\* The operation ends well: the session may outlive it (#leaveLockSession).
Leave(w) == End(w) /\ holders' \in {holders, holders \ {w}}

\* transactProjection is called: it waits for its turn and for the lock.
Submit(w, o) ==
    /\ pc[w] = "idle"
    /\ Goto(w, "enter")
    /\ op' = [op EXCEPT ![w] = o]
    /\ UNCHANGED <<store, proj, holders, tail, acked>>

\* #enterLockSession: the session still held, or a new one.
Enter(w) ==
    /\ pc[w] = "enter"
    /\ holders \subseteq {w}
    /\ holders' = {w}
    /\ Goto(w, "load")
    /\ UNCHANGED <<store, proj, op, tail, acked>>

\* The lock stays with another instance for longer than lockWaitMs.
Busy(w) ==
    /\ pc[w] = "enter" /\ ~ holders \subseteq {w}
    /\ End(w)
    /\ UNCHANGED <<store, proj, holders, acked>>

\* The idle timer, the hold limit or a hand-off to another instance closes a
\* session no operation uses.
CloseSession(w) ==
    /\ w \in holders /\ pc[w] \notin Inside
    /\ holders' = holders \ {w}
    /\ UNCHANGED <<store, proj, pc, op, tail, acked>>

\* #loadLastLsn, #readAndRecover: every frame is verified (or known to be
\* unchanged since it was) and the tail recorded.
Load(w) ==
    /\ pc[w] = "load" /\ torn = None
    /\ tail' = [tail EXCEPT ![w] = file]
    /\ Goto(w, "project")
    /\ UNCHANGED <<store, proj, holders, op, acked>>

CutBeforeCopy(w) ==
    /\ pc[w] = "load" /\ torn # None
    /\ torn' = None
    /\ Goto(w, "copied")
    /\ UNCHANGED <<file, synced, saved, proj, holders, op, tail, acked>>

\* #quarantineTail, first half: the incomplete frame is copied and synced.
CopyTail(w) ==
    /\ pc[w] = "load" /\ torn # None
    /\ saved' = saved \cup {torn}
    /\ Goto(w, "copied")
    /\ UNCHANGED <<file, torn, synced, proj, holders, op, tail, acked>>

CutTooMuch(w) ==
    /\ pc[w] = "copied"
    /\ torn' = None
    /\ file' = SubSeq(file, 1, IF Len(file) = 0 THEN 0 ELSE Len(file) - 1)
    /\ synced' = Len(file')
    /\ tail' = [tail EXCEPT ![w] = file']
    /\ Goto(w, "project")
    /\ UNCHANGED <<saved, proj, holders, op, acked>>

\* #quarantineTail, second half: the log is cut back to its last whole frame
\* and synced; #recordVerifiedTail.
TruncateTail(w) ==
    /\ pc[w] = "copied"
    /\ torn' = None
    /\ synced' = Len(file)
    /\ tail' = [tail EXCEPT ![w] = file]
    /\ Goto(w, "project")
    /\ UNCHANGED <<file, saved, proj, holders, op, acked>>

\* The copy, the cut or the sync behind it fails.
RecoveryFails(w) ==
    /\ pc[w] \in {"load", "copied"} /\ torn # None
    /\ Fail(w)
    /\ torn' \in IF pc[w] = "copied" THEN {torn, None} ELSE {torn}
    /\ UNCHANGED <<file, synced, saved, proj, acked>>

-----------------------------------------------------------------------------
\* A boundary behind the head is compared by its LSN alone.
SameLsn(p) == Len(p.prefix) < Len(file) \/ p.prefix = file

\* #validateDurableCheckpoint: the checkpoint names a frame boundary of this
\* log with the same LSN and prefix digest.
ValidCheckpoint(p) == Extends(file, p.prefix)

\* Without the projection the state is reduced from the log itself.
Replay(w) ==
    /\ pc[w] = "project" /\ w \notin Registered
    /\ mem' = [mem EXCEPT ![w] = [prefix |-> file, applied |-> Applied(file)]]
    /\ Goto(w, "decide")
    /\ UNCHANGED <<store, disk, fresh, holders, op, tail, acked>>

\* refreshPublishedState: another instance has published since; what this one
\* had not published is dropped and comes again from the log.
Adopt(w) ==
    /\ pc[w] = "project" /\ w \in Registered \ fresh
    /\ mem' = [mem EXCEPT ![w] = disk]
    /\ fresh' = fresh \cup {w}
    /\ UNCHANGED <<store, disk, holders, pc, op, tail, acked>>

\* #openDurableProjection meets a boundary that is not of this log: an empty
\* projection is published in its place.
Reset(w) ==
    /\ pc[w] = "project" /\ w \in fresh
    /\ ~ ValidCheckpoint(mem[w])
    /\ mem' = [mem EXCEPT ![w] = EmptyProjection]
    /\ disk' = EmptyProjection
    /\ fresh' = {w}
    /\ UNCHANGED <<store, holders, pc, op, tail, acked>>

\* The next frame is reduced and the checkpoint becomes that frame's boundary.
Reduce(p) ==
    LET lsn == Len(p.prefix) + 1
    IN  [prefix |-> SubSeq(file, 1, lsn), applied |-> p.applied \cup {file[lsn]}]

\* #recoverProjectionPage, a page of one frame.  A short tail is caught up at
\* once; a longer one between pages that release the lock, after which the
\* operation starts over (AuthorityPreparationRequired).
Page(w) ==
    /\ pc[w] = "project" /\ w \in fresh
    /\ ValidCheckpoint(mem[w]) /\ mem[w].prefix # file
    /\ mem' = [mem EXCEPT ![w] = Reduce(mem[w])]
    /\ \/ UNCHANGED <<pc, holders>>
       \/ Goto(w, "enter") /\ holders' = holders \ {w}
    /\ UNCHANGED <<store, disk, fresh, op, tail, acked>>

Synchronized(w) ==
    /\ pc[w] = "project" /\ w \in fresh
    /\ ValidCheckpoint(mem[w]) /\ mem[w].prefix = file
    /\ Goto(w, "decide")
    /\ UNCHANGED <<store, proj, holders, op, tail, acked>>

\* A maintenance flush publishes what is in memory, or adopts what another
\* instance has published.  It takes the lock like an operation of its own.
Flush(w) ==
    /\ w \in Registered
    /\ pc[w] = "idle" /\ holders \subseteq {w}
    /\ IF w \in fresh
       THEN disk' = mem[w] /\ fresh' = {w} /\ UNCHANGED mem
       ELSE mem' = [mem EXCEPT ![w] = disk] /\ fresh' = fresh \cup {w} /\ UNCHANGED disk
    /\ UNCHANGED <<store, holders, pc, op, tail, acked>>

-----------------------------------------------------------------------------
\* decide answers from the projection.
Return(w) ==
    /\ pc[w] = "decide" /\ op[w] \in mem[w].applied
    /\ Leave(w)
    /\ UNCHANGED <<store, proj, acked>>

AppendAlways(w) ==
    /\ pc[w] = "decide"
    /\ Goto(w, "write")
    /\ UNCHANGED <<store, proj, holders, op, tail, acked>>

\* decide wants the frame written; #append prepares it and the delta.
Prepare(w) ==
    /\ pc[w] = "decide" /\ op[w] \notin mem[w].applied
    /\ Goto(w, "write")
    /\ UNCHANGED <<store, proj, holders, op, tail, acked>>

\* The file must still be the verified one ("Authority log changed before
\* append").
Unchanged(w) == tail[w] = file /\ torn = None

Write(w) ==
    /\ pc[w] = "write" /\ Unchanged(w)
    /\ file' = Append(file, op[w])
    /\ Goto(w, "sync")
    /\ UNCHANGED <<torn, synced, saved, proj, holders, op, tail, acked>>

\* An error before the whole frame is in the file.
WriteFails(w) ==
    /\ pc[w] = "write"
    /\ torn' \in IF Unchanged(w) THEN {torn, op[w]} ELSE {torn}
    /\ Fail(w)
    /\ UNCHANGED <<file, synced, saved, proj, acked>>

\* Mutant of Sync: the frame is published without a sync.
NoSync(w) ==
    /\ pc[w] = "sync"
    /\ tail' = [tail EXCEPT ![w] = file]
    /\ Goto(w, "publish")
    /\ UNCHANGED <<store, proj, holders, op, acked>>

Sync(w) ==
    /\ pc[w] = "sync"
    /\ synced' = Len(file)
    /\ tail' = [tail EXCEPT ![w] = file]
    /\ Goto(w, "publish")
    /\ UNCHANGED <<file, torn, saved, proj, holders, op, acked>>

\* The frame is in the file but the outcome is uncertain.
SyncFails(w) ==
    /\ pc[w] = "sync"
    /\ Fail(w)
    /\ UNCHANGED <<store, proj, acked>>

\* The committed frame reaches the projection and the caller.
Publish(w) ==
    /\ pc[w] = "publish"
    /\ mem' = [mem EXCEPT ![w] = Reduce(mem[w])]
    /\ acked' = [acked EXCEPT ![op[w]] = Len(file)]
    /\ Leave(w)
    /\ UNCHANGED <<store, disk, fresh>>

-----------------------------------------------------------------------------
\* The writer's process dies; its lock is reclaimed.
Crash(w) ==
    /\ Fail(w)
    /\ mem' = [mem EXCEPT ![w] = EmptyProjection]
    /\ fresh' = fresh \ {w}
    /\ UNCHANGED <<store, disk, acked>>

\* What is left behind the first k frames after a power failure.
TornAfter(k) == IF k < Len(file) THEN {None, file[k + 1]} ELSE {None, torn}

PowerFailure ==
    /\ \E k \in synced .. Len(file) :
         /\ file' = SubSeq(file, 1, k)
         /\ synced' = k
         /\ torn' \in TornAfter(k)
    /\ holders' = {} /\ fresh' = {}
    /\ pc' = [w \in Writers |-> "idle"]
    /\ op' = [w \in Writers |-> None]
    /\ tail' = [w \in Writers |-> << >>]
    /\ mem' = [w \in Writers |-> EmptyProjection]
    /\ UNCHANGED <<saved, disk, acked>>

Step(w) ==
    \/ Enter(w) \/ Busy(w) \/ Load(w) \/ CopyTail(w) \/ TruncateTail(w) \/ RecoveryFails(w)
    \/ Replay(w) \/ Adopt(w) \/ Reset(w) \/ Page(w) \/ Synchronized(w)
    \/ Return(w) \/ Prepare(w) \/ Write(w) \/ WriteFails(w)
    \/ Sync(w) \/ SyncFails(w) \/ Publish(w)

Next ==
    \/ \E w \in Writers :
         \/ \E o \in Ops : Submit(w, o)
         \/ Step(w) \/ CloseSession(w) \/ Flush(w) \/ Crash(w)
    \/ PowerFailure

Spec == Init /\ [][Next]_vars

-----------------------------------------------------------------------------
Projections == [prefix : Seq(Ops), applied : SUBSET Ops]

\* Every variable has its type.
TypeOK ==
    /\ file \in Seq(Ops)
    /\ torn \in Ops \cup {None}
    /\ synced \in 0 .. Len(file)
    /\ saved \subseteq Ops
    /\ disk \in Projections
    /\ holders \subseteq Writers
    /\ pc \in [Writers -> Steps]
    /\ op \in [Writers -> Ops \cup {None}]
    /\ tail \in [Writers -> Seq(Ops)]
    /\ mem \in [Writers -> Projections]
    /\ fresh \subseteq Registered
    /\ acked \in [Ops -> Nat]

\* A transaction is in the log at most once, however often it is submitted
\* again after an uncertain append, a crash or a power failure, and through
\* whichever instance.
AtMostOnce == \A i, j \in 1 .. Len(file) : file[i] = file[j] => i = j

\* A transaction its caller was told is committed stays durable, at the LSN
\* the caller was given, through every later crash, power failure, truncation
\* and append.
CommittedKept ==
    \A o \in Ops : acked[o] # 0 => acked[o] <= synced /\ file[acked[o]] = o

\* No frame is written and no answer given from a projection that differs
\* from what replaying the current log would give: one published before a
\* power failure cut the log, or by another instance, is never trusted.
DecisionsCurrent ==
    \A w \in Writers :
      pc[w] \in {"decide", "write"} => mem[w] = [prefix |-> file, applied |-> Applied(file)]

\* A writer inside an operation is the only one to touch the log.
OneWriter == \A w \in Writers : pc[w] \in Inside => holders = {w}

\* No bytes behind the last whole frame are removed without a copy, except by
\* the power failure itself: a crash between copy and cut loses nothing.
NothingDiscarded ==
    [][torn # None /\ torn' = None /\ ~ PowerFailure => torn \in saved]_vars

\* The durable part of the file implements the abstract log.
Abstract == INSTANCE AtomicLog WITH log <- SubSeq(file, 1, synced)

ImplementsAtomicLog == Abstract!LogSpec
================================================================================
