---------------------------- MODULE CommitLogProofs ----------------------------
(***************************************************************************)
(* The safety of the authority log for any number of writers and           *)
(* transactions, and its refinement of AtomicLog.                          *)
(***************************************************************************)
EXTENDS CommitLog, TLAPS

\* Every projection, in memory or published, is the replay of its own prefix.
Sound(p) == p.applied = Applied(p.prefix)

AllSound == Sound(disk) /\ \A w \in Writers : Sound(mem[w])

\* What an operation has established when it reaches each of its steps.
StepFacts(w) ==
    /\ pc[w] # "idle" => op[w] \in Ops
    /\ pc[w] = "copied" => torn \in saved
    /\ pc[w] \in {"decide", "write"} => mem[w].prefix = file
    /\ pc[w] = "write" => op[w] \notin Applied(file)
    /\ pc[w] \in {"sync", "publish"} =>
         /\ Len(file) > 0
         /\ file[Len(file)] = op[w]
         /\ mem[w].prefix = SubSeq(file, 1, Len(file) - 1)
    /\ pc[w] = "publish" => synced = Len(file)

IInv ==
    /\ TypeOK
    /\ AtMostOnce
    /\ CommittedKept
    /\ OneWriter
    /\ AllSound
    /\ \A w \in Writers : StepFacts(w)

-----------------------------------------------------------------------------
\* What Append and a cut do to a sequence.
LEMMA AppendFacts ==
    ASSUME NEW S, NEW s \in Seq(S), NEW o \in S
    PROVE  /\ Append(s, o) \in Seq(S)
           /\ Len(Append(s, o)) = Len(s) + 1
           /\ \A i \in 1 .. Len(s) : Append(s, o)[i] = s[i]
           /\ Append(s, o)[Len(s) + 1] = o
           /\ SubSeq(Append(s, o), 1, Len(s)) = s
           /\ Applied(Append(s, o)) = Applied(s) \cup {o}
<1>1. /\ Append(s, o) \in Seq(S)
      /\ Len(Append(s, o)) = Len(s) + 1
      /\ \A i \in 1 .. Len(s) : Append(s, o)[i] = s[i]
      /\ Append(s, o)[Len(s) + 1] = o
      /\ Len(s) \in Nat
  OBVIOUS
<1>2. SubSeq(Append(s, o), 1, Len(s)) = s
  BY <1>1
<1>3. ASSUME NEW x \in Applied(Append(s, o))
      PROVE  x \in Applied(s) \cup {o}
  <2>1. PICK i \in 1 .. Len(s) + 1 : x = Append(s, o)[i]
    BY <1>1, <1>3 DEF Applied
  <2>2. CASE i = Len(s) + 1
    BY <1>1, <2>1, <2>2
  <2>3. CASE i \in 1 .. Len(s)
    BY <1>1, <2>1, <2>3 DEF Applied
  <2> QED  BY <2>1, <2>2, <2>3, <1>1
<1>4. ASSUME NEW x \in Applied(s) \cup {o}
      PROVE  x \in Applied(Append(s, o))
  <2>1. CASE x = o
    BY <1>1, <2>1 DEF Applied
  <2>2. CASE x \in Applied(s)
    <3>1. PICK i \in 1 .. Len(s) : x = s[i]
      BY <2>2 DEF Applied
    <3>2. i \in 1 .. Len(Append(s, o)) /\ x = Append(s, o)[i]
      BY <1>1, <3>1
    <3> QED  BY <3>2 DEF Applied
  <2> QED  BY <1>4, <2>1, <2>2
<1> QED  BY <1>1, <1>2, <1>3, <1>4

LEMMA CutFacts ==
    ASSUME NEW S, NEW s \in Seq(S), NEW k \in 0 .. Len(s)
    PROVE  /\ SubSeq(s, 1, k) \in Seq(S)
           /\ Len(SubSeq(s, 1, k)) = k
           /\ \A i \in 1 .. k : SubSeq(s, 1, k)[i] = s[i]
           /\ k = Len(s) => SubSeq(s, 1, k) = s
  OBVIOUS

LEMMA EmptyFacts ==
    /\ EmptyProjection \in Projections
    /\ Sound(EmptyProjection)
  BY DEF EmptyProjection, Projections, Sound, Applied

LEMMA HeadFacts == ASSUME TypeOK PROVE Applied(file) \subseteq Ops
  BY DEF TypeOK, Applied

\* A prefix and the next element make the next prefix.
LEMMA NextPrefix ==
    ASSUME NEW S, NEW s \in Seq(S), NEW t \in Seq(S), Extends(s, t), Len(t) < Len(s)
    PROVE  SubSeq(s, 1, Len(t) + 1) = Append(t, s[Len(t) + 1])
<1> DEFINE k == Len(t)
<1>1. k \in Nat /\ k + 1 \in 0 .. Len(s) /\ k \in 0 .. Len(s) /\ s[k + 1] \in S
  OBVIOUS
<1>2. /\ SubSeq(s, 1, k + 1) \in Seq(S) /\ Len(SubSeq(s, 1, k + 1)) = k + 1
      /\ \A i \in 1 .. k + 1 : SubSeq(s, 1, k + 1)[i] = s[i]
  BY <1>1, CutFacts
<1>3. \A i \in 1 .. k : t[i] = s[i]
  BY <1>1, CutFacts DEF Extends
<1>4. /\ Append(t, s[k + 1]) \in Seq(S) /\ Len(Append(t, s[k + 1])) = k + 1
      /\ \A i \in 1 .. k : Append(t, s[k + 1])[i] = t[i]
      /\ Append(t, s[k + 1])[k + 1] = s[k + 1]
  BY <1>1, AppendFacts
<1>5. \A i \in 1 .. k + 1 : SubSeq(s, 1, k + 1)[i] = Append(t, s[k + 1])[i]
  <2> SUFFICES ASSUME NEW i \in 1 .. k + 1
               PROVE  SubSeq(s, 1, k + 1)[i] = Append(t, s[k + 1])[i]
    OBVIOUS
  <2>1. CASE i = k + 1
    BY <1>2, <1>4, <2>1
  <2>2. CASE i \in 1 .. k
    BY <1>2, <1>3, <1>4, <2>2
  <2> QED  BY <1>1, <2>1, <2>2
<1> HIDE DEF k
<1> QED  BY <1>1, <1>2, <1>4, <1>5 DEF k

\* A valid checkpoint short of the head can take the next frame.
LEMMA PageFacts ==
    ASSUME TypeOK, NEW p \in Projections, Sound(p),
           Extends(file, p.prefix), Len(p.prefix) < Len(file)
    PROVE  Reduce(p) \in Projections /\ Sound(Reduce(p))
<1> DEFINE o == file[Len(p.prefix) + 1]
<1>1. p.prefix \in Seq(Ops) /\ p.applied \subseteq Ops /\ o \in Ops /\ file \in Seq(Ops)
  BY DEF TypeOK, Projections
<1>2. SubSeq(file, 1, Len(p.prefix) + 1) = Append(p.prefix, o)
  BY <1>1, NextPrefix
<1>3. Append(p.prefix, o) \in Seq(Ops) /\ Applied(Append(p.prefix, o)) = Applied(p.prefix) \cup {o}
  BY <1>1, AppendFacts
<1> QED  BY <1>1, <1>2, <1>3 DEF Reduce, Sound, Projections

LEMMA LastFrame ==
    ASSUME NEW s \in Seq(Ops), NEW o \in Ops, NEW t, t = Append(s, o)
    PROVE  /\ Len(t) > 0
           /\ t[Len(t)] = o
           /\ SubSeq(t, 1, Len(t) - 1) = s
<1>1. Len(s) \in Nat /\ Len(t) = Len(s) + 1 /\ t[Len(s) + 1] = o /\ SubSeq(t, 1, Len(s)) = s
  BY AppendFacts
<1>2. Len(t) - 1 = Len(s) /\ Len(t) > 0
  BY <1>1
<1> QED  BY <1>1, <1>2

\* A valid checkpoint other than the head lies behind it.
LEMMA BehindHead ==
    ASSUME NEW S, NEW s \in Seq(S), NEW t \in Seq(S), Extends(s, t), t # s
    PROVE  Len(t) < Len(s)
<1>1. SubSeq(s, 1, Len(s)) = s
  BY CutFacts
<1>2. CASE Len(t) = Len(s)
  BY <1>1, <1>2 DEF Extends
<1> QED  BY <1>2 DEF Extends

-----------------------------------------------------------------------------
\* Every step keeps the types.
LEMMA TypeStep == ASSUME IInv, [Next]_vars PROVE TypeOK'
<1> USE CommitLogAssumption
<1> USE DEF IInv, TypeOK, Projections, Steps, Goto, End, Fail, Leave, EmptyProjection, store, proj
<1>1. CASE UNCHANGED vars
  BY <1>1 DEF vars
<1>2. ASSUME NEW w \in Writers, NEW o \in Ops, Submit(w, o)
      PROVE  TypeOK'
  BY <1>2 DEF Submit
<1>3. ASSUME NEW w \in Writers, Enter(w)
      PROVE  TypeOK'
  BY <1>3 DEF Enter
<1>4. ASSUME NEW w \in Writers, Busy(w)
      PROVE  TypeOK'
  BY <1>4 DEF Busy
<1>5. ASSUME NEW w \in Writers, Load(w)
      PROVE  TypeOK'
  BY <1>5 DEF Load
<1>6. ASSUME NEW w \in Writers, CopyTail(w)
      PROVE  TypeOK'
  BY <1>6 DEF CopyTail
<1>7. ASSUME NEW w \in Writers, TruncateTail(w)
      PROVE  TypeOK'
  BY <1>7 DEF TruncateTail
<1>8. ASSUME NEW w \in Writers, RecoveryFails(w)
      PROVE  TypeOK'
  BY <1>8 DEF RecoveryFails
<1>9. ASSUME NEW w \in Writers, Replay(w)
      PROVE  TypeOK'
  BY <1>9, HeadFacts DEF Replay
<1>10. ASSUME NEW w \in Writers, Adopt(w)
      PROVE  TypeOK'
  BY <1>10 DEF Adopt
<1>11. ASSUME NEW w \in Writers, Reset(w)
      PROVE  TypeOK'
  BY <1>11 DEF Reset
<1>12. ASSUME NEW w \in Writers, Page(w)
      PROVE  TypeOK'
  <2>1. mem[w] \in Projections /\ Sound(mem[w])
    BY DEF AllSound, Projections
  <2>2. Len(mem[w].prefix) < Len(file) /\ Extends(file, mem[w].prefix)
    BY <1>12, <2>1, BehindHead DEF Page, ValidCheckpoint, Projections
  <2>3. Reduce(mem[w]) \in Projections /\ Sound(Reduce(mem[w]))
    BY <2>1, <2>2, PageFacts
  <2> QED  BY <1>12, <2>3 DEF Page
<1>13. ASSUME NEW w \in Writers, Synchronized(w)
      PROVE  TypeOK'
  BY <1>13 DEF Synchronized
<1>14. ASSUME NEW w \in Writers, Return(w)
      PROVE  TypeOK'
  BY <1>14 DEF Return
<1>15. ASSUME NEW w \in Writers, Prepare(w)
      PROVE  TypeOK'
  BY <1>15 DEF Prepare
<1>16. ASSUME NEW w \in Writers, Write(w)
      PROVE  TypeOK'
  <2>1. op[w] \in Ops
    BY <1>16 DEF Write, StepFacts
  <2>2. Append(file, op[w]) \in Seq(Ops) /\ Len(Append(file, op[w])) = Len(file) + 1
    BY <2>1, AppendFacts
  <2> QED  BY <1>16, <2>2 DEF Write
<1>17. ASSUME NEW w \in Writers, WriteFails(w)
      PROVE  TypeOK'
  BY <1>17 DEF WriteFails, StepFacts
<1>18. ASSUME NEW w \in Writers, Sync(w)
      PROVE  TypeOK'
  BY <1>18 DEF Sync
<1>19. ASSUME NEW w \in Writers, SyncFails(w)
      PROVE  TypeOK'
  BY <1>19 DEF SyncFails
<1>20. ASSUME NEW w \in Writers, Publish(w)
      PROVE  TypeOK'
  <2>1. mem[w] \in Projections /\ Sound(mem[w])
    BY DEF AllSound, Projections
  <2>2. /\ Len(mem[w].prefix) < Len(file) /\ Extends(file, mem[w].prefix)
        /\ op[w] \in Ops
    BY <1>20, CutFacts DEF Publish, StepFacts, Extends
  <2>3. Reduce(mem[w]) \in Projections /\ Sound(Reduce(mem[w]))
    BY <2>1, <2>2, PageFacts
  <2> QED  BY <1>20, <2>2, <2>3 DEF Publish
<1>21. ASSUME NEW w \in Writers, CloseSession(w)
      PROVE  TypeOK'
  BY <1>21 DEF CloseSession
<1>22. ASSUME NEW w \in Writers, Flush(w)
      PROVE  TypeOK'
  <2>1. /\ disk' \in Projections
        /\ mem' \in [Writers -> Projections]
        /\ fresh' \subseteq Registered
    <3>1. CASE w \in fresh
      BY <1>22, <3>1 DEF Flush
    <3>2. CASE w \notin fresh
      <4>1. mem' = [mem EXCEPT ![w] = disk] /\ disk' = disk /\ fresh' = fresh \cup {w} /\ w \in Registered
        BY <1>22, <3>2 DEF Flush
      <4> HIDE DEF Projections
      <4> QED  BY <4>1
    <3> QED  BY <3>1, <3>2
  <2> QED  BY <1>22, <2>1 DEF Flush
<1>23. ASSUME NEW w \in Writers, Crash(w)
      PROVE  TypeOK'
  BY <1>23 DEF Crash
<1>24. CASE PowerFailure
  <2>1. PICK k \in synced .. Len(file) :
            /\ file' = SubSeq(file, 1, k) /\ synced' = k /\ torn' \in TornAfter(k)
    BY <1>24 DEF PowerFailure
  <2>2. k \in 0 .. Len(file)
    BY <2>1
  <2>3. /\ SubSeq(file, 1, k) \in Seq(Ops) /\ Len(SubSeq(file, 1, k)) = k
        /\ \A i \in 1 .. k : SubSeq(file, 1, k)[i] = file[i]
    BY <2>2, CutFacts
  <2>4. torn' \in Ops \cup {None}
    BY <2>1, <2>2 DEF TornAfter
  <2> QED  BY <1>24, <2>1, <2>2, <2>3, <2>4 DEF PowerFailure
<1> QED  BY <1>1, <1>2, <1>3, <1>4, <1>5, <1>6, <1>7, <1>8, <1>9, <1>10,
            <1>11, <1>12, <1>13, <1>14, <1>15, <1>16, <1>17,
            <1>18, <1>19, <1>20, <1>21, <1>22, <1>23, <1>24 DEF Next, Step

\* Only the lock holder is inside an operation.
LEMMA LockStep == ASSUME IInv, [Next]_vars PROVE OneWriter'
<1> USE DEF IInv, TypeOK, OneWriter, Inside, Steps, Goto, End, Fail, Leave
<1>1. CASE UNCHANGED vars
  BY <1>1 DEF vars
<1>2. ASSUME NEW w \in Writers, NEW o \in Ops, Submit(w, o)
      PROVE  OneWriter'
  BY <1>2 DEF Submit
<1>3. ASSUME NEW w \in Writers, Enter(w)
      PROVE  OneWriter'
  BY <1>3 DEF Enter
<1>4. ASSUME NEW w \in Writers, Busy(w)
      PROVE  OneWriter'
  BY <1>4 DEF Busy
<1>5. ASSUME NEW w \in Writers, Load(w)
      PROVE  OneWriter'
  BY <1>5 DEF Load
<1>6. ASSUME NEW w \in Writers, CopyTail(w)
      PROVE  OneWriter'
  BY <1>6 DEF CopyTail
<1>7. ASSUME NEW w \in Writers, TruncateTail(w)
      PROVE  OneWriter'
  BY <1>7 DEF TruncateTail
<1>8. ASSUME NEW w \in Writers, RecoveryFails(w)
      PROVE  OneWriter'
  BY <1>8 DEF RecoveryFails
<1>9. ASSUME NEW w \in Writers, Replay(w)
      PROVE  OneWriter'
  BY <1>9 DEF Replay
<1>10. ASSUME NEW w \in Writers, Adopt(w)
      PROVE  OneWriter'
  BY <1>10 DEF Adopt
<1>11. ASSUME NEW w \in Writers, Reset(w)
      PROVE  OneWriter'
  BY <1>11 DEF Reset
<1>12. ASSUME NEW w \in Writers, Page(w)
      PROVE  OneWriter'
  BY <1>12 DEF Page
<1>13. ASSUME NEW w \in Writers, Synchronized(w)
      PROVE  OneWriter'
  BY <1>13 DEF Synchronized
<1>14. ASSUME NEW w \in Writers, Return(w)
      PROVE  OneWriter'
  BY <1>14 DEF Return
<1>15. ASSUME NEW w \in Writers, Prepare(w)
      PROVE  OneWriter'
  BY <1>15 DEF Prepare
<1>16. ASSUME NEW w \in Writers, Write(w)
      PROVE  OneWriter'
  BY <1>16 DEF Write
<1>17. ASSUME NEW w \in Writers, WriteFails(w)
      PROVE  OneWriter'
  BY <1>17 DEF WriteFails
<1>18. ASSUME NEW w \in Writers, Sync(w)
      PROVE  OneWriter'
  BY <1>18 DEF Sync
<1>19. ASSUME NEW w \in Writers, SyncFails(w)
      PROVE  OneWriter'
  BY <1>19 DEF SyncFails
<1>20. ASSUME NEW w \in Writers, Publish(w)
      PROVE  OneWriter'
  BY <1>20 DEF Publish
<1>21. ASSUME NEW w \in Writers, CloseSession(w)
      PROVE  OneWriter'
  BY <1>21 DEF CloseSession
<1>22. ASSUME NEW w \in Writers, Flush(w)
      PROVE  OneWriter'
  BY <1>22 DEF Flush
<1>23. ASSUME NEW w \in Writers, Crash(w)
      PROVE  OneWriter'
  BY <1>23 DEF Crash
<1>24. CASE PowerFailure
  BY <1>24 DEF PowerFailure
<1> QED  BY <1>1, <1>2, <1>3, <1>4, <1>5, <1>6, <1>7, <1>8, <1>9, <1>10,
            <1>11, <1>12, <1>13, <1>14, <1>15, <1>16, <1>17,
            <1>18, <1>19, <1>20, <1>21, <1>22, <1>23, <1>24 DEF Next, Step

\* Projections stay the replay of their own prefix.
LEMMA SoundStep == ASSUME IInv, [Next]_vars PROVE AllSound'
<1> USE DEF IInv, TypeOK, AllSound, Sound, store, proj
<1>1. CASE UNCHANGED vars
  BY <1>1 DEF vars
<1>2. ASSUME NEW w \in Writers, NEW o \in Ops, Submit(w, o)
      PROVE  AllSound'
  BY <1>2 DEF Submit
<1>3. ASSUME NEW w \in Writers, Enter(w)
      PROVE  AllSound'
  BY <1>3 DEF Enter
<1>4. ASSUME NEW w \in Writers, Busy(w)
      PROVE  AllSound'
  BY <1>4 DEF Busy
<1>5. ASSUME NEW w \in Writers, Load(w)
      PROVE  AllSound'
  BY <1>5 DEF Load
<1>6. ASSUME NEW w \in Writers, CopyTail(w)
      PROVE  AllSound'
  BY <1>6 DEF CopyTail
<1>7. ASSUME NEW w \in Writers, TruncateTail(w)
      PROVE  AllSound'
  BY <1>7 DEF TruncateTail
<1>8. ASSUME NEW w \in Writers, RecoveryFails(w)
      PROVE  AllSound'
  BY <1>8 DEF RecoveryFails
<1>9. ASSUME NEW w \in Writers, Replay(w)
      PROVE  AllSound'
  BY <1>9 DEF Replay
<1>10. ASSUME NEW w \in Writers, Adopt(w)
      PROVE  AllSound'
  BY <1>10 DEF Adopt
<1>11. ASSUME NEW w \in Writers, Reset(w)
      PROVE  AllSound'
  BY <1>11, EmptyFacts DEF Reset
<1>12. ASSUME NEW w \in Writers, Page(w)
      PROVE  AllSound'
  <2>1. mem[w] \in Projections /\ Sound(mem[w])
    BY DEF AllSound, Projections
  <2>2. Len(mem[w].prefix) < Len(file) /\ Extends(file, mem[w].prefix)
    BY <1>12, <2>1, BehindHead DEF Page, ValidCheckpoint, Projections
  <2>3. Reduce(mem[w]) \in Projections /\ Sound(Reduce(mem[w]))
    BY <2>1, <2>2, PageFacts
  <2> QED  BY <1>12, <2>3 DEF Page
<1>13. ASSUME NEW w \in Writers, Synchronized(w)
      PROVE  AllSound'
  BY <1>13 DEF Synchronized
<1>14. ASSUME NEW w \in Writers, Return(w)
      PROVE  AllSound'
  BY <1>14 DEF Return
<1>15. ASSUME NEW w \in Writers, Prepare(w)
      PROVE  AllSound'
  BY <1>15 DEF Prepare
<1>16. ASSUME NEW w \in Writers, Write(w)
      PROVE  AllSound'
  BY <1>16 DEF Write
<1>17. ASSUME NEW w \in Writers, WriteFails(w)
      PROVE  AllSound'
  BY <1>17 DEF WriteFails
<1>18. ASSUME NEW w \in Writers, Sync(w)
      PROVE  AllSound'
  BY <1>18 DEF Sync
<1>19. ASSUME NEW w \in Writers, SyncFails(w)
      PROVE  AllSound'
  BY <1>19 DEF SyncFails
<1>20. ASSUME NEW w \in Writers, Publish(w)
      PROVE  AllSound'
  <2>1. mem[w] \in Projections /\ Sound(mem[w])
    BY DEF AllSound, Projections
  <2>2. /\ Len(mem[w].prefix) < Len(file) /\ Extends(file, mem[w].prefix)
        /\ op[w] \in Ops
    BY <1>20, CutFacts DEF Publish, StepFacts, Extends
  <2>3. Reduce(mem[w]) \in Projections /\ Sound(Reduce(mem[w]))
    BY <2>1, <2>2, PageFacts
  <2> QED  BY <1>20, <2>3 DEF Publish
<1>21. ASSUME NEW w \in Writers, CloseSession(w)
      PROVE  AllSound'
  BY <1>21 DEF CloseSession
<1>22. ASSUME NEW w \in Writers, Flush(w)
      PROVE  AllSound'
  BY <1>22 DEF Flush
<1>23. ASSUME NEW w \in Writers, Crash(w)
      PROVE  AllSound'
  BY <1>23, EmptyFacts DEF Crash
<1>24. CASE PowerFailure
  BY <1>24, EmptyFacts DEF PowerFailure
<1> QED  BY <1>1, <1>2, <1>3, <1>4, <1>5, <1>6, <1>7, <1>8, <1>9, <1>10,
            <1>11, <1>12, <1>13, <1>14, <1>15, <1>16, <1>17,
            <1>18, <1>19, <1>20, <1>21, <1>22, <1>23, <1>24 DEF Next, Step

\* No transaction enters the log twice, and no committed one leaves it.
LEMMA FileStep == ASSUME IInv, [Next]_vars PROVE AtMostOnce' /\ CommittedKept'
<1> USE DEF IInv, TypeOK, AtMostOnce, CommittedKept, store
<1>1. CASE UNCHANGED vars
  BY <1>1 DEF vars
<1>2. ASSUME NEW w \in Writers, NEW o \in Ops, Submit(w, o)
      PROVE  AtMostOnce' /\ CommittedKept'
  BY <1>2 DEF Submit
<1>3. ASSUME NEW w \in Writers, Enter(w)
      PROVE  AtMostOnce' /\ CommittedKept'
  BY <1>3 DEF Enter
<1>4. ASSUME NEW w \in Writers, Busy(w)
      PROVE  AtMostOnce' /\ CommittedKept'
  BY <1>4 DEF Busy
<1>5. ASSUME NEW w \in Writers, Load(w)
      PROVE  AtMostOnce' /\ CommittedKept'
  BY <1>5 DEF Load
<1>6. ASSUME NEW w \in Writers, CopyTail(w)
      PROVE  AtMostOnce' /\ CommittedKept'
  BY <1>6 DEF CopyTail
<1>7. ASSUME NEW w \in Writers, TruncateTail(w)
      PROVE  AtMostOnce' /\ CommittedKept'
  BY <1>7 DEF TruncateTail
<1>8. ASSUME NEW w \in Writers, RecoveryFails(w)
      PROVE  AtMostOnce' /\ CommittedKept'
  BY <1>8 DEF RecoveryFails
<1>9. ASSUME NEW w \in Writers, Replay(w)
      PROVE  AtMostOnce' /\ CommittedKept'
  BY <1>9 DEF Replay
<1>10. ASSUME NEW w \in Writers, Adopt(w)
      PROVE  AtMostOnce' /\ CommittedKept'
  BY <1>10 DEF Adopt
<1>11. ASSUME NEW w \in Writers, Reset(w)
      PROVE  AtMostOnce' /\ CommittedKept'
  BY <1>11 DEF Reset
<1>12. ASSUME NEW w \in Writers, Page(w)
      PROVE  AtMostOnce' /\ CommittedKept'
  BY <1>12 DEF Page
<1>13. ASSUME NEW w \in Writers, Synchronized(w)
      PROVE  AtMostOnce' /\ CommittedKept'
  BY <1>13 DEF Synchronized
<1>14. ASSUME NEW w \in Writers, Return(w)
      PROVE  AtMostOnce' /\ CommittedKept'
  BY <1>14 DEF Return
<1>15. ASSUME NEW w \in Writers, Prepare(w)
      PROVE  AtMostOnce' /\ CommittedKept'
  BY <1>15 DEF Prepare
<1>16. ASSUME NEW w \in Writers, Write(w)
      PROVE  AtMostOnce' /\ CommittedKept'
  <2>1. op[w] \in Ops /\ op[w] \notin Applied(file)
    BY <1>16 DEF Write, StepFacts
  <2>2. /\ Len(Append(file, op[w])) = Len(file) + 1
        /\ \A i \in 1 .. Len(file) : Append(file, op[w])[i] = file[i]
        /\ Append(file, op[w])[Len(file) + 1] = op[w]
    BY <2>1, AppendFacts
  <2>3. \A i \in 1 .. Len(file) : file[i] # op[w]
    BY <2>1 DEF Applied
  <2>4. AtMostOnce'
    <3> SUFFICES ASSUME NEW i \in 1 .. Len(file) + 1, NEW j \in 1 .. Len(file) + 1,
                        Append(file, op[w])[i] = Append(file, op[w])[j]
                 PROVE  i = j
      BY <1>16, <2>2 DEF Write
    <3>1. CASE i \in 1 .. Len(file) /\ j \in 1 .. Len(file)
      BY <2>2, <3>1
    <3>2. CASE i = Len(file) + 1 /\ j \in 1 .. Len(file)
      BY <2>2, <2>3, <3>2
    <3>3. CASE i \in 1 .. Len(file) /\ j = Len(file) + 1
      BY <2>2, <2>3, <3>3
    <3> QED  BY <3>1, <3>2, <3>3
  <2>5. CommittedKept'
    BY <1>16, <2>2 DEF Write
  <2> QED  BY <2>4, <2>5
<1>17. ASSUME NEW w \in Writers, WriteFails(w)
      PROVE  AtMostOnce' /\ CommittedKept'
  BY <1>17 DEF WriteFails
<1>18. ASSUME NEW w \in Writers, Sync(w)
      PROVE  AtMostOnce' /\ CommittedKept'
  BY <1>18 DEF Sync
<1>19. ASSUME NEW w \in Writers, SyncFails(w)
      PROVE  AtMostOnce' /\ CommittedKept'
  BY <1>19 DEF SyncFails
<1>20. ASSUME NEW w \in Writers, Publish(w)
      PROVE  AtMostOnce' /\ CommittedKept'
  <2>1. /\ op[w] \in Ops /\ file[Len(file)] = op[w]
        /\ synced = Len(file) /\ Len(file) > 0
    BY <1>20 DEF Publish, StepFacts
  <2> QED  BY <1>20, <2>1 DEF Publish
<1>21. ASSUME NEW w \in Writers, CloseSession(w)
      PROVE  AtMostOnce' /\ CommittedKept'
  BY <1>21 DEF CloseSession
<1>22. ASSUME NEW w \in Writers, Flush(w)
      PROVE  AtMostOnce' /\ CommittedKept'
  BY <1>22 DEF Flush
<1>23. ASSUME NEW w \in Writers, Crash(w)
      PROVE  AtMostOnce' /\ CommittedKept'
  BY <1>23 DEF Crash
<1>24. CASE PowerFailure
  <2>1. PICK k \in synced .. Len(file) :
            /\ file' = SubSeq(file, 1, k) /\ synced' = k /\ torn' \in TornAfter(k)
    BY <1>24 DEF PowerFailure
  <2>2. k \in 0 .. Len(file)
    BY <2>1
  <2>3. /\ SubSeq(file, 1, k) \in Seq(Ops) /\ Len(SubSeq(file, 1, k)) = k
        /\ \A i \in 1 .. k : SubSeq(file, 1, k)[i] = file[i]
    BY <2>2, CutFacts
  <2>4. AtMostOnce'
    <3> SUFFICES ASSUME NEW i \in 1 .. k, NEW j \in 1 .. k, file'[i] = file'[j]
                 PROVE  i = j
      BY <2>1, <2>3
    <3>1. file[i] = file[j]
      BY <2>1, <2>3
    <3>2. i \in 1 .. Len(file) /\ j \in 1 .. Len(file)
      BY <2>2
    <3> QED  BY <3>1, <3>2
  <2>5. CommittedKept'
    BY <1>24, <2>1, <2>2, <2>3 DEF PowerFailure
  <2> QED  BY <2>4, <2>5
<1> QED  BY <1>1, <1>2, <1>3, <1>4, <1>5, <1>6, <1>7, <1>8, <1>9, <1>10,
            <1>11, <1>12, <1>13, <1>14, <1>15, <1>16, <1>17,
            <1>18, <1>19, <1>20, <1>21, <1>22, <1>23, <1>24 DEF Next, Step

\* Every step of an operation establishes what the next one relies on; the
\* other writers are outside the lock.
LEMMA FactsStep == ASSUME IInv, [Next]_vars PROVE \A w \in Writers : StepFacts(w)'
<1> USE DEF IInv, TypeOK, OneWriter, StepFacts, Steps, Goto, End, Fail, Leave, store, proj
<1>1. CASE UNCHANGED vars
  BY <1>1 DEF vars, proj
<1>2. ASSUME NEW w \in Writers, NEW o \in Ops, Submit(w, o)
      PROVE  \A v \in Writers : StepFacts(v)'
  <2> SUFFICES ASSUME NEW v \in Writers PROVE StepFacts(v)'
    OBVIOUS
  <2> QED  BY <1>2 DEF Submit, Inside
<1>3. ASSUME NEW w \in Writers, Enter(w)
      PROVE  \A v \in Writers : StepFacts(v)'
  <2> SUFFICES ASSUME NEW v \in Writers PROVE StepFacts(v)'
    OBVIOUS
  <2> QED  BY <1>3 DEF Enter, Inside
<1>4. ASSUME NEW w \in Writers, Busy(w)
      PROVE  \A v \in Writers : StepFacts(v)'
  <2> SUFFICES ASSUME NEW v \in Writers PROVE StepFacts(v)'
    OBVIOUS
  <2> QED  BY <1>4 DEF Busy, Inside
<1>5. ASSUME NEW w \in Writers, Load(w)
      PROVE  \A v \in Writers : StepFacts(v)'
  <2> SUFFICES ASSUME NEW v \in Writers PROVE StepFacts(v)'
    OBVIOUS
  <2> QED  BY <1>5 DEF Load, Inside
<1>6. ASSUME NEW w \in Writers, CopyTail(w)
      PROVE  \A v \in Writers : StepFacts(v)'
  <2> SUFFICES ASSUME NEW v \in Writers PROVE StepFacts(v)'
    OBVIOUS
  <2> QED  BY <1>6 DEF CopyTail, Inside
<1>7. ASSUME NEW w \in Writers, TruncateTail(w)
      PROVE  \A v \in Writers : StepFacts(v)'
  <2> SUFFICES ASSUME NEW v \in Writers PROVE StepFacts(v)'
    OBVIOUS
  <2> QED  BY <1>7 DEF TruncateTail, Inside
<1>8. ASSUME NEW w \in Writers, RecoveryFails(w)
      PROVE  \A v \in Writers : StepFacts(v)'
  <2> SUFFICES ASSUME NEW v \in Writers PROVE StepFacts(v)'
    OBVIOUS
  <2> QED  BY <1>8 DEF RecoveryFails, Inside
<1>9. ASSUME NEW w \in Writers, Replay(w)
      PROVE  \A v \in Writers : StepFacts(v)'
  <2> SUFFICES ASSUME NEW v \in Writers PROVE StepFacts(v)'
    OBVIOUS
  <2> QED  BY <1>9 DEF Replay, Inside
<1>10. ASSUME NEW w \in Writers, Adopt(w)
      PROVE  \A v \in Writers : StepFacts(v)'
  <2> SUFFICES ASSUME NEW v \in Writers PROVE StepFacts(v)'
    OBVIOUS
  <2> QED  BY <1>10 DEF Adopt, Inside
<1>11. ASSUME NEW w \in Writers, Reset(w)
      PROVE  \A v \in Writers : StepFacts(v)'
  <2> SUFFICES ASSUME NEW v \in Writers PROVE StepFacts(v)'
    OBVIOUS
  <2> QED  BY <1>11 DEF Reset, Inside
<1>12. ASSUME NEW w \in Writers, Page(w)
      PROVE  \A v \in Writers : StepFacts(v)'
  <2> SUFFICES ASSUME NEW v \in Writers PROVE StepFacts(v)'
    OBVIOUS
  <2> QED  BY <1>12 DEF Page, Inside
<1>13. ASSUME NEW w \in Writers, Synchronized(w)
      PROVE  \A v \in Writers : StepFacts(v)'
  <2> SUFFICES ASSUME NEW v \in Writers PROVE StepFacts(v)'
    OBVIOUS
  <2> QED  BY <1>13 DEF Synchronized, Inside
<1>14. ASSUME NEW w \in Writers, Return(w)
      PROVE  \A v \in Writers : StepFacts(v)'
  <2> SUFFICES ASSUME NEW v \in Writers PROVE StepFacts(v)'
    OBVIOUS
  <2> QED  BY <1>14 DEF Return, Inside
<1>15. ASSUME NEW w \in Writers, Prepare(w)
      PROVE  \A v \in Writers : StepFacts(v)'
  <2>1. mem[w].applied = Applied(file)
    BY <1>15 DEF Prepare, AllSound, Sound
  <2> SUFFICES ASSUME NEW v \in Writers PROVE StepFacts(v)'
    OBVIOUS
  <2> QED  BY <1>15, <2>1 DEF Prepare, Inside
<1>16. ASSUME NEW w \in Writers, Write(w)
      PROVE  \A v \in Writers : StepFacts(v)'
  <2>1. op[w] \in Ops /\ mem[w].prefix = file
    BY <1>16 DEF Write
  <2>3. \A v \in Writers : pc[v] \in Inside => v = w
    BY <1>16 DEF Write, Inside
  <2>4. StepFacts(w)'
    <3>1. /\ file' = Append(file, op[w]) /\ mem' = mem /\ op' = op
          /\ pc'[w] = "sync"
      BY <1>16 DEF Write, proj
    <3>2. /\ Len(file') > 0
          /\ file'[Len(file')] = op[w]
          /\ SubSeq(file', 1, Len(file') - 1) = file
      BY <2>1, <3>1, LastFrame
    <3> QED  BY <2>1, <3>1, <3>2
  <2>5. ASSUME NEW v \in Writers, v # w PROVE StepFacts(v)'
    <3>1. pc'[v] = pc[v] /\ op'[v] = op[v]
      BY <1>16, <2>5 DEF Write
    <3>2. pc[v] \in {"idle", "enter"}
      BY <2>3, <2>5 DEF Inside
    <3> QED  BY <3>1, <3>2
  <2> QED  BY <2>4, <2>5
<1>17. ASSUME NEW w \in Writers, WriteFails(w)
      PROVE  \A v \in Writers : StepFacts(v)'
  <2> SUFFICES ASSUME NEW v \in Writers PROVE StepFacts(v)'
    OBVIOUS
  <2>1. CASE v = w
    BY <1>17, <2>1 DEF WriteFails
  <2>2. CASE v # w
    <3>1. holders = {w}
      BY <1>17 DEF WriteFails, Inside
    <3>2. pc[v] \in {"idle", "enter"}
      BY <2>2, <3>1 DEF Inside
    <3>3. pc'[v] = pc[v] /\ op'[v] = op[v]
      BY <1>17, <2>2 DEF WriteFails
    <3> QED  BY <3>2, <3>3
  <2> QED  BY <2>1, <2>2
<1>18. ASSUME NEW w \in Writers, Sync(w)
      PROVE  \A v \in Writers : StepFacts(v)'
  <2> SUFFICES ASSUME NEW v \in Writers PROVE StepFacts(v)'
    OBVIOUS
  <2> QED  BY <1>18 DEF Sync, Inside
<1>19. ASSUME NEW w \in Writers, SyncFails(w)
      PROVE  \A v \in Writers : StepFacts(v)'
  <2> SUFFICES ASSUME NEW v \in Writers PROVE StepFacts(v)'
    OBVIOUS
  <2> QED  BY <1>19 DEF SyncFails, Inside
<1>20. ASSUME NEW w \in Writers, Publish(w)
      PROVE  \A v \in Writers : StepFacts(v)'
  <2> SUFFICES ASSUME NEW v \in Writers PROVE StepFacts(v)'
    OBVIOUS
  <2> QED  BY <1>20 DEF Publish, Inside
<1>21. ASSUME NEW w \in Writers, CloseSession(w)
      PROVE  \A v \in Writers : StepFacts(v)'
  <2> SUFFICES ASSUME NEW v \in Writers PROVE StepFacts(v)'
    OBVIOUS
  <2> QED  BY <1>21 DEF CloseSession, Inside
<1>22. ASSUME NEW w \in Writers, Flush(w)
      PROVE  \A v \in Writers : StepFacts(v)'
  <2> SUFFICES ASSUME NEW v \in Writers PROVE StepFacts(v)'
    OBVIOUS
  <2> QED  BY <1>22 DEF Flush, Inside
<1>23. ASSUME NEW w \in Writers, Crash(w)
      PROVE  \A v \in Writers : StepFacts(v)'
  <2> SUFFICES ASSUME NEW v \in Writers PROVE StepFacts(v)'
    OBVIOUS
  <2> QED  BY <1>23 DEF Crash, Inside
<1>24. CASE PowerFailure
  <2> SUFFICES ASSUME NEW v \in Writers PROVE StepFacts(v)'
    OBVIOUS
  <2> QED  BY <1>24 DEF PowerFailure, Inside
<1> QED  BY <1>1, <1>2, <1>3, <1>4, <1>5, <1>6, <1>7, <1>8, <1>9, <1>10,
            <1>11, <1>12, <1>13, <1>14, <1>15, <1>16, <1>17,
            <1>18, <1>19, <1>20, <1>21, <1>22, <1>23, <1>24 DEF Next, Step

-----------------------------------------------------------------------------
LEMMA InvInit == Init => IInv
<1> SUFFICES ASSUME Init PROVE IInv
  OBVIOUS
<1>1. TypeOK
  BY EmptyFacts DEF Init, TypeOK, Steps
<1>2. AllSound
  BY EmptyFacts DEF Init, AllSound
<1>3. AtMostOnce /\ CommittedKept /\ OneWriter /\ \A w \in Writers : StepFacts(w)
  BY DEF Init, AtMostOnce, CommittedKept, OneWriter, Inside, Steps, StepFacts
<1> QED  BY <1>1, <1>2, <1>3 DEF IInv

LEMMA InvStep == IInv /\ [Next]_vars => IInv'
  BY TypeStep, LockStep, SoundStep, FileStep, FactsStep DEF IInv

LEMMA InvAlways == Spec => []IInv
  BY InvInit, InvStep, PTL DEF Spec

\* For any number of instances and transactions: no transaction is in the log
\* twice, whatever fails and however often it is submitted.
THEOREM AtMostOnceAlways == Spec => [](TypeOK /\ AtMostOnce)
<1>1. IInv => TypeOK /\ AtMostOnce
  BY DEF IInv
<1> QED  BY <1>1, InvAlways, PTL

\* A commit its caller was told of is durable for ever, at its LSN.
THEOREM CommittedKeptAlways == Spec => []CommittedKept
<1>1. IInv => CommittedKept
  BY DEF IInv
<1> QED  BY <1>1, InvAlways, PTL

\* Every decision is made from the replay of the current log.
THEOREM DecisionsCurrentAlways == Spec => []DecisionsCurrent
<1>1. ASSUME IInv PROVE DecisionsCurrent
  <2> SUFFICES ASSUME NEW w \in Writers, pc[w] \in {"decide", "write"}
               PROVE  mem[w] = [prefix |-> file, applied |-> Applied(file)]
    BY DEF DecisionsCurrent
  <2>1. mem[w].prefix = file /\ mem[w].applied = Applied(file)
    BY <1>1 DEF IInv, StepFacts, AllSound, Sound
  <2>2. mem[w] \in [prefix : Seq(Ops), applied : SUBSET Ops]
    BY <1>1 DEF IInv, TypeOK, Projections
  <2> QED  BY <2>1, <2>2
<1> QED  BY <1>1, InvAlways, PTL

\* Recovery cuts nothing off the log that is not in quarantine.
THEOREM NothingDiscardedEver == Spec => NothingDiscarded
<1> DEFINE Kept == torn # None /\ torn' = None /\ ~ PowerFailure => torn \in saved
<1>1. ASSUME IInv, [Next]_vars PROVE [Kept]_vars
  <2> USE <1>1 DEF IInv, TypeOK, StepFacts, store
  <2>1. ASSUME NEW w \in Writers, TruncateTail(w) PROVE Kept
    BY <2>1 DEF TruncateTail
  <2>2. ASSUME NEW w \in Writers, RecoveryFails(w) PROVE Kept
    BY <2>2 DEF RecoveryFails
  <2>3. ASSUME NEW w \in Writers, WriteFails(w) PROVE Kept
    BY <2>3, CommitLogAssumption DEF WriteFails
  <2>4. ASSUME NEW w \in Writers,
               \/ \E o \in Ops : Submit(w, o)
               \/ Enter(w) \/ Busy(w) \/ Load(w) \/ CopyTail(w) \/ Replay(w) \/ Adopt(w) \/ Reset(w)
               \/ Page(w) \/ Synchronized(w) \/ Return(w) \/ Prepare(w) \/ Write(w) \/ Sync(w)
               \/ SyncFails(w) \/ Publish(w) \/ CloseSession(w) \/ Flush(w) \/ Crash(w)
        PROVE  torn' = torn
    BY <2>4 DEF Submit, Enter, Busy, Load, CopyTail, Replay, Adopt, Reset, Page, Synchronized,
                Return, Prepare, Write, Sync, SyncFails, Publish, CloseSession, Flush, Crash
  <2> QED  BY <2>1, <2>2, <2>3, <2>4 DEF Next, Step
<1> QED  BY <1>1, InvAlways, PTL DEF Spec, NothingDiscarded

-----------------------------------------------------------------------------
\* How a step changes the durable part of the file.
LEMMA DurableStep ==
    ASSUME IInv, IInv', [Next]_vars
    PROVE  /\ synced <= synced'
           /\ \A i \in 1 .. synced : file'[i] = file[i]
<1> USE DEF IInv, TypeOK, store
<1>1. CASE UNCHANGED vars
  BY <1>1 DEF vars
<1>2. ASSUME NEW w \in Writers, Write(w)
      PROVE  synced <= synced' /\ \A i \in 1 .. synced : file'[i] = file[i]
  <2>1. op[w] \in Ops
    BY <1>2 DEF Write, StepFacts
  <2>2. \A i \in 1 .. Len(file) : Append(file, op[w])[i] = file[i]
    BY <2>1, AppendFacts
  <2> QED  BY <1>2, <2>2 DEF Write
<1>3. ASSUME NEW w \in Writers, TruncateTail(w) \/ Sync(w)
      PROVE  synced <= synced' /\ file' = file
  BY <1>3 DEF TruncateTail, Sync
<1>4. ASSUME NEW w \in Writers,
             \/ \E o \in Ops : Submit(w, o)
             \/ Enter(w) \/ Busy(w) \/ Load(w) \/ CopyTail(w) \/ RecoveryFails(w)
             \/ Replay(w) \/ Adopt(w) \/ Reset(w) \/ Page(w) \/ Synchronized(w) \/ Return(w)
             \/ Prepare(w) \/ WriteFails(w) \/ SyncFails(w) \/ Publish(w)
             \/ CloseSession(w) \/ Flush(w) \/ Crash(w)
      PROVE  synced' = synced /\ file' = file
  BY <1>4 DEF Submit, Enter, Busy, Load, CopyTail, RecoveryFails, Replay, Adopt, Reset, Page,
              Synchronized, Return, Prepare, WriteFails, SyncFails, Publish, CloseSession,
              Flush, Crash
<1>5. CASE PowerFailure
  <2>1. PICK k \in synced .. Len(file) : file' = SubSeq(file, 1, k) /\ synced' = k
    BY <1>5 DEF PowerFailure
  <2>2. \A i \in 1 .. k : SubSeq(file, 1, k)[i] = file[i]
    BY <2>1, CutFacts
  <2> QED  BY <2>1, <2>2
<1> QED  BY <1>1, <1>2, <1>3, <1>4, <1>5 DEF Next, Step

\* The durable prefix of the file only grows and never repeats a transaction:
\* the file log implements the abstract one.
THEOREM CommitLogImplementsAtomicLog == Spec => ImplementsAtomicLog
<1> DEFINE durable == SubSeq(file, 1, synced)
<1>1. Init => durable = << >>
  BY CutFacts DEF Init
<1>2. ASSUME IInv, IInv', [Next]_vars
      PROVE  [Abstract!LogGrow]_durable
  <2>1. /\ file \in Seq(Ops) /\ synced \in 0 .. Len(file)
        /\ file' \in Seq(Ops) /\ synced' \in 0 .. Len(file')
    BY <1>2 DEF IInv, TypeOK
  <2>2. /\ synced <= synced'
        /\ \A i \in 1 .. synced : file'[i] = file[i]
    BY <1>2, DurableStep
  <2>3. /\ durable \in Seq(Ops) /\ Len(durable) = synced
        /\ \A i \in 1 .. synced : durable[i] = file[i]
    BY <2>1, CutFacts
  <2>4. /\ durable' \in Seq(Ops) /\ Len(durable') = synced'
        /\ \A i \in 1 .. synced' : durable'[i] = file'[i]
    BY <2>1, CutFacts
  <2> HIDE DEF durable
  <2>5. /\ SubSeq(durable', 1, synced) \in Seq(Ops)
        /\ Len(SubSeq(durable', 1, synced)) = synced
        /\ \A i \in 1 .. synced : SubSeq(durable', 1, synced)[i] = durable'[i]
    BY <2>1, <2>2, <2>4, CutFacts
  <2>6. \A i \in 1 .. synced : SubSeq(durable', 1, synced)[i] = durable[i]
    BY <2>1, <2>2, <2>3, <2>4, <2>5
  <2>7. SubSeq(durable', 1, synced) = durable
    BY <2>1, <2>3, <2>5, <2>6
  <2>8. ASSUME NEW i \in 1 .. Len(durable'), NEW j \in 1 .. Len(durable'), durable'[i] = durable'[j]
        PROVE  i = j
    BY <1>2, <2>1, <2>4, <2>8 DEF IInv, AtMostOnce
  <2> QED  BY <2>1, <2>2, <2>3, <2>4, <2>7, <2>8
           DEF Abstract!LogGrow, Abstract!Extends, Abstract!Distinct, durable
<1>3. Abstract!LogInit <=> durable = << >>
  BY DEF Abstract!LogInit
<1> QED  BY <1>1, <1>2, <1>3, InvAlways, PTL DEF Spec, ImplementsAtomicLog, Abstract!LogSpec
================================================================================
