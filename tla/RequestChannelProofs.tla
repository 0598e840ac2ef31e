------------------------- MODULE RequestChannelProofs --------------------------
(***************************************************************************)
(* Theorems about RequestChannel, for any number of calls and any limits.  *)
(*                                                                         *)
(* NobodyWaitsOnDeadChannel is not inductive: a request() made after the   *)
(* end of the loop would break it.  It is refused because the finally of   *)
(* the loop sets #stopped in the same step, and nothing resets that        *)
(* (DeadIsStopped).                                                        *)
(*                                                                         *)
(* AnswersAreFinal needs to know what the frames under way say: an answer  *)
(* says what became of the service, a request is of a call whose service   *)
(* has not been started (FramesTrue).  The latter survives the start of    *)
(* the service only because no frame is under way twice (Once).            *)
(*                                                                         *)
(* OverloadOnlyAfterCancelOrOpenWrite is a count of places at both ends    *)
(* (PInv).  What a server is doing for its peer is among the calls the     *)
(* peer has in flight, but for cancelled calls and for one more: an answer *)
(* can arrive while its place is held only if it is the frame whose write  *)
(* has not settled (AnswersLeft), and there is one such frame at an end.   *)
(* A caller that gives a call up at its deadline frees no place, because   *)
(* its channel stops with it (UncertainStops).                             *)
(***************************************************************************)
EXTENDS RequestChannel, FiniteSetTheorems, TLAPS

Elems(s)  == {s[i] : i \in 1 .. Len(s)}
IsOnce(s) == \A i, j \in 1 .. Len(s) : s[i].kind = "request" /\ s[i] = s[j] => i = j

Sound(f) ==
    /\ f.kind = "request" => work[f.call] = "none" /\ call[f.call] # "new"
    /\ f.kind = "ok" => work[f.call] = "ok"
    /\ f.kind = "refused" => work[f.call] = "failed"

DeadIsStopped == \A e \in Ends : loop[e] = "done" => stopped[e]

\* Only a call that was made has a caller, and only for it can a service run.
CallersKnown ==
    \A c \in Calls : /\ call[c] # "new" => caller[c] \in Ends
                     /\ call[c] = "new" => work[c] = "none" /\ serve[c] = "none"

FramesTrue ==
    \A e \in Ends : \A f \in Frames :
        /\ f \in Elems(queue[e]) => Sound(f) /\ (f.kind = "request" => e = caller[f.call])
        /\ f \in Elems(arriving[e]) \/ f = hand[e]
             => Sound(f) /\ (f.kind = "request" => e = Server(f.call))

Once ==
    /\ \A e \in Ends : IsOnce(queue[e]) /\ IsOnce(arriving[e])
    /\ \A d, e \in Ends : \A f \in Frames :
          f.kind = "request" =>
            /\ ~(f \in Elems(queue[d]) /\ f \in Elems(arriving[e]))
            /\ ~(f \in Elems(queue[d]) /\ f = hand[e])
            /\ ~(f \in Elems(arriving[d]) /\ f = hand[e])

IInv ==
    /\ TypeOK /\ CallersKnown
    /\ DeadIsStopped /\ NobodyWaitsOnDeadChannel
    /\ FramesTrue /\ Once /\ AnswersAreFinal

-----------------------------------------------------------------------------
\* There is exactly one other end.
LEMMA OtherEnd ==
    ASSUME NEW e \in Ends
    PROVE  Other(e) \in Ends /\ Other(e) # e
<1>1. \E f \in Ends : f # e
  BY ChannelAssumption
<1> QED BY <1>1 DEF Other

\* The absence of a frame is not a frame.
LEMMA NoneIsNoFrame == None \notin Frames
BY ChannelAssumption DEF Frames, Kinds

\* A frame put at the end of a queue.
LEMMA AppendFrame ==
    ASSUME NEW s \in Seq(Frames), NEW f \in Frames
    PROVE  /\ Append(s, f) \in Seq(Frames)
           /\ Elems(Append(s, f)) = Elems(s) \cup {f}
           /\ (IsOnce(s) /\ (f.kind = "request" => f \notin Elems(s))) => IsOnce(Append(s, f))
<1>1. Append(s, f) \in Seq(Frames) /\ Len(Append(s, f)) = Len(s) + 1
  OBVIOUS
<1>2. \A i \in 1 .. Len(s) : Append(s, f)[i] = s[i]
  OBVIOUS
<1>3. Append(s, f)[Len(s) + 1] = f
  OBVIOUS
<1>4. Elems(Append(s, f)) = Elems(s) \cup {f}
  BY <1>1, <1>2, <1>3 DEF Elems
<1>5. ASSUME IsOnce(s), f.kind = "request" => f \notin Elems(s)
      PROVE  IsOnce(Append(s, f))
  BY <1>1, <1>2, <1>3, <1>5 DEF Elems, IsOnce
<1> QED BY <1>1, <1>4, <1>5

\* The first frame taken from a queue.
LEMMA TakeFrame ==
    ASSUME NEW s \in Seq(Frames), s # <<>>
    PROVE  /\ Head(s) \in Frames /\ Head(s) \in Elems(s)
           /\ Tail(s) \in Seq(Frames)
           /\ Elems(Tail(s)) \subseteq Elems(s)
           /\ IsOnce(s) => /\ IsOnce(Tail(s))
                           /\ Head(s).kind = "request" => Head(s) \notin Elems(Tail(s))
<1>1. Tail(s) \in Seq(Frames) /\ Len(Tail(s)) = Len(s) - 1 /\ Len(s) \in Nat /\ Len(s) > 0
  OBVIOUS
<1>2. \A i \in 1 .. Len(s) - 1 : Tail(s)[i] = s[i + 1]
  OBVIOUS
<1>3. Head(s) = s[1] /\ Head(s) \in Frames
  OBVIOUS
<1>4. Head(s) \in Elems(s) /\ Elems(Tail(s)) \subseteq Elems(s)
  BY <1>1, <1>2, <1>3 DEF Elems
<1>5. ASSUME IsOnce(s) PROVE IsOnce(Tail(s))
  BY <1>1, <1>2, <1>5 DEF IsOnce
<1>6. ASSUME IsOnce(s), Head(s).kind = "request" PROVE Head(s) \notin Elems(Tail(s))
  BY <1>1, <1>2, <1>3, <1>6 DEF IsOnce, Elems
<1> QED BY <1>1, <1>3, <1>4, <1>5, <1>6

\* What is left in the buffer of a link that failed.
LEMMA KeepFrames ==
    ASSUME NEW s \in Seq(Frames), NEW kept \in 0 .. Len(s)
    PROVE  /\ SubSeq(s, 1, kept) \in Seq(Frames)
           /\ Elems(SubSeq(s, 1, kept)) \subseteq Elems(s)
           /\ IsOnce(s) => IsOnce(SubSeq(s, 1, kept))
<1>1. SubSeq(s, 1, kept) \in Seq(Frames) /\ Len(SubSeq(s, 1, kept)) = kept
  OBVIOUS
<1>2. \A i \in 1 .. kept : SubSeq(s, 1, kept)[i] = s[i]
  OBVIOUS
<1> QED BY <1>1, <1>2 DEF Elems, IsOnce

\* Nothing is left in the buffer of a channel that stopped.
LEMMA NoFrames == <<>> \in Seq(Frames) /\ Elems(<<>>) = {} /\ IsOnce(<<>>)
BY DEF Elems, IsOnce

-----------------------------------------------------------------------------
\* The abort of a channel, and the stop after a failure, only take frames away.
LEMMA StopEffect ==
    ASSUME TypeOK, Once, NEW e \in Ends, Abort(e) \/ StopAfterTransportFailure(e)
    PROVE  /\ aborted' \in [Ends -> BOOLEAN]
           /\ cancelled' \subseteq Calls
           /\ up' \in [Ends -> BOOLEAN]
           /\ arriving' \in [Ends -> Seq(Frames)]
           /\ \A d \in Ends : Elems(arriving'[d]) \subseteq Elems(arriving[d]) /\ IsOnce(arriving'[d])
<1>1. ASSUME Abort(e)
      PROVE  /\ aborted' \in [Ends -> BOOLEAN]
             /\ cancelled' \subseteq Calls
             /\ up' \in [Ends -> BOOLEAN]
             /\ arriving' \in [Ends -> Seq(Frames)]
             /\ \A d \in Ends : Elems(arriving'[d]) \subseteq Elems(arriving[d]) /\ IsOnce(arriving'[d])
  <2>1. arriving' = [arriving EXCEPT ![e] = <<>>]
    BY <1>1 DEF Abort
  <2>2. arriving' \in [Ends -> Seq(Frames)]
    BY <2>1, NoFrames DEF TypeOK
  <2>3. \A d \in Ends : Elems(arriving'[d]) \subseteq Elems(arriving[d]) /\ IsOnce(arriving'[d])
    BY <2>1, NoFrames DEF TypeOK, Once
  <2>4. aborted' \in [Ends -> BOOLEAN] /\ up' \in [Ends -> BOOLEAN]
    BY <1>1 DEF Abort, TypeOK
  <2>5. cancelled' \subseteq Calls
    BY <1>1 DEF Abort, TypeOK, Serving
  <2> QED BY <2>2, <2>3, <2>4, <2>5
<1>2. CASE UNCHANGED <<aborted, cancelled, up, arriving>>
  BY <1>2 DEF TypeOK, Once
<1> QED BY <1>1, <1>2 DEF StopAfterTransportFailure

\* A step that starts no service and puts no frame anywhere keeps what is said
\* of the frames under way.
LEMMA FewerFrames ==
    ASSUME FramesTrue, Once, work' = work,
           \A c \in Calls : call[c] # "new" => call'[c] # "new" /\ caller'[c] = caller[c],
           \A e \in Ends : Elems(queue'[e]) \subseteq Elems(queue[e]) /\ IsOnce(queue'[e]),
           \A e \in Ends : Elems(arriving'[e]) \subseteq Elems(arriving[e]) /\ IsOnce(arriving'[e]),
           \A e \in Ends : hand'[e] = hand[e] \/ hand'[e] = None
    PROVE  FramesTrue' /\ Once'
<1>1. \A f \in Frames : f.call \in Calls
  BY DEF Frames
<1>2. \A f \in Frames : Sound(f) => Sound(f)'
  BY <1>1 DEF Sound
<1>3. \A f \in Frames : f.kind = "request" /\ Sound(f) => caller'[f.call] = caller[f.call]
  BY <1>1 DEF Sound
<1>4. \A f \in Frames, e \in Ends : f = hand'[e] => f = hand[e]
  BY NoneIsNoFrame
<1>5. FramesTrue'
  BY <1>2, <1>3, <1>4 DEF FramesTrue, Server
<1>6. Once'
  BY <1>4 DEF Once
<1> QED BY <1>5, <1>6

\* What the end of the receive loop leaves behind: nobody waits, and stopped.
\* calls is what the frame in hand has made of the calls.
LEMMA LoopFinallyEffect ==
    ASSUME TypeOK, DeadIsStopped, NobodyWaitsOnDeadChannel, NEW e \in Ends,
           NEW calls \in [Calls -> {"new", "sending", "waiting"} \cup Results],
           \A x \in Calls : calls[x] \in {"sending", "waiting"} => Pending(x),
           caller' = caller, LoopFinally(e, calls)
    PROVE  /\ call' \in [Calls -> {"new", "sending", "waiting"} \cup Results]
           /\ loop' \in [Ends -> {"receive", "closing", "done"}] /\ stopped' \in [Ends -> BOOLEAN]
           /\ \A x \in Calls : \/ call'[x] = calls[x]
                               \/ call'[x] = "uncertain" /\ calls[x] \in {"sending", "waiting"}
           /\ DeadIsStopped' /\ NobodyWaitsOnDeadChannel'
<1>1. call' = [x \in Calls |-> IF caller[x] = e /\ calls[x] \in {"sending", "waiting"}
                                 THEN "uncertain" ELSE calls[x]]
  BY DEF LoopFinally
<1>2. \A x \in Calls :
        /\ caller[x] = e => call'[x] \notin {"sending", "waiting"}
        /\ \/ call'[x] = calls[x]
           \/ call'[x] = "uncertain" /\ calls[x] \in {"sending", "waiting"}
  BY <1>1
<1>3. call' \in [Calls -> {"new", "sending", "waiting"} \cup Results]
  BY <1>1 DEF Results
<1>4. loop' \in [Ends -> {"receive", "closing", "done"}] /\ stopped' \in [Ends -> BOOLEAN]
  BY DEF LoopFinally, TypeOK
<1>5. DeadIsStopped'
  BY DEF LoopFinally, DeadIsStopped, TypeOK
<1>6. NobodyWaitsOnDeadChannel'
  <2>1. SUFFICES ASSUME NEW d \in Ends, loop'[d] = "done", NEW x \in Calls, caller[x] = d
                 PROVE  call'[x] \notin {"sending", "waiting"}
    BY DEF NobodyWaitsOnDeadChannel, Waiting, Pending
  <2>2. CASE d = e
    BY <1>2, <2>1, <2>2
  <2>3. CASE d # e
    <3>1. loop[d] = "done"
      BY <2>1, <2>3 DEF LoopFinally, TypeOK
    <3>2. call[x] \notin {"sending", "waiting"}
      BY <2>1, <3>1 DEF NobodyWaitsOnDeadChannel, Waiting, Pending
    <3> QED BY <1>2, <3>2 DEF Pending
  <2> QED BY <2>2, <2>3
<1> QED BY <1>2, <1>3, <1>4, <1>5, <1>6

\* The same at the head of the loop, whether it ends or not.
LEMMA NextTurnEffect ==
    ASSUME TypeOK, DeadIsStopped, NobodyWaitsOnDeadChannel, NEW e \in Ends,
           NEW calls \in [Calls -> {"new", "sending", "waiting"} \cup Results],
           \A x \in Calls : calls[x] \in {"sending", "waiting"} => Pending(x),
           caller' = caller, NextTurn(e, calls)
    PROVE  /\ call' \in [Calls -> {"new", "sending", "waiting"} \cup Results]
           /\ loop' \in [Ends -> {"receive", "closing", "done"}] /\ stopped' \in [Ends -> BOOLEAN]
           /\ \A x \in Calls : \/ call'[x] = calls[x]
                               \/ call'[x] = "uncertain" /\ calls[x] \in {"sending", "waiting"}
           /\ DeadIsStopped' /\ NobodyWaitsOnDeadChannel'
<1>1. CASE aborted[e]
  BY <1>1, LoopFinallyEffect DEF NextTurn
<1>2. CASE ~aborted[e]
  <2>1. call' = calls /\ UNCHANGED <<loop, stopped>>
    BY <1>2 DEF NextTurn
  <2>2. DeadIsStopped'
    BY <2>1 DEF DeadIsStopped
  <2>3. NobodyWaitsOnDeadChannel'
    BY <2>1 DEF NobodyWaitsOnDeadChannel, Waiting, Pending
  <2> QED BY <2>1, <2>2, <2>3 DEF TypeOK
<1> QED BY <1>1, <1>2

\* A call refused before it was sent.
LEMMA RefuseKeeps ==
    ASSUME IInv, NEW c \in Calls, NEW e \in Ends, Refuse(c, e)
    PROVE  IInv'
<1> USE DEF IInv
<1>t. TypeOK'
  BY DEF Refuse, TypeOK, callVars, serveVars, wireVars, endVars, Settle, Results, Pending
<1>k. CallersKnown'
  BY DEF Refuse, TypeOK, CallersKnown, callVars, serveVars, wireVars, endVars, Settle,
       Results, Pending
<1>d. DeadIsStopped' /\ NobodyWaitsOnDeadChannel'
  BY DEF Refuse, TypeOK, DeadIsStopped, NobodyWaitsOnDeadChannel, Waiting, Pending,
       callVars, serveVars, wireVars, endVars, Settle, Results
<1>f. FramesTrue' /\ Once'
  <2>1. work' = work
    BY DEF Refuse, callVars, serveVars, wireVars, endVars, Settle, Results, Pending
  <2>2. \A x \in Calls : call[x] # "new" => call'[x] # "new" /\ caller'[x] = caller[x]
    BY DEF Refuse, TypeOK, Pending, callVars, serveVars, wireVars, endVars, Settle, Results
  <2>3. \A x \in Ends : Elems(queue'[x]) \subseteq Elems(queue[x]) /\ IsOnce(queue'[x])
    BY DEF Refuse, Once, TypeOK, callVars, serveVars, wireVars, endVars, Settle, Results,
         Pending
  <2>4. \A x \in Ends : Elems(arriving'[x]) \subseteq Elems(arriving[x]) /\ IsOnce(arriving'[x])
    BY DEF Refuse, Once, TypeOK, callVars, serveVars, wireVars, endVars, Settle, Results,
         Pending
  <2>5. \A x \in Ends : hand'[x] = hand[x] \/ hand'[x] = None
    BY DEF Refuse, TypeOK, callVars, serveVars, wireVars, endVars, Settle, Results, Pending
  <2> QED BY <2>1, <2>2, <2>3, <2>4, <2>5, FewerFrames
<1>a. AnswersAreFinal'
  BY DEF Refuse, TypeOK, AnswersAreFinal, Sound, callVars, serveVars, wireVars, endVars,
       Settle, Results, Pending
<1> QED BY <1>t, <1>k, <1>d, <1>f, <1>a

\* A call admitted: its frame is the only one of that call.
LEMMA RequestKeeps ==
    ASSUME IInv, NEW c \in Calls, NEW e \in Ends, Request(c, e)
    PROVE  IInv'
<1> USE DEF IInv
<1> DEFINE f == [kind |-> "request", call |-> c]
<1>1. f \in Frames /\ f.kind = "request" /\ f.call = c
  BY DEF Frames, Kinds
<1>2. call[c] = "new" /\ call'[c] # "new" /\ caller'[c] = e
  BY DEF Request, Settle, TypeOK
<1>3. queue' = [queue EXCEPT ![e] = Append(queue[e], f)] /\ queue[e] \in Seq(Frames)
  BY DEF Request, TypeOK
<1> HIDE DEF f
<1>4. \A x \in Ends : f \notin Elems(queue[x]) /\ f \notin Elems(arriving[x]) /\ f # hand[x]
  BY <1>1, <1>2 DEF FramesTrue, Sound
<1>5. /\ queue' \in [Ends -> Seq(Frames)]
      /\ \A x \in Ends : Elems(queue'[x]) \subseteq Elems(queue[x]) \cup {f} /\ IsOnce(queue'[x])
      /\ \A x \in Ends : x # e => queue'[x] = queue[x]
  BY <1>1, <1>3, <1>4, AppendFrame DEF TypeOK, Once
<1>6. arriving' = arriving /\ hand' = hand /\ work' = work
  BY DEF Request, serveVars, endVars
<1>7. Sound(f)'
  BY <1>1, <1>2, <1>6 DEF Sound, CallersKnown
<1>t. TypeOK'
  BY <1>5 DEF Request, TypeOK, callVars, serveVars, wireVars, endVars, Settle, Results,
       Pending
<1>k. CallersKnown'
  BY DEF Request, TypeOK, CallersKnown, callVars, serveVars, wireVars, endVars, Settle,
       Results, Pending
<1>d. DeadIsStopped' /\ NobodyWaitsOnDeadChannel'
  BY DEF Request, TypeOK, DeadIsStopped, NobodyWaitsOnDeadChannel, Waiting, Pending,
       callVars, serveVars, wireVars, endVars, Settle, Results
<1>f. FramesTrue' /\ Once'
  <2>1. \A g \in Frames : g.call \in Calls
    BY DEF Frames
  <2>2. \A g \in Frames : Sound(g) => Sound(g)'
    BY <1>6, <2>1 DEF Sound, Request, Settle, TypeOK
  <2>3. \A g \in Frames : g.kind = "request" /\ Sound(g) => caller'[g.call] = caller[g.call]
    BY <1>2, <2>1 DEF Sound, Request, TypeOK
  <2>4. FramesTrue'
    BY <1>1, <1>2, <1>5, <1>6, <1>7, <2>2, <2>3 DEF FramesTrue, Server
  <2>5. Once'
    BY <1>4, <1>5, <1>6 DEF Once
  <2> QED BY <2>4, <2>5
<1>a. AnswersAreFinal'
  BY DEF Request, TypeOK, AnswersAreFinal, Sound, callVars, serveVars, wireVars, endVars,
       Settle, Results, Pending
<1> QED BY <1>t, <1>k, <1>d, <1>f, <1>a

\* A call cancelled by its caller.
LEMMA OnAbortKeeps ==
    ASSUME IInv, NEW c \in Calls, OnAbort(c)
    PROVE  IInv'
<1> USE DEF IInv
<1>1. caller[c] \in Ends
  BY DEF OnAbort, Pending, CallersKnown
<1>2. /\ aborted' \in [Ends -> BOOLEAN] /\ cancelled' \subseteq Calls /\ up' \in [Ends -> BOOLEAN]
      /\ arriving' \in [Ends -> Seq(Frames)]
      /\ \A d \in Ends : Elems(arriving'[d]) \subseteq Elems(arriving[d]) /\ IsOnce(arriving'[d])
  BY <1>1, StopEffect DEF OnAbort, TypeOK, Once
<1>t. TypeOK'
  BY <1>2 DEF OnAbort, TypeOK, callVars, serveVars, wireVars, endVars, Settle, Results,
       Pending
<1>k. CallersKnown'
  BY DEF OnAbort, TypeOK, CallersKnown, callVars, serveVars, wireVars, endVars, Settle,
       Results, Pending
<1>d. DeadIsStopped' /\ NobodyWaitsOnDeadChannel'
  BY DEF OnAbort, TypeOK, DeadIsStopped, NobodyWaitsOnDeadChannel, Waiting, Pending,
       callVars, serveVars, wireVars, endVars, Settle, Results
<1>f. FramesTrue' /\ Once'
  <2>1. work' = work
    BY DEF OnAbort, callVars, serveVars, wireVars, endVars, Settle, Results, Pending
  <2>2. \A x \in Calls : call[x] # "new" => call'[x] # "new" /\ caller'[x] = caller[x]
    BY <1>2 DEF OnAbort, TypeOK, Pending, callVars, serveVars, wireVars, endVars, Settle,
         Results
  <2>3. \A x \in Ends : Elems(queue'[x]) \subseteq Elems(queue[x]) /\ IsOnce(queue'[x])
    BY <1>2 DEF OnAbort, Once, TypeOK, callVars, serveVars, wireVars, endVars, Settle,
         Results, Pending
  <2>4. \A x \in Ends : Elems(arriving'[x]) \subseteq Elems(arriving[x]) /\ IsOnce(arriving'[x])
    BY <1>2 DEF OnAbort, Once, TypeOK, callVars, serveVars, wireVars, endVars, Settle,
         Results, Pending
  <2>5. \A x \in Ends : hand'[x] = hand[x] \/ hand'[x] = None
    BY DEF OnAbort, TypeOK, callVars, serveVars, wireVars, endVars, Settle, Results,
         Pending
  <2> QED BY <2>1, <2>2, <2>3, <2>4, <2>5, FewerFrames
<1>a. AnswersAreFinal'
  BY DEF OnAbort, TypeOK, AnswersAreFinal, Sound, callVars, serveVars, wireVars, endVars,
       Settle, Results, Pending
<1> QED BY <1>t, <1>k, <1>d, <1>f, <1>a

\* A call past its deadline.
LEMMA OnTimeoutKeeps ==
    ASSUME IInv, NEW c \in Calls, OnTimeout(c)
    PROVE  IInv'
<1> USE DEF IInv
<1>1. caller[c] \in Ends
  BY DEF OnTimeout, Pending, CallersKnown
<1>2. /\ aborted' \in [Ends -> BOOLEAN] /\ cancelled' \subseteq Calls /\ up' \in [Ends -> BOOLEAN]
      /\ arriving' \in [Ends -> Seq(Frames)]
      /\ \A d \in Ends : Elems(arriving'[d]) \subseteq Elems(arriving[d]) /\ IsOnce(arriving'[d])
  BY <1>1, StopEffect DEF OnTimeout, TypeOK, Once
<1>t. TypeOK'
  BY <1>2 DEF OnTimeout, TypeOK, callVars, serveVars, wireVars, endVars, Settle, Results,
       Pending
<1>k. CallersKnown'
  BY DEF OnTimeout, TypeOK, CallersKnown, callVars, serveVars, wireVars, endVars, Settle,
       Results, Pending
<1>d. DeadIsStopped' /\ NobodyWaitsOnDeadChannel'
  BY DEF OnTimeout, TypeOK, DeadIsStopped, NobodyWaitsOnDeadChannel, Waiting, Pending,
       callVars, serveVars, wireVars, endVars, Settle, Results
<1>f. FramesTrue' /\ Once'
  <2>1. work' = work
    BY DEF OnTimeout, callVars, serveVars, wireVars, endVars, Settle, Results, Pending
  <2>2. \A x \in Calls : call[x] # "new" => call'[x] # "new" /\ caller'[x] = caller[x]
    BY <1>2 DEF OnTimeout, TypeOK, Pending, callVars, serveVars, wireVars, endVars, Settle,
         Results
  <2>3. \A x \in Ends : Elems(queue'[x]) \subseteq Elems(queue[x]) /\ IsOnce(queue'[x])
    BY <1>2 DEF OnTimeout, Once, TypeOK, callVars, serveVars, wireVars, endVars, Settle,
         Results, Pending
  <2>4. \A x \in Ends : Elems(arriving'[x]) \subseteq Elems(arriving[x]) /\ IsOnce(arriving'[x])
    BY <1>2 DEF OnTimeout, Once, TypeOK, callVars, serveVars, wireVars, endVars, Settle,
         Results, Pending
  <2>5. \A x \in Ends : hand'[x] = hand[x] \/ hand'[x] = None
    BY DEF OnTimeout, TypeOK, callVars, serveVars, wireVars, endVars, Settle, Results,
         Pending
  <2> QED BY <2>1, <2>2, <2>3, <2>4, <2>5, FewerFrames
<1>a. AnswersAreFinal'
  BY DEF OnTimeout, TypeOK, AnswersAreFinal, Sound, callVars, serveVars, wireVars, endVars,
       Settle, Results, Pending
<1> QED BY <1>t, <1>k, <1>d, <1>f, <1>a

\* A service past its deadline.
LEMMA HandlerTimeoutKeeps ==
    ASSUME IInv, NEW c \in Calls, HandlerTimeout(c)
    PROVE  IInv'
<1> USE DEF IInv
<1>1. Server(c) \in Ends
  BY OtherEnd DEF HandlerTimeout, Active, CallersKnown, Server
<1>2. /\ aborted' \in [Ends -> BOOLEAN] /\ cancelled' \subseteq Calls /\ up' \in [Ends -> BOOLEAN]
      /\ arriving' \in [Ends -> Seq(Frames)]
      /\ \A d \in Ends : Elems(arriving'[d]) \subseteq Elems(arriving[d]) /\ IsOnce(arriving'[d])
  BY <1>1, StopEffect DEF HandlerTimeout, TypeOK, Once
<1>t. TypeOK'
  BY <1>2 DEF HandlerTimeout, TypeOK, callVars, serveVars, wireVars, endVars, Active
<1>k. CallersKnown'
  BY DEF HandlerTimeout, TypeOK, CallersKnown, callVars, serveVars, wireVars, endVars,
       Active
<1>d. DeadIsStopped' /\ NobodyWaitsOnDeadChannel'
  BY DEF HandlerTimeout, TypeOK, DeadIsStopped, NobodyWaitsOnDeadChannel, Waiting, Pending,
       callVars, serveVars, wireVars, endVars, Active
<1>f. FramesTrue' /\ Once'
  <2>1. work' = work
    BY DEF HandlerTimeout, callVars, serveVars, wireVars, endVars, Active
  <2>2. \A x \in Calls : call[x] # "new" => call'[x] # "new" /\ caller'[x] = caller[x]
    BY <1>2 DEF HandlerTimeout, TypeOK, Pending, callVars, serveVars, wireVars, endVars,
         Active
  <2>3. \A x \in Ends : Elems(queue'[x]) \subseteq Elems(queue[x]) /\ IsOnce(queue'[x])
    BY <1>2 DEF HandlerTimeout, Once, TypeOK, callVars, serveVars, wireVars, endVars,
         Active
  <2>4. \A x \in Ends : Elems(arriving'[x]) \subseteq Elems(arriving[x]) /\ IsOnce(arriving'[x])
    BY <1>2 DEF HandlerTimeout, Once, TypeOK, callVars, serveVars, wireVars, endVars,
         Active
  <2>5. \A x \in Ends : hand'[x] = hand[x] \/ hand'[x] = None
    BY DEF HandlerTimeout, TypeOK, callVars, serveVars, wireVars, endVars, Active
  <2> QED BY <2>1, <2>2, <2>3, <2>4, <2>5, FewerFrames
<1>a. AnswersAreFinal'
  BY DEF HandlerTimeout, TypeOK, AnswersAreFinal, Sound, callVars, serveVars, wireVars,
       endVars, Active
<1> QED BY <1>t, <1>k, <1>d, <1>f, <1>a

\* A service abandoned by a stopped channel.
LEMMA ServeAbortedKeeps ==
    ASSUME IInv, NEW c \in Calls, ServeAborted(c)
    PROVE  IInv'
<1> USE DEF IInv
<1>t. TypeOK'
  BY DEF ServeAborted, TypeOK, callVars, serveVars, wireVars, endVars, Active
<1>k. CallersKnown'
  BY DEF ServeAborted, TypeOK, CallersKnown, callVars, serveVars, wireVars, endVars, Active
<1>d. DeadIsStopped' /\ NobodyWaitsOnDeadChannel'
  BY DEF ServeAborted, TypeOK, DeadIsStopped, NobodyWaitsOnDeadChannel, Waiting, Pending,
       callVars, serveVars, wireVars, endVars, Active
<1>f. FramesTrue' /\ Once'
  <2>1. work' = work
    BY DEF ServeAborted, callVars, serveVars, wireVars, endVars, Active
  <2>2. \A x \in Calls : call[x] # "new" => call'[x] # "new" /\ caller'[x] = caller[x]
    BY DEF ServeAborted, TypeOK, Pending, callVars, serveVars, wireVars, endVars, Active
  <2>3. \A x \in Ends : Elems(queue'[x]) \subseteq Elems(queue[x]) /\ IsOnce(queue'[x])
    BY DEF ServeAborted, Once, TypeOK, callVars, serveVars, wireVars, endVars, Active
  <2>4. \A x \in Ends : Elems(arriving'[x]) \subseteq Elems(arriving[x]) /\ IsOnce(arriving'[x])
    BY DEF ServeAborted, Once, TypeOK, callVars, serveVars, wireVars, endVars, Active
  <2>5. \A x \in Ends : hand'[x] = hand[x] \/ hand'[x] = None
    BY DEF ServeAborted, TypeOK, callVars, serveVars, wireVars, endVars, Active
  <2> QED BY <2>1, <2>2, <2>3, <2>4, <2>5, FewerFrames
<1>a. AnswersAreFinal'
  BY DEF ServeAborted, TypeOK, AnswersAreFinal, Sound, callVars, serveVars, wireVars,
       endVars, Active
<1> QED BY <1>t, <1>k, <1>d, <1>f, <1>a

\* The host closes the channel.
LEMMA CloseKeeps ==
    ASSUME IInv, NEW e \in Ends, Close(e)
    PROVE  IInv'
<1> USE DEF IInv
<1>2. /\ aborted' \in [Ends -> BOOLEAN] /\ cancelled' \subseteq Calls /\ up' \in [Ends -> BOOLEAN]
      /\ arriving' \in [Ends -> Seq(Frames)]
      /\ \A d \in Ends : Elems(arriving'[d]) \subseteq Elems(arriving[d]) /\ IsOnce(arriving'[d])
  BY StopEffect DEF Close, TypeOK, Once
<1>t. TypeOK'
  BY <1>2 DEF Close, TypeOK, callVars, serveVars, wireVars, endVars
<1>k. CallersKnown'
  BY DEF Close, TypeOK, CallersKnown, callVars, serveVars, wireVars, endVars
<1>d. DeadIsStopped' /\ NobodyWaitsOnDeadChannel'
  BY DEF Close, TypeOK, DeadIsStopped, NobodyWaitsOnDeadChannel, Waiting, Pending,
       callVars, serveVars, wireVars, endVars
<1>f. FramesTrue' /\ Once'
  <2>1. work' = work
    BY DEF Close, callVars, serveVars, wireVars, endVars
  <2>2. \A x \in Calls : call[x] # "new" => call'[x] # "new" /\ caller'[x] = caller[x]
    BY <1>2 DEF Close, TypeOK, Pending, callVars, serveVars, wireVars, endVars
  <2>3. \A x \in Ends : Elems(queue'[x]) \subseteq Elems(queue[x]) /\ IsOnce(queue'[x])
    BY <1>2 DEF Close, Once, TypeOK, callVars, serveVars, wireVars, endVars
  <2>4. \A x \in Ends : Elems(arriving'[x]) \subseteq Elems(arriving[x]) /\ IsOnce(arriving'[x])
    BY <1>2 DEF Close, Once, TypeOK, callVars, serveVars, wireVars, endVars
  <2>5. \A x \in Ends : hand'[x] = hand[x] \/ hand'[x] = None
    BY DEF Close, TypeOK, callVars, serveVars, wireVars, endVars
  <2> QED BY <2>1, <2>2, <2>3, <2>4, <2>5, FewerFrames
<1>a. AnswersAreFinal'
  BY DEF Close, TypeOK, AnswersAreFinal, Sound, callVars, serveVars, wireVars, endVars
<1> QED BY <1>t, <1>k, <1>d, <1>f, <1>a

\* The link fails.
LEMMA LinkFailsKeeps ==
    ASSUME IInv, NEW e \in Ends, LinkFails(e)
    PROVE  IInv'
<1> USE DEF IInv
<1>2. /\ arriving' \in [Ends -> Seq(Frames)]
      /\ \A d \in Ends : Elems(arriving'[d]) \subseteq Elems(arriving[d]) /\ IsOnce(arriving'[d])
  <2>1. PICK kept \in 0 .. Len(arriving[e]) : arriving' = [arriving EXCEPT ![e] = SubSeq(arriving[e], 1, kept)]
    BY DEF LinkFails
  <2>2. arriving[e] \in Seq(Frames)
    BY DEF TypeOK
  <2> QED BY <2>1, <2>2, KeepFrames DEF TypeOK, Once
<1>t. TypeOK'
  BY <1>2 DEF LinkFails, TypeOK, callVars, serveVars, wireVars, endVars
<1>k. CallersKnown'
  BY DEF LinkFails, TypeOK, CallersKnown, callVars, serveVars, wireVars, endVars
<1>d. DeadIsStopped' /\ NobodyWaitsOnDeadChannel'
  BY DEF LinkFails, TypeOK, DeadIsStopped, NobodyWaitsOnDeadChannel, Waiting, Pending,
       callVars, serveVars, wireVars, endVars
<1>f. FramesTrue' /\ Once'
  <2>1. work' = work
    BY DEF LinkFails, callVars, serveVars, wireVars, endVars
  <2>2. \A x \in Calls : call[x] # "new" => call'[x] # "new" /\ caller'[x] = caller[x]
    BY <1>2 DEF LinkFails, TypeOK, Pending, callVars, serveVars, wireVars, endVars
  <2>3. \A x \in Ends : Elems(queue'[x]) \subseteq Elems(queue[x]) /\ IsOnce(queue'[x])
    BY <1>2 DEF LinkFails, Once, TypeOK, callVars, serveVars, wireVars, endVars
  <2>4. \A x \in Ends : Elems(arriving'[x]) \subseteq Elems(arriving[x]) /\ IsOnce(arriving'[x])
    BY <1>2 DEF LinkFails, Once, TypeOK, callVars, serveVars, wireVars, endVars
  <2>5. \A x \in Ends : hand'[x] = hand[x] \/ hand'[x] = None
    BY DEF LinkFails, TypeOK, callVars, serveVars, wireVars, endVars
  <2> QED BY <2>1, <2>2, <2>3, <2>4, <2>5, FewerFrames
<1>a. AnswersAreFinal'
  BY DEF LinkFails, TypeOK, AnswersAreFinal, Sound, callVars, serveVars, wireVars, endVars
<1> QED BY <1>t, <1>k, <1>d, <1>f, <1>a

\* The receive loop notices the end of the link.
LEMMA ReceiveFailsKeeps ==
    ASSUME IInv, NEW e \in Ends, ReceiveFails(e)
    PROVE  IInv'
<1> USE DEF IInv
<1>t. TypeOK'
  BY DEF ReceiveFails, TypeOK, callVars, serveVars, wireVars, endVars
<1>k. CallersKnown'
  BY DEF ReceiveFails, TypeOK, CallersKnown, callVars, serveVars, wireVars, endVars
<1>d. DeadIsStopped' /\ NobodyWaitsOnDeadChannel'
  BY DEF ReceiveFails, TypeOK, DeadIsStopped, NobodyWaitsOnDeadChannel, Waiting, Pending,
       callVars, serveVars, wireVars, endVars
<1>f. FramesTrue' /\ Once'
  <2>1. work' = work
    BY DEF ReceiveFails, callVars, serveVars, wireVars, endVars
  <2>2. \A x \in Calls : call[x] # "new" => call'[x] # "new" /\ caller'[x] = caller[x]
    BY DEF ReceiveFails, TypeOK, Pending, callVars, serveVars, wireVars, endVars
  <2>3. \A x \in Ends : Elems(queue'[x]) \subseteq Elems(queue[x]) /\ IsOnce(queue'[x])
    BY DEF ReceiveFails, Once, TypeOK, callVars, serveVars, wireVars, endVars
  <2>4. \A x \in Ends : Elems(arriving'[x]) \subseteq Elems(arriving[x]) /\ IsOnce(arriving'[x])
    BY DEF ReceiveFails, Once, TypeOK, callVars, serveVars, wireVars, endVars
  <2>5. \A x \in Ends : hand'[x] = hand[x] \/ hand'[x] = None
    BY DEF ReceiveFails, TypeOK, callVars, serveVars, wireVars, endVars
  <2> QED BY <2>1, <2>2, <2>3, <2>4, <2>5, FewerFrames
<1>a. AnswersAreFinal'
  BY DEF ReceiveFails, TypeOK, AnswersAreFinal, Sound, callVars, serveVars, wireVars,
       endVars
<1> QED BY <1>t, <1>k, <1>d, <1>f, <1>a

\* The receive loop ends.
LEMMA LoopEndsKeeps ==
    ASSUME IInv, NEW e \in Ends, LoopEnds(e)
    PROVE  IInv'
<1> USE DEF IInv
<1>t. TypeOK'
  BY DEF LoopEnds, TypeOK, callVars, serveVars, wireVars, endVars, LoopFinally, Results
<1>k. CallersKnown'
  BY DEF LoopEnds, TypeOK, CallersKnown, callVars, serveVars, wireVars, endVars,
       LoopFinally, Results
<1>d. DeadIsStopped' /\ NobodyWaitsOnDeadChannel'
  BY DEF LoopEnds, TypeOK, DeadIsStopped, NobodyWaitsOnDeadChannel, Waiting, Pending,
       callVars, serveVars, wireVars, endVars, LoopFinally, Results
<1>f. FramesTrue' /\ Once'
  <2>1. work' = work
    BY DEF LoopEnds, callVars, serveVars, wireVars, endVars, LoopFinally, Results
  <2>2. \A x \in Calls : call[x] # "new" => call'[x] # "new" /\ caller'[x] = caller[x]
    BY DEF LoopEnds, TypeOK, Pending, callVars, serveVars, wireVars, endVars, LoopFinally,
         Results
  <2>3. \A x \in Ends : Elems(queue'[x]) \subseteq Elems(queue[x]) /\ IsOnce(queue'[x])
    BY DEF LoopEnds, Once, TypeOK, callVars, serveVars, wireVars, endVars, LoopFinally,
         Results
  <2>4. \A x \in Ends : Elems(arriving'[x]) \subseteq Elems(arriving[x]) /\ IsOnce(arriving'[x])
    BY DEF LoopEnds, Once, TypeOK, callVars, serveVars, wireVars, endVars, LoopFinally,
         Results
  <2>5. \A x \in Ends : hand'[x] = hand[x] \/ hand'[x] = None
    BY DEF LoopEnds, TypeOK, callVars, serveVars, wireVars, endVars, LoopFinally, Results
  <2> QED BY <2>1, <2>2, <2>3, <2>4, <2>5, FewerFrames
<1>a. AnswersAreFinal'
  BY DEF LoopEnds, TypeOK, AnswersAreFinal, Sound, callVars, serveVars, wireVars, endVars,
       LoopFinally, Results
<1> QED BY <1>t, <1>k, <1>d, <1>f, <1>a

\* An answer is taken: it says what became of the service.
LEMMA AcceptResponseKeeps ==
    ASSUME IInv, NEW e \in Ends, AcceptResponse(e)
    PROVE  IInv'
<1> USE DEF IInv
<1> DEFINE f == hand[e]
           calls == IF Pending(f.call) THEN [call EXCEPT ![f.call] = f.kind] ELSE call
<1>1. f \in Frames /\ f.call \in Calls /\ f.kind \in {"ok", "refused"} /\ Sound(f)
  BY DEF AcceptResponse, TypeOK, Frames, Kinds, FramesTrue
<1>2. NextTurn(e, calls) /\ hand' = [hand EXCEPT ![e] = None]
  BY DEF AcceptResponse
<1>3. UNCHANGED <<caller, serve, work, cancelled, queue, writing, arriving, up, aborted>>
  BY DEF AcceptResponse, serveVars, wireVars
<1> HIDE DEF f
<1>4. calls \in [Calls -> {"new", "sending", "waiting"} \cup Results]
  BY <1>1 DEF TypeOK, Results
<1>5. \A x \in Calls : \/ calls[x] = call[x]
                       \/ x = f.call /\ calls[x] = f.kind /\ Pending(x)
  BY <1>1 DEF TypeOK
<1> HIDE DEF calls
<1>6. \A x \in Calls : calls[x] \in {"sending", "waiting"} => Pending(x)
  BY <1>5 DEF Pending
<1>7. /\ call' \in [Calls -> {"new", "sending", "waiting"} \cup Results]
      /\ loop' \in [Ends -> {"receive", "closing", "done"}] /\ stopped' \in [Ends -> BOOLEAN]
      /\ \A x \in Calls : \/ call'[x] = calls[x]
                          \/ call'[x] = "uncertain" /\ calls[x] \in {"sending", "waiting"}
      /\ DeadIsStopped' /\ NobodyWaitsOnDeadChannel'
  BY <1>2, <1>3, <1>4, <1>6, NextTurnEffect
<1>8. \A x \in Calls : \/ call'[x] = call[x]
                       \/ x = f.call /\ call'[x] = f.kind /\ Pending(x)
                       \/ call'[x] = "uncertain" /\ Pending(x)
  BY <1>5, <1>6, <1>7
<1>t. TypeOK'
  BY <1>2, <1>3, <1>7 DEF TypeOK
<1>k. CallersKnown'
  BY <1>1, <1>3, <1>8 DEF CallersKnown, Pending
<1>f. FramesTrue' /\ Once'
  <2>1. \A x \in Calls : call[x] # "new" => call'[x] # "new" /\ caller'[x] = caller[x]
    BY <1>1, <1>3, <1>8
  <2>2. \A x \in Ends : hand'[x] = hand[x] \/ hand'[x] = None
    BY <1>2 DEF TypeOK
  <2>3. \A x \in Ends : /\ Elems(queue'[x]) \subseteq Elems(queue[x]) /\ IsOnce(queue'[x])
                        /\ Elems(arriving'[x]) \subseteq Elems(arriving[x]) /\ IsOnce(arriving'[x])
    BY <1>3 DEF Once
  <2> QED BY <1>3, <2>1, <2>2, <2>3, FewerFrames
<1>a. AnswersAreFinal'
  BY <1>1, <1>3, <1>8 DEF AnswersAreFinal, Sound
<1> QED BY <1>7, <1>t, <1>k, <1>f, <1>a

\* A request above the limit ends the loop.
LEMMA OverloadKeeps ==
    ASSUME IInv, NEW e \in Ends, Overload(e)
    PROVE  IInv'
<1> USE DEF IInv
<1>1. UNCHANGED <<caller, serve, work, cancelled, queue, writing, aborted>> /\ hand' = [hand EXCEPT ![e] = None]
  BY DEF Overload, serveVars
<1>2. /\ call' \in [Calls -> {"new", "sending", "waiting"} \cup Results]
      /\ loop' \in [Ends -> {"receive", "closing", "done"}] /\ stopped' \in [Ends -> BOOLEAN]
      /\ \A x \in Calls : call'[x] = call[x] \/ (call'[x] = "uncertain" /\ Pending(x))
      /\ DeadIsStopped' /\ NobodyWaitsOnDeadChannel'
  <2>1. CASE aborted[e]
    <3>1. LoopFinally(e, call)
      BY <2>1 DEF Overload
    <3>2. /\ call \in [Calls -> {"new", "sending", "waiting"} \cup Results]
          /\ \A x \in Calls : call[x] \in {"sending", "waiting"} <=> Pending(x)
      BY DEF TypeOK, Pending
    <3> QED BY <1>1, <3>1, <3>2, LoopFinallyEffect
  <2>2. CASE ~aborted[e]
    <3>1. loop' = [loop EXCEPT ![e] = "closing"] /\ UNCHANGED <<call, stopped>>
      BY <2>2 DEF Overload
    <3>2. DeadIsStopped'
      BY <3>1 DEF DeadIsStopped, TypeOK
    <3>3. NobodyWaitsOnDeadChannel'
      BY <1>1, <3>1 DEF NobodyWaitsOnDeadChannel, Waiting, Pending, TypeOK
    <3> QED BY <3>1, <3>2, <3>3 DEF TypeOK
  <2> QED BY <2>1, <2>2
<1>3. /\ up' \in [Ends -> BOOLEAN]
      /\ arriving' \in [Ends -> Seq(Frames)]
      /\ \A x \in Ends : Elems(arriving'[x]) \subseteq Elems(arriving[x]) /\ IsOnce(arriving'[x])
  <2>1. CASE aborted[e]
    BY <2>1 DEF Overload, TypeOK, Once
  <2>2. CASE ~aborted[e]
    <3>1. up' = [up EXCEPT ![e] = FALSE] /\ arriving' = [arriving EXCEPT ![e] = <<>>]
      BY <2>2 DEF Overload
    <3> QED BY <3>1, NoFrames DEF TypeOK, Once
  <2> QED BY <2>1, <2>2
<1>t. TypeOK'
  BY <1>1, <1>2, <1>3 DEF TypeOK
<1>k. CallersKnown'
  BY <1>1, <1>2 DEF CallersKnown, Pending
<1>f. FramesTrue' /\ Once'
  <2>1. \A x \in Ends : hand'[x] = hand[x] \/ hand'[x] = None
    BY <1>1 DEF TypeOK
  <2>2. \A x \in Ends : Elems(queue'[x]) \subseteq Elems(queue[x]) /\ IsOnce(queue'[x])
    BY <1>1 DEF Once
  <2>3. \A x \in Calls : call[x] # "new" => call'[x] # "new" /\ caller'[x] = caller[x]
    BY <1>1, <1>2
  <2> QED BY <1>1, <1>3, <2>1, <2>2, <2>3, FewerFrames
<1>a. AnswersAreFinal'
  BY <1>1, <1>2 DEF AnswersAreFinal
<1> QED BY <1>2, <1>t, <1>k, <1>f, <1>a

\* A frame moves from the queue of one end to the other end, if that is there.
LEMMA WriteKeeps ==
    ASSUME IInv, NEW e \in Ends, Write(e)
    PROVE  IInv'
<1> USE DEF IInv
<1> DEFINE f == Head(queue[e])
<1>1. /\ f \in Frames /\ f \in Elems(queue[e])
      /\ Tail(queue[e]) \in Seq(Frames)
      /\ Elems(Tail(queue[e])) \subseteq Elems(queue[e])
      /\ IsOnce(Tail(queue[e]))
      /\ f.kind = "request" => f \notin Elems(Tail(queue[e]))
  BY TakeFrame DEF Write, TypeOK, Once
<1>2. queue' = [queue EXCEPT ![e] = Tail(queue[e])]
  BY DEF Write
<1>3. \/ arriving' = [arriving EXCEPT ![Other(e)] = Append(arriving[Other(e)], f)]
      \/ arriving' = arriving
  BY DEF Write
<1>4. f.call \in Calls
  BY <1>1 DEF Frames
<1>5. writing' \in [Ends -> Frames \cup {None}]
  BY <1>1 DEF Write, TypeOK
<1>7. UNCHANGED <<caller, call, serve, work, cancelled, up, loop, hand, aborted, stopped>>
  BY DEF Write, callVars, serveVars, endVars
<1> HIDE DEF f
<1>8. \A x \in Ends : f.kind = "request" => f \notin Elems(arriving[x]) /\ f # hand[x]
  BY <1>1 DEF Once
<1>9. /\ arriving' \in [Ends -> Seq(Frames)]
      /\ \A x \in Ends : /\ IsOnce(arriving'[x])
                         /\ Elems(arriving'[x]) \subseteq Elems(arriving[x]) \cup {f}
                         /\ x # Other(e) => arriving'[x] = arriving[x]
  <2> DEFINE o == Other(e)
  <2>1. o \in Ends
    BY OtherEnd
  <2> HIDE DEF o
  <2>2. arriving[o] \in Seq(Frames) /\ IsOnce(arriving[o])
    BY <2>1 DEF TypeOK, Once
  <2>3. /\ Append(arriving[o], f) \in Seq(Frames)
        /\ Elems(Append(arriving[o], f)) = Elems(arriving[o]) \cup {f}
        /\ IsOnce(Append(arriving[o], f))
    BY <1>1, <1>8, <2>1, <2>2, AppendFrame
  <2>4. CASE arriving' = [arriving EXCEPT ![o] = Append(arriving[o], f)]
    BY <2>1, <2>3, <2>4 DEF TypeOK, Once, o
  <2>5. CASE arriving' = arriving
    BY <2>5 DEF TypeOK, Once
  <2> QED BY <1>3, <2>4, <2>5 DEF o
<1>10. /\ queue' \in [Ends -> Seq(Frames)]
       /\ \A x \in Ends : IsOnce(queue'[x]) /\ Elems(queue'[x]) \subseteq Elems(queue[x])
       /\ f.kind = "request" => f \notin Elems(queue'[e])
  BY <1>1, <1>2 DEF TypeOK, Once
<1>t. TypeOK'
  BY <1>5, <1>7, <1>9, <1>10 DEF TypeOK
<1>k. CallersKnown'
  BY <1>7 DEF CallersKnown
<1>d. DeadIsStopped' /\ NobodyWaitsOnDeadChannel'
  BY <1>7 DEF DeadIsStopped, NobodyWaitsOnDeadChannel, Waiting, Pending
<1>f. FramesTrue' /\ Once'
  <2>1. \A g \in Frames : g.call \in Calls
    BY DEF Frames
  <2>2. \A g \in Frames : Sound(g) => Sound(g)'
    BY <1>7, <2>1 DEF Sound
  <2>3. Sound(f) /\ (f.kind = "request" => e = caller[f.call])
    BY <1>1 DEF FramesTrue
  <2>4. FramesTrue'
    <3>1. SUFFICES ASSUME NEW x \in Ends, NEW g \in Frames
                   PROVE  /\ g \in Elems(queue'[x])
                               => Sound(g)' /\ (g.kind = "request" => x = caller[g.call])
                          /\ g \in Elems(arriving'[x]) \/ g = hand[x]
                               => Sound(g)' /\ (g.kind = "request" => x = Other(caller[g.call]))
      BY <1>7 DEF FramesTrue, Server
    <3>2. CASE g = f /\ x = Other(e)
      BY <1>1, <1>10, <2>2, <2>3, <3>2 DEF FramesTrue, Server
    <3>3. CASE g # f \/ x # Other(e)
      BY <1>9, <1>10, <2>2, <3>3 DEF FramesTrue, Server
    <3> QED BY <3>2, <3>3
  <2>5. \A x \in Ends : f.kind = "request" => f \notin Elems(queue'[x])
    BY <1>1, <1>2, <1>10, <2>3 DEF FramesTrue, TypeOK
  <2>6. Once'
    BY <1>7, <1>8, <1>9, <1>10, <2>5 DEF Once
  <2> QED BY <2>4, <2>6
<1>a. AnswersAreFinal'
  BY <1>7 DEF AnswersAreFinal
<1> QED BY <1>t, <1>k, <1>d, <1>f, <1>a

\* A write that settles moves no frame.
LEMMA WriteSettlesKeeps ==
    ASSUME IInv, NEW e \in Ends, WriteSettles(e)
    PROVE  IInv'
<1> USE DEF IInv
<1> DEFINE f == writing[e]
<1>1. f \in Frames /\ f.call \in Calls
  BY DEF WriteSettles, TypeOK, Frames
<1>2. /\ writing' = [writing EXCEPT ![e] = None]
      /\ UNCHANGED <<caller, work, cancelled, queue, arriving, up, loop, hand, aborted, stopped>>
  BY DEF WriteSettles, endVars
<1>3. \/ call' = [call EXCEPT ![f.call] = "waiting"] /\ Pending(f.call)
      \/ call' = call
  BY DEF WriteSettles
<1>4. \/ serve' = [serve EXCEPT ![f.call] = "answered"] /\ serve[f.call] = "sending"
      \/ serve' = serve
  BY DEF WriteSettles, Answering
<1> HIDE DEF f
<1>t. TypeOK'
  BY <1>1, <1>2, <1>3, <1>4 DEF TypeOK
<1>k. CallersKnown'
  BY <1>1, <1>2, <1>3, <1>4 DEF CallersKnown, TypeOK, Pending
<1>d. DeadIsStopped' /\ NobodyWaitsOnDeadChannel'
  BY <1>1, <1>2, <1>3 DEF DeadIsStopped, NobodyWaitsOnDeadChannel, Waiting, Pending, TypeOK
<1>f. FramesTrue' /\ Once'
  <2>1. \A x \in Calls : call[x] # "new" => call'[x] # "new" /\ caller'[x] = caller[x]
    BY <1>1, <1>2, <1>3 DEF TypeOK
  <2>2. \A x \in Ends : /\ Elems(queue'[x]) \subseteq Elems(queue[x]) /\ IsOnce(queue'[x])
                        /\ Elems(arriving'[x]) \subseteq Elems(arriving[x]) /\ IsOnce(arriving'[x])
    BY <1>2 DEF Once
  <2> QED BY <1>2, <2>1, <2>2, FewerFrames
<1>a. AnswersAreFinal'
  BY <1>1, <1>2, <1>3 DEF AnswersAreFinal, TypeOK
<1> QED BY <1>t, <1>k, <1>d, <1>f, <1>a

\* A frame that cannot leave, or whose write reports an error.
LEMMA RejectKeeps ==
    ASSUME IInv, NEW e \in Ends, NEW f \in Frames, SendRejects(e, f),
           queue' \in [Ends -> Seq(Frames)],
           writing' \in [Ends -> Frames \cup {None}],
           \A x \in Ends : Elems(queue'[x]) \subseteq Elems(queue[x]) /\ IsOnce(queue'[x])
    PROVE  IInv'
<1> USE DEF IInv
<1>3. /\ aborted' \in [Ends -> BOOLEAN] /\ cancelled' \subseteq Calls /\ up' \in [Ends -> BOOLEAN]
      /\ arriving' \in [Ends -> Seq(Frames)]
      /\ \A d \in Ends : Elems(arriving'[d]) \subseteq Elems(arriving[d]) /\ IsOnce(arriving'[d])
  BY StopEffect DEF SendRejects
<1>4. f.call \in Calls
  BY DEF Frames
<1>5. \/ call' = [call EXCEPT ![f.call] = "uncertain"] /\ Pending(f.call)
      \/ call' = call
  BY DEF SendRejects
<1>6. \/ serve' = [serve EXCEPT ![f.call] = "dropped"] /\ serve[f.call] = "sending"
      \/ serve' = serve
  BY DEF SendRejects, Answering
<1>7. UNCHANGED <<caller, work, loop, hand, stopped>>
  BY DEF SendRejects
<1>t. TypeOK'
  BY <1>3, <1>4, <1>5, <1>6, <1>7 DEF TypeOK, Results
<1>k. CallersKnown'
  BY <1>4, <1>5, <1>6, <1>7 DEF CallersKnown, TypeOK, Pending
<1>d. DeadIsStopped' /\ NobodyWaitsOnDeadChannel'
  BY <1>4, <1>5, <1>7 DEF DeadIsStopped, NobodyWaitsOnDeadChannel, Waiting, Pending, TypeOK
<1>f. FramesTrue' /\ Once'
  <2>1. \A x \in Calls : call[x] # "new" => call'[x] # "new" /\ caller'[x] = caller[x]
    BY <1>4, <1>5, <1>7 DEF TypeOK
  <2> QED BY <1>3, <1>7, <2>1, FewerFrames
<1>a. AnswersAreFinal'
  BY <1>4, <1>5, <1>7 DEF AnswersAreFinal, TypeOK
<1> QED BY <1>t, <1>k, <1>d, <1>f, <1>a

\* The first frame of the queue cannot leave.
LEMMA SendFailsKeeps ==
    ASSUME IInv, NEW e \in Ends, SendFails(e)
    PROVE  IInv'
<1> DEFINE f == Head(queue[e])
<1>0. TypeOK /\ Once
  BY DEF IInv
<1>1. /\ f \in Frames
      /\ Tail(queue[e]) \in Seq(Frames)
      /\ Elems(Tail(queue[e])) \subseteq Elems(queue[e])
      /\ IsOnce(Tail(queue[e]))
  BY <1>0, TakeFrame DEF SendFails, TypeOK, Once
<1>2. SendRejects(e, f) /\ queue' = [queue EXCEPT ![e] = Tail(queue[e])] /\ writing' = writing
  BY DEF SendFails
<1> HIDE DEF f
<1>3. /\ queue' \in [Ends -> Seq(Frames)]
      /\ \A x \in Ends : Elems(queue'[x]) \subseteq Elems(queue[x]) /\ IsOnce(queue'[x])
  BY <1>0, <1>1, <1>2 DEF TypeOK, Once
<1>4. writing' \in [Ends -> Frames \cup {None}]
  BY <1>0, <1>2 DEF TypeOK
<1> QED BY <1>1, <1>2, <1>3, <1>4, RejectKeeps

\* A write reports an error.
LEMMA WriteFailsKeeps ==
    ASSUME IInv, NEW e \in Ends, WriteFails(e)
    PROVE  IInv'
<1> DEFINE f == writing[e]
<1>0. TypeOK /\ Once
  BY DEF IInv
<1>1. f \in Frames
  BY <1>0 DEF WriteFails, TypeOK
<1>2. SendRejects(e, f) /\ writing' = [writing EXCEPT ![e] = None] /\ queue' = queue
  BY DEF WriteFails
<1> HIDE DEF f
<1>3. /\ queue' \in [Ends -> Seq(Frames)]
      /\ writing' \in [Ends -> Frames \cup {None}]
      /\ \A x \in Ends : Elems(queue'[x]) \subseteq Elems(queue[x]) /\ IsOnce(queue'[x])
  BY <1>0, <1>2 DEF TypeOK, Once
<1> QED BY <1>1, <1>2, <1>3, RejectKeeps

\* The receive loop takes a frame in hand.
LEMMA ReceiveKeeps ==
    ASSUME IInv, NEW e \in Ends, Receive(e)
    PROVE  IInv'
<1> USE DEF IInv
<1> DEFINE f == Head(arriving[e])
<1>1. /\ f \in Frames /\ f \in Elems(arriving[e])
      /\ Tail(arriving[e]) \in Seq(Frames)
      /\ Elems(Tail(arriving[e])) \subseteq Elems(arriving[e])
      /\ IsOnce(Tail(arriving[e]))
      /\ f.kind = "request" => f \notin Elems(Tail(arriving[e]))
  BY TakeFrame DEF Receive, TypeOK, Once
<1>2. /\ arriving' = [arriving EXCEPT ![e] = Tail(arriving[e])]
      /\ hand' = [hand EXCEPT ![e] = f]
  BY DEF Receive
<1>3. UNCHANGED <<callVars, serveVars, queue, writing, up, loop, aborted, stopped>>
  BY DEF Receive
<1> HIDE DEF f
<1>4. /\ arriving' \in [Ends -> Seq(Frames)]
      /\ \A x \in Ends : Elems(arriving'[x]) \subseteq Elems(arriving[x]) /\ IsOnce(arriving'[x])
      /\ f.kind = "request" => f \notin Elems(arriving'[e])
  BY <1>1, <1>2 DEF TypeOK, Once
<1>5. hand' \in [Ends -> Frames \cup {None}] /\ hand'[e] = f /\ (\A x \in Ends : x # e => hand'[x] = hand[x])
  BY <1>1, <1>2 DEF TypeOK
<1>t. TypeOK'
  BY <1>3, <1>4, <1>5 DEF TypeOK, callVars, serveVars
<1>k. CallersKnown'
  BY <1>3 DEF CallersKnown, callVars, serveVars
<1>d. DeadIsStopped' /\ NobodyWaitsOnDeadChannel'
  BY <1>3 DEF DeadIsStopped, NobodyWaitsOnDeadChannel, Waiting, Pending, callVars
<1>f. FramesTrue' /\ Once'
  <2>1. \A g \in Frames : Sound(g) => Sound(g)'
    BY <1>3 DEF Sound, callVars, serveVars
  <2>2. FramesTrue'
    BY <1>1, <1>3, <1>4, <1>5, <2>1 DEF FramesTrue, Server, callVars
  <2>3. \A x \in Ends : f.kind = "request" => f \notin Elems(arriving'[x]) /\ f \notin Elems(queue[x])
    BY <1>1, <1>2, <1>4 DEF FramesTrue, Once, TypeOK
  <2>4. Once'
    BY <1>3, <1>4, <1>5, <2>3 DEF Once
  <2> QED BY <2>2, <2>4
<1>a. AnswersAreFinal'
  BY <1>3 DEF AnswersAreFinal, callVars, serveVars
<1> QED BY <1>t, <1>k, <1>d, <1>f, <1>a

\* A service is started: its request was the only frame of that call.
LEMMA AcceptRequestKeeps ==
    ASSUME IInv, NEW e \in Ends, AcceptRequest(e)
    PROVE  IInv'
<1> USE DEF IInv
<1> DEFINE f == hand[e]
           c == f.call
<1>1. f \in Frames /\ f.kind = "request" /\ c \in Calls
  BY DEF AcceptRequest, TypeOK, Frames
<1>2. Sound(f) /\ work[c] = "none" /\ call[c] # "new"
  BY <1>1 DEF FramesTrue, Sound
<1>3. work' = [work EXCEPT ![c] = "running"] /\ serve' = [serve EXCEPT ![c] = "running"]
  BY DEF AcceptRequest
<1>4. hand' = [hand EXCEPT ![e] = None]
  BY DEF AcceptRequest
<1>5. UNCHANGED <<caller, cancelled, queue, writing, arriving, up, aborted>>
  BY DEF AcceptRequest, wireVars
<1>6. /\ call' \in [Calls -> {"new", "sending", "waiting"} \cup Results]
      /\ loop' \in [Ends -> {"receive", "closing", "done"}] /\ stopped' \in [Ends -> BOOLEAN]
      /\ \A x \in Calls : call'[x] = call[x] \/ (call'[x] = "uncertain" /\ Pending(x))
      /\ DeadIsStopped' /\ NobodyWaitsOnDeadChannel'
  <2>1. NextTurn(e, call)
    BY DEF AcceptRequest
  <2>2. /\ call \in [Calls -> {"new", "sending", "waiting"} \cup Results]
        /\ \A x \in Calls : call[x] \in {"sending", "waiting"} <=> Pending(x)
    BY DEF TypeOK, Pending
  <2> QED BY <1>5, <2>1, <2>2, NextTurnEffect
<1> HIDE DEF f, c
<1>7. f = hand[e] /\ c = f.call
  BY DEF f, c
<1>t. TypeOK'
  BY <1>1, <1>3, <1>4, <1>5, <1>6 DEF TypeOK
<1>k. CallersKnown'
  BY <1>1, <1>2, <1>3, <1>5, <1>6 DEF CallersKnown, TypeOK, Pending
<1>d. DeadIsStopped' /\ NobodyWaitsOnDeadChannel'
  BY <1>6
<1>f. FramesTrue' /\ Once'
  <2>1. \A g \in Frames : g.call \in Calls /\ g.kind \in Kinds
    BY DEF Frames
  <2>2. \A g \in Frames : g.kind = "request" /\ g.call = c => g = f
    BY <1>1, <1>7 DEF Frames
  <2>3. \A g \in Frames : Sound(g) /\ g # f => Sound(g)'
    <3>1. SUFFICES ASSUME NEW g \in Frames, Sound(g), g # f PROVE Sound(g)'
      OBVIOUS
    <3>2. g.call # c
      BY <1>2, <2>1, <2>2, <3>1 DEF Sound, Kinds
    <3>3. work'[g.call] = work[g.call] /\ (call[g.call] # "new" => call'[g.call] # "new")
      BY <1>3, <1>6, <2>1, <3>2 DEF TypeOK
    <3> QED BY <3>1, <3>3 DEF Sound
  <2>4. \A x \in Ends : f \notin Elems(queue[x]) /\ f \notin Elems(arriving[x])
    BY <1>1, <1>7 DEF Once
  <2>5. \A x \in Ends, g \in Frames : g = hand'[x] => g = hand[x] /\ g # f
    BY <1>1, <1>4, <1>7, NoneIsNoFrame DEF TypeOK, FramesTrue
  <2>6. FramesTrue'
    BY <1>5, <2>3, <2>4, <2>5 DEF FramesTrue, Server
  <2>7. Once'
    BY <1>5, <2>5 DEF Once
  <2> QED BY <2>6, <2>7
<1>a. AnswersAreFinal'
  BY <1>1, <1>2, <1>3, <1>6 DEF AnswersAreFinal, TypeOK
<1> QED BY <1>t, <1>k, <1>d, <1>f, <1>a

\* A service ends; its answer says how.
LEMMA DispatchSettlesKeeps ==
    ASSUME IInv, NEW c \in Calls, NEW outcome \in Outcomes, DispatchSettles(c, outcome)
    PROVE  IInv'
<1> USE DEF IInv
<1> DEFINE f == [kind |-> IF outcome = "ok" THEN "ok" ELSE "refused", call |-> c]
<1>1. f \in Frames /\ f.kind # "request" /\ f.call = c /\ (f.kind = "ok" <=> outcome = "ok")
  BY DEF Frames, Kinds
<1>2. work[c] = "running" /\ work' = [work EXCEPT ![c] = outcome]
  BY DEF DispatchSettles
<1>3. Server(c) \in Ends
  BY <1>2, OtherEnd DEF CallersKnown, Server
<1>4. \/ /\ queue' = [queue EXCEPT ![Server(c)] = Append(queue[Server(c)], f)]
         /\ serve' = [serve EXCEPT ![c] = "sending"]
      \/ UNCHANGED <<serve, queue>>
  BY DEF DispatchSettles
<1>5. UNCHANGED <<callVars, cancelled, writing, arriving, up, endVars>>
  BY DEF DispatchSettles
<1> HIDE DEF f
<1>6. /\ queue' \in [Ends -> Seq(Frames)]
      /\ \A x \in Ends : Elems(queue'[x]) \subseteq Elems(queue[x]) \cup {f} /\ IsOnce(queue'[x])
  <2> DEFINE s == Server(c)
  <2> HIDE DEF s
  <2>1. s \in Ends /\ queue[s] \in Seq(Frames) /\ IsOnce(queue[s])
    BY <1>3 DEF TypeOK, Once, s
  <2>2. /\ Append(queue[s], f) \in Seq(Frames)
        /\ Elems(Append(queue[s], f)) = Elems(queue[s]) \cup {f}
        /\ IsOnce(Append(queue[s], f))
    BY <1>1, <2>1, AppendFrame
  <2>3. CASE queue' = [queue EXCEPT ![s] = Append(queue[s], f)]
    BY <2>1, <2>2, <2>3 DEF TypeOK, Once
  <2>4. CASE queue' = queue
    BY <2>4 DEF TypeOK, Once
  <2> QED BY <1>4, <2>3, <2>4 DEF s
<1>t. TypeOK'
  BY <1>2, <1>4, <1>5, <1>6 DEF TypeOK, callVars, endVars
<1>k. CallersKnown'
  BY <1>2, <1>4, <1>5 DEF CallersKnown, TypeOK, callVars
<1>d. DeadIsStopped' /\ NobodyWaitsOnDeadChannel'
  BY <1>5 DEF DeadIsStopped, NobodyWaitsOnDeadChannel, Waiting, Pending, callVars, endVars
<1>f. FramesTrue' /\ Once'
  <2>1. \A g \in Frames : g.call \in Calls /\ g.kind \in Kinds
    BY DEF Frames
  <2>2. \A g \in Frames : Sound(g) => Sound(g)'
    <3>1. SUFFICES ASSUME NEW g \in Frames, Sound(g) PROVE Sound(g)'
      OBVIOUS
    <3>2. g.call # c
      BY <1>2, <2>1, <3>1 DEF Sound, Kinds
    <3>3. work'[g.call] = work[g.call] /\ call'[g.call] = call[g.call]
      BY <1>2, <1>5, <2>1, <3>2 DEF TypeOK, callVars
    <3> QED BY <3>1, <3>3 DEF Sound
  <2>3. work'[c] = outcome
    BY <1>2 DEF TypeOK
  <2>4. Sound(f)'
    BY <1>1, <2>1, <2>3 DEF Sound, Outcomes, Kinds
  <2>5. FramesTrue'
    BY <1>1, <1>5, <1>6, <2>2, <2>4 DEF FramesTrue, Server, callVars, endVars
  <2>6. Once'
    BY <1>1, <1>5, <1>6 DEF Once, endVars
  <2> QED BY <2>5, <2>6
<1>a. AnswersAreFinal'
  BY <1>2, <1>5 DEF AnswersAreFinal, TypeOK, callVars
<1> QED BY <1>t, <1>k, <1>d, <1>f, <1>a

-----------------------------------------------------------------------------
\* The invariant holds when both ends start.
LEMMA InitIInv == Init => IInv
<1> SUFFICES ASSUME Init PROVE IInv
  OBVIOUS
<1>1. TypeOK
  BY NoFrames DEF Init, TypeOK
<1>2. \A e \in Ends : Elems(queue[e]) = {} /\ Elems(arriving[e]) = {} /\ hand[e] \notin Frames
  BY NoFrames, NoneIsNoFrame DEF Init
<1>3. FramesTrue /\ Once
  BY <1>2, NoFrames DEF FramesTrue, Once, Init
<1>4. CallersKnown /\ DeadIsStopped /\ NobodyWaitsOnDeadChannel /\ AnswersAreFinal
  BY DEF Init, CallersKnown, DeadIsStopped, NobodyWaitsOnDeadChannel, AnswersAreFinal
<1> QED BY <1>1, <1>3, <1>4 DEF IInv

\* A step that changes nothing keeps the invariant.
LEMMA StutterKeeps == IInv /\ UNCHANGED vars => IInv'
BY DEF IInv, vars, callVars, serveVars, wireVars, endVars, TypeOK, CallersKnown,
     DeadIsStopped, 
       NobodyWaitsOnDeadChannel, Waiting, Pending, FramesTrue, Sound, Server, Once, AnswersAreFinal

\* Every step of either end keeps the invariant.
LEMMA NextKeeps == IInv /\ [Next]_vars => IInv'
<1> SUFFICES ASSUME IInv, [Next]_vars PROVE IInv'
  OBVIOUS
<1>1. ASSUME NEW c \in Calls, CallStep(c) PROVE IInv'
  BY <1>1, RequestKeeps, RefuseKeeps, OnAbortKeeps, OnTimeoutKeeps, HandlerTimeoutKeeps,
     ServeAbortedKeeps, DispatchSettlesKeeps DEF CallStep
<1>2. ASSUME NEW e \in Ends, EndStep(e) PROVE IInv'
  BY <1>2, WriteKeeps, WriteSettlesKeeps, WriteFailsKeeps, SendFailsKeeps, LinkFailsKeeps, ReceiveKeeps, ReceiveFailsKeeps,
     LoopEndsKeeps, AcceptResponseKeeps, AcceptRequestKeeps, OverloadKeeps, CloseKeeps DEF EndStep
<1> QED BY <1>1, <1>2, StutterKeeps DEF Next

\* The inductive invariant holds throughout.
LEMMA InvariantHolds == Spec => []IInv
BY InitIInv, NextKeeps, PTL DEF Spec

\* For any number of calls and any limits, a payload or a refusal that reaches a
\* caller says what became of the service.
THEOREM AnswersAreFinalAlways == Spec => [](TypeOK /\ AnswersAreFinal)
<1>1. IInv => TypeOK /\ AnswersAreFinal
  BY DEF IInv
<1> QED BY <1>1, InvariantHolds, PTL

\* For any number of calls and any limits, no caller waits on a channel whose
\* receive loop has ended.
THEOREM NobodyWaitsAlways == Spec => []NobodyWaitsOnDeadChannel
<1>1. IInv => NobodyWaitsOnDeadChannel
  BY DEF IInv
<1> QED BY <1>1, InvariantHolds, PTL

-----------------------------------------------------------------------------
(* The calls of an end, and the places they take at the other one. *)

\* The calls of an end that may still be served, cancelled ones apart.
InFlight(e) == {c \in Calls : caller[c] = e /\ call[c] \in {"sending", "waiting", "uncertain"}}

\* The answer to the call has been written, and the write has not settled.
OpenWrite(c) ==
    /\ writing[Server(c)] # None /\ writing[Server(c)].kind # "request"
    /\ writing[Server(c)].call = c

\* The server has still to give back the place of a call it has answered.
Held(c) == serve[c] = "sending" /\ (OpenWrite(c) \/ c \in cancelled)

\* A service runs only for a call that left its caller, and has ended, but for
\* its place, when the caller has an answer; an aborted service is one whose
\* channel stopped.
ServeKnown ==
    \A c \in Calls :
        /\ work[c] = "none" => serve[c] = "none"
        /\ Active(c) => \/ call[c] \in {"sending", "waiting", "uncertain", "aborted"}
                        \/ call[c] \in {"ok", "refused"} /\ Held(c)
        /\ c \in cancelled => call[c] # "new" /\ aborted[Server(c)]

\* An answer that left was the last the server did for the call, but for its
\* place.
AnswersLeft ==
    \A e \in Ends : \A f \in Frames :
        f.kind # "request" =>
          /\ f \in Elems(queue[e]) => e = Server(f.call) /\ serve[f.call] \notin {"none", "running"}
          /\ f \in Elems(arriving[e]) \/ f = hand[e]
               => serve[f.call] \in {"answered", "dropped"} \/ Held(f.call)

\* A frame being written is of a call that was made, a request of one made here.
WritingKnown ==
    \A e \in Ends : \A f \in Frames :
        f = writing[e] => call[f.call] # "new" /\ (f.kind = "request" => e = caller[f.call])

\* No frame is sent for a call that was refused.
RequestsKnown ==
    \A e \in Ends : \A f \in Frames :
        f.kind = "request" /\ (f \in Elems(queue[e]) \/ f \in Elems(arriving[e]) \/ f = hand[e])
            => call[f.call] # "unsent"

\* An end that gave up a call without knowing its fate makes no more calls.
UncertainStops == \A c \in Calls : call[c] = "uncertain" => stopped[caller[c]] \/ aborted[caller[c]]

PlacesBounded ==
    \A e \in Ends : IsFiniteSet(InFlight(e)) /\ Cardinality(InFlight(e)) <= MaxOutbound

PInv == ServeKnown /\ AnswersLeft /\ WritingKnown /\ RequestsKnown /\ UncertainStops /\ PlacesBounded

\* What a step that makes no call and starts no service does to the call x.
Settles(x) ==
    /\ serve'[x] = serve[x] \/ (Active(x) /\ serve'[x] \in {"answered", "dropped"})
    /\ caller'[x] = caller[x] \/ call[x] = "new"
    /\ \/ call'[x] = call[x]
       \/ call[x] = "new" /\ call'[x] = "unsent"
       \/ Pending(x) /\ call'[x] \in {"waiting", "aborted"}
       \/ Pending(x) /\ call'[x] = "uncertain" /\ (stopped'[caller[x]] \/ aborted'[caller[x]])
       \/ Pending(x) /\ call'[x] \in {"ok", "refused"} /\ (Active(x) => Held(x))
    /\ x \in cancelled' => x \in cancelled \/ (Active(x) /\ aborted'[Server(x)])

\* A place held for an answered call is given back, or still held.
HeldKept == \A x \in Calls : Held(x) => Held(x)' \/ serve'[x] \in {"answered", "dropped"}

\* Nothing takes a stop back.
EndsDown ==
    \A e \in Ends : /\ stopped[e] => stopped'[e]
                    /\ aborted[e] => aborted'[e]

\* A step that makes no call takes no place.
LEMMA NoNewPlace ==
    ASSUME IInv, PInv, EndsDown, \A x \in Calls : Settles(x)
    PROVE  UncertainStops' /\ PlacesBounded'
<1>1. ASSUME NEW x \in Calls, call'[x] \in {"sending", "waiting", "uncertain"}
      PROVE  /\ caller'[x] = caller[x] /\ call[x] \in {"sending", "waiting", "uncertain"}
             /\ call'[x] = "uncertain" => \/ call[x] = "uncertain"
                                          \/ stopped'[caller[x]] \/ aborted'[caller[x]]
  <2>1. Settles(x)
    OBVIOUS
  <2> QED BY <1>1, <2>1 DEF Settles, Pending
<1>2. \A x \in Calls : call[x] # "new" => caller[x] \in Ends
  BY DEF IInv, CallersKnown
<1>3. UncertainStops'
  BY <1>1, <1>2 DEF UncertainStops, PInv, EndsDown
<1>4. ASSUME NEW e \in Ends PROVE IsFiniteSet(InFlight(e)') /\ Cardinality(InFlight(e)') <= MaxOutbound
  <2> DEFINE S == InFlight(e)  T == InFlight(e)'
  <2>1. T \subseteq S
    BY <1>1 DEF InFlight
  <2>2. IsFiniteSet(S) /\ Cardinality(S) <= MaxOutbound
    BY DEF PInv, PlacesBounded
  <2> HIDE DEF S, T
  <2>3. IsFiniteSet(T) /\ Cardinality(T) <= Cardinality(S) /\ Cardinality(T) \in Nat /\ Cardinality(S) \in Nat
    BY <2>1, <2>2, FS_Subset, FS_CardinalityType
  <2>4. Cardinality(T) <= MaxOutbound
    BY <2>2, <2>3, ChannelAssumption
  <2> QED BY <2>3, <2>4 DEF T
<1> QED BY <1>3, <1>4 DEF PlacesBounded

\* A step that starts no service keeps what is known of the services.
LEMMA NoNewService ==
    ASSUME IInv, PInv, EndsDown, HeldKept, work' = work, \A x \in Calls : Settles(x)
    PROVE  ServeKnown'
<1>1. ASSUME NEW x \in Calls
      PROVE  /\ work'[x] = "none" => serve'[x] = "none"
             /\ Active(x)' => \/ call'[x] \in {"sending", "waiting", "uncertain", "aborted"}
                              \/ call'[x] \in {"ok", "refused"} /\ Held(x)'
             /\ x \in cancelled' => call'[x] # "new" /\ aborted'[Other(caller'[x])]
  <2>1. Settles(x) /\ x \in Calls
    OBVIOUS
  <2>2. /\ work[x] = "none" => serve[x] = "none"
        /\ Active(x) => \/ call[x] \in {"sending", "waiting", "uncertain", "aborted"}
                        \/ call[x] \in {"ok", "refused"} /\ Held(x)
        /\ x \in cancelled => call[x] # "new" /\ aborted[Server(x)]
    BY DEF PInv, ServeKnown
  <2>3. work'[x] = "none" => serve'[x] = "none"
    BY <2>1, <2>2 DEF Settles, Active
  <2>4. ASSUME Active(x)'
        PROVE  \/ call'[x] \in {"sending", "waiting", "uncertain", "aborted"}
               \/ call'[x] \in {"ok", "refused"} /\ Held(x)'
    <3>1. Active(x) /\ serve'[x] \notin {"answered", "dropped"}
      BY <2>1, <2>4 DEF Settles, Active
    <3>2. Held(x) => Held(x)'
      BY <3>1 DEF HeldKept
    <3> QED BY <2>1, <2>2, <3>1, <3>2 DEF Settles, Pending
  <2>5. ASSUME x \in cancelled' PROVE call'[x] # "new" /\ aborted'[Other(caller'[x])]
    <3>1. call[x] # "new"
      <4>1. x \in cancelled \/ Active(x)
        BY <2>1, <2>5 DEF Settles
      <4> QED BY <2>2, <4>1
    <3>2. call'[x] # "new" /\ caller'[x] = caller[x]
      BY <2>1, <3>1 DEF Settles
    <3>3. Server(x) \in Ends
      BY <3>1, OtherEnd DEF IInv, CallersKnown, Server
    <3>4. aborted'[Server(x)]
      BY <2>1, <2>2, <2>5, <3>3 DEF Settles, EndsDown
    <3> QED BY <3>2, <3>4 DEF Server
  <2> QED BY <2>3, <2>4, <2>5
<1> QED BY <1>1 DEF ServeKnown, Server

\* What is known of a call whose frame is under way lasts.
LEMMA FrameFactsLast ==
    ASSUME IInv, NEW x \in Calls, Settles(x), call[x] # "new"
    PROVE  /\ caller'[x] = caller[x]
           /\ serve[x] \notin {"none", "running"} => serve'[x] \notin {"none", "running"}
           /\ serve[x] \in {"answered", "dropped"} => serve'[x] = serve[x]
           /\ call[x] # "unsent" => call'[x] # "unsent"
BY DEF Settles, Active, Pending

\* A place stays held while its write is open.
LEMMA HeldSame ==
    ASSUME NEW x \in Calls, Held(x), serve'[x] = serve[x], caller'[x] = caller[x],
           writing'[Server(x)] = writing[Server(x)], cancelled \subseteq cancelled'
    PROVE  Held(x)'
<1>1. OpenWrite(x) => OpenWrite(x)'
  BY DEF OpenWrite, Server
<1> QED BY <1>1 DEF Held

\* So does it in a step that leaves the writes alone.
LEMMA HeldStays ==
    ASSUME IInv, \A x \in Calls : Settles(x), writing' = writing, cancelled \subseteq cancelled'
    PROVE  HeldKept
<1>1. SUFFICES ASSUME NEW x \in Calls, Held(x), serve'[x] \notin {"answered", "dropped"}
               PROVE  Held(x)'
  BY DEF HeldKept
<1>2. serve[x] = "sending" /\ (OpenWrite(x) \/ x \in cancelled) /\ Settles(x)
  BY <1>1 DEF Held
<1>3. call[x] # "new"
  BY <1>2 DEF IInv, CallersKnown
<1>4. serve'[x] = "sending" /\ caller'[x] = caller[x]
  BY <1>1, <1>2, <1>3 DEF Settles
<1>5. OpenWrite(x) => OpenWrite(x)'
  BY <1>4 DEF OpenWrite, Server
<1> QED BY <1>2, <1>4, <1>5 DEF Held

\* What is said of an answer that arrived lasts.
LEMMA AnsweredLasts ==
    ASSUME IInv, HeldKept, NEW x \in Calls, Settles(x), call[x] # "new",
           serve[x] \in {"answered", "dropped"} \/ Held(x)
    PROVE  serve'[x] \in {"answered", "dropped"} \/ Held(x)'
<1>1. CASE Held(x)
  BY <1>1 DEF HeldKept
<1>2. CASE serve[x] \in {"answered", "dropped"}
  BY <1>2, FrameFactsLast
<1> QED BY <1>1, <1>2

\* A step that neither makes a call, nor starts a service, nor sends a frame.
LEMMA QuietKeeps ==
    ASSUME IInv, PInv, EndsDown, HeldKept, work' = work, \A x \in Calls : Settles(x),
           \A e \in Ends : Elems(queue'[e]) \subseteq Elems(queue[e]),
           \A e \in Ends : writing'[e] = writing[e] \/ writing'[e] = None,
           \A e \in Ends : \A f \in Frames :
              f \in Elems(arriving'[e]) \/ f = hand'[e] => f \in Elems(arriving[e]) \/ f = hand[e]
    PROVE  PInv'
<1>1. ASSUME NEW e \in Ends, NEW f \in Frames,
             f \in Elems(queue[e]) \/ f \in Elems(arriving[e]) \/ f = hand[e]
      PROVE  /\ call[f.call] # "new" /\ f.call \in Calls
  <2>1. Sound(f) /\ f.call \in Calls /\ f.kind \in Kinds
    BY <1>1 DEF IInv, FramesTrue, Frames
  <2> QED BY <2>1 DEF Sound, Kinds, IInv, CallersKnown
<1>2. AnswersLeft'
  <2>1. ASSUME NEW e \in Ends, NEW f \in Frames, f.kind # "request", f \in Elems(queue'[e])
        PROVE  e = Other(caller'[f.call]) /\ serve'[f.call] \notin {"none", "running"}
    <3>1. f \in Elems(queue[e])
      BY <2>1
    <3>2. e = Server(f.call) /\ serve[f.call] \notin {"none", "running"}
      BY <2>1, <3>1 DEF PInv, AnswersLeft
    <3>3. caller'[f.call] = caller[f.call] /\ serve'[f.call] \notin {"none", "running"}
      BY <1>1, <3>1, <3>2, FrameFactsLast
    <3> QED BY <3>2, <3>3 DEF Server
  <2>2. ASSUME NEW e \in Ends, NEW f \in Frames, f.kind # "request",
               f \in Elems(arriving'[e]) \/ f = hand'[e]
        PROVE  serve'[f.call] \in {"answered", "dropped"} \/ Held(f.call)'
    <3>1. f \in Elems(arriving[e]) \/ f = hand[e]
      BY <2>2
    <3>2. serve[f.call] \in {"answered", "dropped"} \/ Held(f.call)
      BY <2>2, <3>1 DEF PInv, AnswersLeft
    <3> QED BY <1>1, <3>1, <3>2, AnsweredLasts
  <2> QED BY <2>1, <2>2 DEF AnswersLeft, Server
<1>3. WritingKnown'
  <2>1. SUFFICES ASSUME NEW e \in Ends, NEW f \in Frames, f = writing'[e]
                 PROVE  call'[f.call] # "new" /\ (f.kind = "request" => e = caller'[f.call])
    BY DEF WritingKnown
  <2>2. f = writing[e] /\ f.call \in Calls
    BY <2>1, NoneIsNoFrame DEF Frames
  <2>3. call[f.call] # "new" /\ (f.kind = "request" => e = caller[f.call])
    BY <2>2 DEF PInv, WritingKnown
  <2>4. Settles(f.call)
    BY <2>2
  <2> QED BY <2>3, <2>4 DEF Settles, Pending
<1>4. RequestsKnown'
  <2>1. SUFFICES ASSUME NEW e \in Ends, NEW f \in Frames, f.kind = "request",
                        f \in Elems(queue'[e]) \/ f \in Elems(arriving'[e]) \/ f = hand'[e]
                 PROVE  call'[f.call] # "unsent"
    BY DEF RequestsKnown
  <2>2. f \in Elems(queue[e]) \/ f \in Elems(arriving[e]) \/ f = hand[e]
    BY <2>1
  <2>3. call[f.call] # "unsent"
    BY <2>1, <2>2 DEF PInv, RequestsKnown
  <2> QED BY <1>1, <2>2, <2>3, FrameFactsLast
<1> QED BY <1>2, <1>3, <1>4, NoNewPlace, NoNewService DEF PInv

\* The same with no write settled either.
LEMMA CalmKeeps ==
    ASSUME IInv, PInv, EndsDown, work' = work, \A x \in Calls : Settles(x),
           writing' = writing, cancelled \subseteq cancelled',
           \A e \in Ends : Elems(queue'[e]) \subseteq Elems(queue[e]),
           \A e \in Ends : \A f \in Frames :
              f \in Elems(arriving'[e]) \/ f = hand'[e] => f \in Elems(arriving[e]) \/ f = hand[e]
    PROVE  PInv'
BY HeldStays, QuietKeeps

\* The stop after a failure closes the connection and cancels what this end serves.
LEMMA StopsDown ==
    ASSUME TypeOK, Once, NEW e \in Ends, stopped' = stopped, StopAfterTransportFailure(e)
    PROVE  /\ EndsDown
           /\ stopped'[e] \/ aborted'[e]
           /\ \A d \in Ends : Elems(arriving'[d]) \subseteq Elems(arriving[d])
           /\ cancelled \subseteq cancelled'
           /\ \A x \in Calls : x \in cancelled' => x \in cancelled \/ (Active(x) /\ aborted'[Server(x)])
<1>1. \A d \in Ends : Elems(arriving'[d]) \subseteq Elems(arriving[d])
  BY StopEffect
<1>2. CASE Abort(e)
  BY <1>1, <1>2 DEF Abort, EndsDown, TypeOK, Serving
<1>3. CASE (stopped[e] \/ aborted[e]) /\ UNCHANGED <<aborted, cancelled, up, arriving>>
  BY <1>1, <1>3 DEF EndsDown
<1> QED BY <1>2, <1>3 DEF StopAfterTransportFailure

\* A call refused before it was sent.
LEMMA RefusePlaces ==
    ASSUME IInv, PInv, NEW c \in Calls, NEW e \in Ends, Refuse(c, e)
    PROVE  PInv'
<1>1. /\ EndsDown /\ work' = work /\ cancelled' = cancelled
      /\ queue' = queue /\ writing' = writing /\ arriving' = arriving /\ hand' = hand
  BY DEF Refuse, EndsDown, serveVars, wireVars, endVars
<1>2. \A x \in Calls : Settles(x)
  BY DEF IInv, TypeOK, Refuse, Settles, Settle, serveVars, wireVars, endVars
<1> QED BY <1>1, <1>2, CalmKeeps

\* A call cancelled by its caller: its place here is free.
LEMMA OnAbortPlaces ==
    ASSUME IInv, PInv, NEW c \in Calls, OnAbort(c)
    PROVE  PInv'
<1> DEFINE e == caller[c]
<1>0. TypeOK /\ Once
  BY DEF IInv
<1>1. /\ Pending(c) /\ call' = [call EXCEPT ![c] = "aborted"]
      /\ UNCHANGED <<caller, serve, work, queue, writing, loop, hand, stopped>>
      /\ UNCHANGED <<aborted, cancelled, up, arriving>> \/ StopAfterTransportFailure(e)
  BY DEF OnAbort, Settle
<1>2. e \in Ends
  BY <1>1 DEF IInv, CallersKnown, Pending
<1> HIDE DEF e
<1>3. /\ EndsDown /\ \A d \in Ends : Elems(arriving'[d]) \subseteq Elems(arriving[d])
      /\ cancelled \subseteq cancelled'
      /\ \A x \in Calls : x \in cancelled' => x \in cancelled \/ (Active(x) /\ aborted'[Server(x)])
  <2>1. CASE UNCHANGED <<aborted, cancelled, up, arriving>>
    BY <1>1, <2>1 DEF EndsDown
  <2>2. CASE StopAfterTransportFailure(e)
    BY <1>0, <1>1, <1>2, <2>2, StopsDown
  <2> QED BY <1>1, <2>1, <2>2
<1>4. \A x \in Calls : Settles(x)
  BY <1>0, <1>1, <1>3 DEF TypeOK, Settles
<1> QED BY <1>1, <1>3, <1>4, CalmKeeps

\* A call past its deadline: its place stays taken, and the channel stops.
LEMMA OnTimeoutPlaces ==
    ASSUME IInv, PInv, NEW c \in Calls, OnTimeout(c)
    PROVE  PInv'
<1> DEFINE e == caller[c]
<1>0. TypeOK /\ Once
  BY DEF IInv
<1>1. /\ Pending(c) /\ call' = [call EXCEPT ![c] = "uncertain"]
      /\ UNCHANGED <<caller, serve, work, queue, writing, loop, hand, stopped>>
      /\ StopAfterTransportFailure(e)
  BY DEF OnTimeout, Settle
<1>2. e \in Ends
  BY <1>1 DEF IInv, CallersKnown, Pending
<1>3. e = caller[c]
  OBVIOUS
<1> HIDE DEF e
<1>4. /\ EndsDown /\ \A d \in Ends : Elems(arriving'[d]) \subseteq Elems(arriving[d])
      /\ cancelled \subseteq cancelled'
      /\ \A x \in Calls : x \in cancelled' => x \in cancelled \/ (Active(x) /\ aborted'[Server(x)])
      /\ stopped'[e] \/ aborted'[e]
  BY <1>0, <1>1, <1>2, StopsDown
<1>5. \A x \in Calls : Settles(x)
  BY <1>0, <1>1, <1>3, <1>4 DEF TypeOK, Settles
<1> QED BY <1>1, <1>4, <1>5, CalmKeeps

\* A service past its deadline.
LEMMA HandlerTimeoutPlaces ==
    ASSUME IInv, PInv, NEW c \in Calls, HandlerTimeout(c)
    PROVE  PInv'
<1> DEFINE e == Server(c)
<1>0. TypeOK /\ Once
  BY DEF IInv
<1>1. /\ Active(c) /\ serve' = [serve EXCEPT ![c] = "dropped"]
      /\ UNCHANGED <<caller, call, work, queue, writing, loop, hand, stopped>>
      /\ StopAfterTransportFailure(e)
  BY DEF HandlerTimeout, callVars
<1>2. e \in Ends
  BY <1>1, OtherEnd DEF Active, IInv, CallersKnown, Server
<1> HIDE DEF e
<1>3. /\ EndsDown /\ \A d \in Ends : Elems(arriving'[d]) \subseteq Elems(arriving[d])
      /\ cancelled \subseteq cancelled'
      /\ \A x \in Calls : x \in cancelled' => x \in cancelled \/ (Active(x) /\ aborted'[Server(x)])
  BY <1>0, <1>1, <1>2, StopsDown
<1>4. \A x \in Calls : Settles(x)
  BY <1>0, <1>1, <1>3 DEF TypeOK, Settles
<1> QED BY <1>1, <1>3, <1>4, CalmKeeps

\* A service given up after the abort of its channel.
LEMMA ServeAbortedPlaces ==
    ASSUME IInv, PInv, NEW c \in Calls, ServeAborted(c)
    PROVE  PInv'
<1>1. /\ EndsDown /\ work' = work /\ cancelled' = cancelled
      /\ queue' = queue /\ writing' = writing /\ arriving' = arriving /\ hand' = hand
  BY DEF ServeAborted, EndsDown, wireVars, endVars
<1>2. \A x \in Calls : Settles(x)
  BY DEF IInv, TypeOK, ServeAborted, Settles, callVars
<1> QED BY <1>1, <1>2, CalmKeeps

\* A frame that cannot leave, or whose write reports an error.
LEMMA RejectSettles ==
    ASSUME IInv, NEW e \in Ends, NEW f \in Frames, SendRejects(e, f),
           f.kind = "request" => caller[f.call] = e
    PROVE  /\ UNCHANGED <<caller, work, loop, hand, stopped>>
           /\ EndsDown /\ \A d \in Ends : Elems(arriving'[d]) \subseteq Elems(arriving[d])
           /\ cancelled \subseteq cancelled'
           /\ \A x \in Calls : Settles(x)
           /\ f.kind # "request" /\ serve[f.call] = "sending"
                 => serve'[f.call] = "dropped" \/ f.call \in cancelled
<1>0. TypeOK /\ Once
  BY DEF IInv
<1>1. f.call \in Calls
  BY DEF Frames
<1>2. /\ UNCHANGED <<caller, work, loop, hand, stopped>>
      /\ StopAfterTransportFailure(e)
      /\ \/ call' = [call EXCEPT ![f.call] = "uncertain"] /\ Pending(f.call) /\ f.kind = "request"
         \/ call' = call
      /\ \/ serve' = [serve EXCEPT ![f.call] = "dropped"] /\ serve[f.call] = "sending"
         \/ serve' = serve
  BY DEF SendRejects, Answering
<1>3. /\ EndsDown /\ \A d \in Ends : Elems(arriving'[d]) \subseteq Elems(arriving[d])
      /\ cancelled \subseteq cancelled'
      /\ \A x \in Calls : x \in cancelled' => x \in cancelled \/ (Active(x) /\ aborted'[Server(x)])
      /\ stopped'[e] \/ aborted'[e]
  BY <1>0, <1>2, StopsDown
<1>4. \A x \in Calls : Settles(x)
  BY <1>0, <1>1, <1>2, <1>3 DEF TypeOK, Settles, Active
<1>5. f.kind # "request" /\ serve[f.call] = "sending"
         => serve'[f.call] = "dropped" \/ f.call \in cancelled
  BY <1>0, <1>1 DEF SendRejects, Answering, TypeOK
<1> QED BY <1>2, <1>3, <1>4, <1>5

\* The first frame of the queue cannot leave.
LEMMA SendFailsPlaces ==
    ASSUME IInv, PInv, NEW e \in Ends, SendFails(e)
    PROVE  PInv'
<1> DEFINE f == Head(queue[e])
<1>0. TypeOK /\ FramesTrue
  BY DEF IInv
<1>1. /\ f \in Frames /\ f \in Elems(queue[e])
      /\ Elems(Tail(queue[e])) \subseteq Elems(queue[e])
  BY <1>0, TakeFrame DEF SendFails, TypeOK
<1>2. SendRejects(e, f) /\ queue' = [queue EXCEPT ![e] = Tail(queue[e])] /\ writing' = writing
  BY DEF SendFails
<1> HIDE DEF f
<1>3. f.kind = "request" => caller[f.call] = e
  BY <1>0, <1>1 DEF FramesTrue
<1>4. /\ UNCHANGED <<work, hand>> /\ EndsDown /\ cancelled \subseteq cancelled'
      /\ \A d \in Ends : Elems(arriving'[d]) \subseteq Elems(arriving[d])
      /\ \A x \in Calls : Settles(x)
  BY <1>1, <1>2, <1>3, RejectSettles
<1>5. \A d \in Ends : Elems(queue'[d]) \subseteq Elems(queue[d])
  BY <1>0, <1>1, <1>2 DEF TypeOK
<1> QED BY <1>2, <1>4, <1>5, CalmKeeps

\* A step that ends the write of an end, and gives back the place of its answer
\* unless the channel has stopped.
LEMMA WriteEnds ==
    ASSUME IInv, PInv, NEW e \in Ends, writing[e] \in Frames, writing' = [writing EXCEPT ![e] = None],
           cancelled \subseteq cancelled', \A x \in Calls : Settles(x),
           writing[e].kind # "request" /\ serve[writing[e].call] = "sending"
              => \/ serve'[writing[e].call] \in {"answered", "dropped"}
                 \/ writing[e].call \in cancelled
    PROVE  HeldKept
<1>1. SUFFICES ASSUME NEW x \in Calls, Held(x), serve'[x] \notin {"answered", "dropped"}
               PROVE  Held(x)'
  BY DEF HeldKept
<1>2. serve[x] = "sending" /\ (OpenWrite(x) \/ x \in cancelled) /\ Settles(x)
  BY <1>1 DEF Held
<1>3. call[x] # "new"
  BY <1>2 DEF IInv, CallersKnown
<1>4. serve'[x] = "sending" /\ caller'[x] = caller[x]
  BY <1>1, <1>2, <1>3 DEF Settles
<1>5. CASE x \in cancelled
  BY <1>4, <1>5 DEF Held
<1>6. CASE OpenWrite(x) /\ x \notin cancelled
  <2>1. Server(x) # e
    BY <1>1, <1>2, <1>6 DEF OpenWrite
  <2>2. Server(x) \in Ends
    BY <1>3, OtherEnd DEF IInv, CallersKnown, Server
  <2>3. writing'[Server(x)] = writing[Server(x)]
    BY <2>1, <2>2 DEF IInv, TypeOK
  <2>4. OpenWrite(x)'
    BY <1>4, <1>6, <2>3 DEF OpenWrite, Server
  <2> QED BY <1>4, <2>4 DEF Held
<1> QED BY <1>2, <1>5, <1>6

\* A write reports an error.
LEMMA WriteFailsPlaces ==
    ASSUME IInv, PInv, NEW e \in Ends, WriteFails(e)
    PROVE  PInv'
<1> DEFINE f == writing[e]
<1>0. TypeOK
  BY DEF IInv
<1>1. f \in Frames /\ f = writing[e]
  BY <1>0 DEF WriteFails, TypeOK
<1>2. SendRejects(e, f) /\ writing' = [writing EXCEPT ![e] = None] /\ queue' = queue
  BY DEF WriteFails
<1> HIDE DEF f
<1>3. f.kind = "request" => caller[f.call] = e
  BY <1>1 DEF PInv, WritingKnown
<1>4. /\ UNCHANGED <<work, hand>> /\ EndsDown /\ cancelled \subseteq cancelled'
      /\ \A d \in Ends : Elems(arriving'[d]) \subseteq Elems(arriving[d])
      /\ \A x \in Calls : Settles(x)
      /\ f.kind # "request" /\ serve[f.call] = "sending"
            => serve'[f.call] = "dropped" \/ f.call \in cancelled
  BY <1>1, <1>2, <1>3, RejectSettles
<1>5. HeldKept
  BY <1>1, <1>2, <1>4, WriteEnds
<1>6. \A d \in Ends : writing'[d] = writing[d] \/ writing'[d] = None
  BY <1>0, <1>2 DEF TypeOK
<1> QED BY <1>2, <1>4, <1>5, <1>6, QuietKeeps

\* A write settles: the place of an answer is given back.
LEMMA WriteSettlesPlaces ==
    ASSUME IInv, PInv, NEW e \in Ends, WriteSettles(e)
    PROVE  PInv'
<1> DEFINE f == writing[e]
<1>0. TypeOK
  BY DEF IInv
<1>1. f \in Frames /\ f = writing[e] /\ f.call \in Calls
  BY <1>0 DEF WriteSettles, TypeOK, Frames
<1>2. /\ writing' = [writing EXCEPT ![e] = None]
      /\ UNCHANGED <<caller, work, cancelled, queue, arriving, up, loop, hand, aborted, stopped>>
      /\ call' = (IF f.kind = "request" /\ Pending(f.call) THEN [call EXCEPT ![f.call] = "waiting"] ELSE call)
      /\ serve' = (IF f.kind # "request" /\ Answering(f.call) THEN [serve EXCEPT ![f.call] = "answered"] ELSE serve)
  BY DEF WriteSettles, endVars
<1> HIDE DEF f
<1>3. EndsDown
  BY <1>2 DEF EndsDown
<1>4. \A x \in Calls : Settles(x)
  BY <1>0, <1>1, <1>2 DEF TypeOK, Settles, Active, Answering
<1>5. f.kind # "request" /\ serve[f.call] = "sending"
         => serve'[f.call] = "answered" \/ f.call \in cancelled
  BY <1>0, <1>1, <1>2 DEF TypeOK, Answering
<1>6. HeldKept
  BY <1>1, <1>2, <1>4, <1>5, WriteEnds
<1>7. \A d \in Ends : writing'[d] = writing[d] \/ writing'[d] = None
  BY <1>0, <1>2 DEF TypeOK
<1> QED BY <1>2, <1>3, <1>4, <1>6, <1>7, QuietKeeps

\* A link that fails, and a receive loop that meets a closed connection.
LEMMA LinkPlaces ==
    ASSUME IInv, PInv, NEW e \in Ends, LinkFails(e) \/ ReceiveFails(e)
    PROVE  PInv'
<1>0. TypeOK
  BY DEF IInv
<1>1. UNCHANGED <<callVars, serveVars, queue, writing, hand, aborted, stopped>>
  BY DEF LinkFails, ReceiveFails, wireVars, endVars
<1>2. EndsDown
  BY <1>0 DEF LinkFails, ReceiveFails, wireVars, endVars, EndsDown, TypeOK
<1>3. \A d \in Ends : Elems(arriving'[d]) \subseteq Elems(arriving[d])
  <2>1. CASE LinkFails(e)
    <3>1. PICK kept \in 0 .. Len(arriving[e]) : arriving' = [arriving EXCEPT ![e] = SubSeq(arriving[e], 1, kept)]
      BY <2>1 DEF LinkFails
    <3>2. arriving[e] \in Seq(Frames)
      BY <1>0 DEF TypeOK
    <3>3. Elems(SubSeq(arriving[e], 1, kept)) \subseteq Elems(arriving[e])
      BY <3>2, KeepFrames
    <3> QED BY <1>0, <3>1, <3>3 DEF TypeOK
  <2>2. CASE ReceiveFails(e)
    BY <2>2 DEF ReceiveFails, wireVars
  <2> QED BY <2>1, <2>2
<1>4. \A x \in Calls : Settles(x)
  BY <1>1 DEF Settles, callVars, serveVars
<1> QED BY <1>1, <1>2, <1>3, <1>4, CalmKeeps DEF callVars, serveVars

\* The connection is closed by this end.
LEMMA ClosePlaces ==
    ASSUME IInv, PInv, NEW e \in Ends, Close(e)
    PROVE  PInv'
<1>0. TypeOK /\ Once
  BY DEF IInv
<1>1. /\ stopped' = [stopped EXCEPT ![e] = TRUE] /\ Abort(e)
      /\ UNCHANGED <<callVars, serve, work, queue, writing, loop, hand>>
  BY DEF Close
<1>2. \A d \in Ends : Elems(arriving'[d]) \subseteq Elems(arriving[d])
  BY <1>0, <1>1, StopEffect
<1>3. /\ EndsDown
      /\ cancelled \subseteq cancelled'
      /\ \A x \in Calls : x \in cancelled' => x \in cancelled \/ (Active(x) /\ aborted'[Server(x)])
  BY <1>0, <1>1 DEF Abort, EndsDown, TypeOK, Serving
<1>4. \A x \in Calls : Settles(x)
  BY <1>1, <1>3 DEF Settles, callVars
<1> QED BY <1>1, <1>2, <1>3, <1>4, CalmKeeps

\* The end of the receive loop gives up the calls still pending, and stops.
LEMMA FinallySettles ==
    ASSUME TypeOK, NEW e \in Ends, NEW calls \in [Calls -> {"new", "sending", "waiting"} \cup Results],
           LoopFinally(e, calls)
    PROVE  /\ \A d \in Ends : stopped[d] => stopped'[d]
           /\ \A x \in Calls : \/ call'[x] = calls[x]
                               \/ /\ call'[x] = "uncertain" /\ calls[x] \in {"sending", "waiting"}
                                  /\ stopped'[caller[x]]
<1>1. stopped' = [stopped EXCEPT ![e] = TRUE]
  BY DEF LoopFinally
<1>2. call' = [x \in Calls |-> IF caller[x] = e /\ calls[x] \in {"sending", "waiting"}
                                 THEN "uncertain" ELSE calls[x]]
  BY DEF LoopFinally
<1> QED BY <1>1, <1>2 DEF TypeOK

\* The same at the head of the loop.
LEMMA TurnSettles ==
    ASSUME TypeOK, NEW e \in Ends, NEW calls \in [Calls -> {"new", "sending", "waiting"} \cup Results],
           NextTurn(e, calls)
    PROVE  /\ \A d \in Ends : stopped[d] => stopped'[d]
           /\ \A x \in Calls : \/ call'[x] = calls[x]
                               \/ /\ call'[x] = "uncertain" /\ calls[x] \in {"sending", "waiting"}
                                  /\ stopped'[caller[x]]
<1>1. CASE aborted[e]
  BY <1>1, FinallySettles DEF NextTurn
<1>2. CASE ~aborted[e]
  BY <1>2 DEF NextTurn
<1> QED BY <1>1, <1>2

\* The receive loop ends.
LEMMA LoopEndsPlaces ==
    ASSUME IInv, PInv, NEW e \in Ends, LoopEnds(e)
    PROVE  PInv'
<1>0. TypeOK /\ call \in [Calls -> {"new", "sending", "waiting"} \cup Results]
  BY DEF IInv, TypeOK
<1>1. LoopFinally(e, call) /\ UNCHANGED <<caller, serveVars, wireVars, hand, aborted>>
  BY DEF LoopEnds
<1>2. /\ \A d \in Ends : stopped[d] => stopped'[d]
      /\ \A x \in Calls : \/ call'[x] = call[x]
                          \/ /\ call'[x] = "uncertain" /\ call[x] \in {"sending", "waiting"}
                             /\ stopped'[caller[x]]
  BY <1>0, <1>1, FinallySettles
<1>3. EndsDown
  BY <1>1, <1>2 DEF EndsDown, wireVars
<1>4. \A x \in Calls : Settles(x)
  BY <1>1, <1>2 DEF Settles, Pending, serveVars
<1> QED BY <1>1, <1>3, <1>4, CalmKeeps DEF serveVars, wireVars

\* An answer is taken: the server has finished with the call, but for its place.
LEMMA AcceptResponsePlaces ==
    ASSUME IInv, PInv, NEW e \in Ends, AcceptResponse(e)
    PROVE  PInv'
<1> DEFINE f == hand[e]
           calls == IF Pending(f.call) THEN [call EXCEPT ![f.call] = f.kind] ELSE call
<1>0. TypeOK /\ call \in [Calls -> {"new", "sending", "waiting"} \cup Results]
  BY DEF IInv, TypeOK
<1>1. f \in Frames /\ f.kind # "request"
  BY <1>0 DEF AcceptResponse, TypeOK
<1>2. f.call \in Calls /\ f.kind \in {"ok", "refused"}
  BY <1>1 DEF Frames, Kinds
<1>3. serve[f.call] \in {"answered", "dropped"} \/ Held(f.call)
  BY <1>1 DEF PInv, AnswersLeft
<1>4. NextTurn(e, calls) /\ hand' = [hand EXCEPT ![e] = None]
      /\ UNCHANGED <<caller, serveVars, wireVars, aborted>>
  BY DEF AcceptResponse
<1>5. calls \in [Calls -> {"new", "sending", "waiting"} \cup Results]
      /\ \A x \in Calls : \/ calls[x] = call[x]
                          \/ Pending(x) /\ calls[x] \in {"ok", "refused"} /\ (Active(x) => Held(x))
  BY <1>0, <1>2, <1>3 DEF Results, Active
<1> HIDE DEF f, calls
<1>6. /\ \A d \in Ends : stopped[d] => stopped'[d]
      /\ \A x \in Calls : \/ call'[x] = calls[x]
                          \/ /\ call'[x] = "uncertain" /\ calls[x] \in {"sending", "waiting"}
                             /\ stopped'[caller[x]]
  BY <1>0, <1>4, <1>5, TurnSettles
<1>7. EndsDown
  BY <1>4, <1>6 DEF EndsDown, wireVars
<1>8. \A x \in Calls : Settles(x)
  BY <1>4, <1>5, <1>6 DEF Settles, Pending, serveVars
<1>9. \A d \in Ends : hand'[d] = hand[d] \/ hand'[d] = None
  BY <1>0, <1>4 DEF TypeOK
<1> QED BY <1>4, <1>7, <1>8, <1>9, CalmKeeps, NoneIsNoFrame DEF serveVars, wireVars

\* A request above the limit: it is dropped with the connection.
LEMMA OverloadPlaces ==
    ASSUME IInv, PInv, NEW e \in Ends, Overload(e)
    PROVE  PInv'
<1>0. TypeOK /\ call \in [Calls -> {"new", "sending", "waiting"} \cup Results]
  BY DEF IInv, TypeOK
<1>1. /\ hand' = [hand EXCEPT ![e] = None] /\ UNCHANGED <<caller, serveVars, queue, writing, aborted>>
      /\ \/ LoopFinally(e, call) /\ UNCHANGED <<up, arriving>>
         \/ /\ up' = [up EXCEPT ![e] = FALSE] /\ arriving' = [arriving EXCEPT ![e] = <<>>]
            /\ UNCHANGED <<call, stopped>>
  BY DEF Overload
<1>2. /\ \A d \in Ends : stopped[d] => stopped'[d]
      /\ \A x \in Calls : \/ call'[x] = call[x]
                          \/ /\ call'[x] = "uncertain" /\ call[x] \in {"sending", "waiting"}
                             /\ stopped'[caller[x]]
  BY <1>0, <1>1, FinallySettles
<1>3. EndsDown /\ \A d \in Ends : Elems(arriving'[d]) \subseteq Elems(arriving[d])
  BY <1>0, <1>1, <1>2, NoFrames DEF EndsDown, TypeOK
<1>4. \A x \in Calls : Settles(x)
  BY <1>1, <1>2 DEF Settles, Pending, serveVars
<1>5. \A d \in Ends : hand'[d] = hand[d] \/ hand'[d] = None
  BY <1>0, <1>1 DEF TypeOK
<1> QED BY <1>1, <1>3, <1>4, <1>5, CalmKeeps, NoneIsNoFrame DEF serveVars

\* The receive loop takes a frame in hand.
LEMMA ReceivePlaces ==
    ASSUME IInv, PInv, NEW e \in Ends, Receive(e)
    PROVE  PInv'
<1>0. TypeOK
  BY DEF IInv
<1>1. /\ Head(arriving[e]) \in Elems(arriving[e])
      /\ Elems(Tail(arriving[e])) \subseteq Elems(arriving[e])
  BY <1>0, TakeFrame DEF Receive, TypeOK
<1>2. /\ arriving' = [arriving EXCEPT ![e] = Tail(arriving[e])]
      /\ hand' = [hand EXCEPT ![e] = Head(arriving[e])]
      /\ UNCHANGED <<callVars, serveVars, queue, writing, up, loop, aborted, stopped>>
  BY DEF Receive
<1>3. \A d \in Ends : \A f \in Frames :
         f \in Elems(arriving'[d]) \/ f = hand'[d] => f \in Elems(arriving[d]) \/ f = hand[d]
  BY <1>0, <1>1, <1>2 DEF TypeOK
<1>4. EndsDown
  BY <1>2 DEF EndsDown
<1>5. \A x \in Calls : Settles(x)
  BY <1>2 DEF Settles, callVars, serveVars
<1> QED BY <1>2, <1>3, <1>4, <1>5, CalmKeeps DEF serveVars

\* A frame is written: if it is an answer, its place is now held by the write.
LEMMA WritePlaces ==
    ASSUME IInv, PInv, NEW e \in Ends, Write(e)
    PROVE  PInv'
<1>0. TypeOK /\ FramesTrue /\ CallersKnown
  BY DEF IInv
<1>1. PICK f \in Frames : /\ f = Head(queue[e]) /\ f \in Elems(queue[e])
                          /\ Elems(Tail(queue[e])) \subseteq Elems(queue[e])
  BY <1>0, TakeFrame DEF Write, TypeOK
<1>2. /\ writing[e] = None /\ writing' = [writing EXCEPT ![e] = f]
      /\ queue' = [queue EXCEPT ![e] = Tail(queue[e])]
      /\ UNCHANGED <<caller, call, serve, work, cancelled, up, loop, hand, aborted, stopped>>
      /\ arriving' \in {arriving, [arriving EXCEPT ![Other(e)] = Append(@, f)]}
  BY <1>1 DEF Write, callVars, serveVars, endVars
<1>3. f.call \in Calls /\ f.kind \in Kinds
  BY <1>1 DEF Frames
<1>4. /\ writing'[e] = f /\ \A d \in Ends \ {e} : writing'[d] = writing[d]
  BY <1>0, <1>2 DEF TypeOK
<1>5. ASSUME NEW x \in Calls, Held(x) PROVE Held(x)'
  <2>1. CASE x \in cancelled
    BY <1>2, <1>5, <2>1 DEF Held
  <2>2. CASE OpenWrite(x)
    <3>1. Server(x) # e
      BY <1>2, <2>2 DEF OpenWrite
    <3>2. Server(x) \in Ends
      BY <1>0, <1>5, OtherEnd DEF Held, CallersKnown, Server
    <3>3. writing'[Server(x)] = writing[Server(x)]
      BY <1>4, <3>1, <3>2
    <3> QED BY <1>2, <1>5, <3>3, HeldSame
  <2> QED BY <1>5, <2>1, <2>2 DEF Held
<1>6. f.kind # "request" => serve[f.call] \in {"answered", "dropped"} \/ Held(f.call)'
  <2>1. SUFFICES ASSUME f.kind # "request", serve[f.call] \notin {"answered", "dropped"}
                 PROVE  Held(f.call)'
    OBVIOUS
  <2>2. e = Server(f.call) /\ serve[f.call] = "sending"
    BY <1>0, <1>1, <1>3, <2>1 DEF PInv, AnswersLeft, TypeOK
  <2>3. e = Other(caller'[f.call])
    BY <1>2, <2>2 DEF Server
  <2>4. OpenWrite(f.call)'
    BY <1>1, <1>4, <2>1, <2>3, NoneIsNoFrame DEF OpenWrite, Server
  <2> QED BY <1>2, <2>2, <2>4 DEF Held
<1>7. \A d \in Ends : \A g \in Frames :
         /\ g \in Elems(queue'[d]) => g \in Elems(queue[d])
         /\ g \in Elems(arriving'[d]) => g \in Elems(arriving[d]) \/ g = f
  <2>1. \A d \in Ends : Elems(queue'[d]) \subseteq Elems(queue[d])
    BY <1>0, <1>1, <1>2 DEF TypeOK
  <2>2. \A d \in Ends : Elems(arriving'[d]) \subseteq Elems(arriving[d]) \cup {f}
    <3> DEFINE o == Other(e)
    <3>1. o \in Ends
      BY OtherEnd
    <3>2. arriving' \in {arriving, [arriving EXCEPT ![o] = Append(arriving[o], f)]}
      BY <1>2
    <3> HIDE DEF o
    <3>3. arriving[o] \in Seq(Frames)
      BY <1>0, <3>1 DEF TypeOK
    <3>4. Elems(Append(arriving[o], f)) = Elems(arriving[o]) \cup {f}
      BY <1>1, <3>3, AppendFrame
    <3> QED BY <1>0, <3>1, <3>2, <3>4 DEF TypeOK
  <2> QED BY <2>1, <2>2
<1>8. ServeKnown'
  <2>1. SUFFICES ASSUME NEW x \in Calls
                 PROVE  /\ work[x] = "none" => serve[x] = "none"
                        /\ Active(x) => \/ call[x] \in {"sending", "waiting", "uncertain", "aborted"}
                                        \/ call[x] \in {"ok", "refused"} /\ Held(x)'
                        /\ x \in cancelled => call[x] # "new" /\ aborted[Server(x)]
    BY <1>2 DEF ServeKnown, Server, Active
  <2> QED BY <1>5 DEF PInv, ServeKnown
<1>9. AnswersLeft'
  <2>1. ASSUME NEW d \in Ends, NEW g \in Frames, g.kind # "request", g \in Elems(queue'[d])
        PROVE  d = Server(g.call) /\ serve[g.call] \notin {"none", "running"}
    BY <1>7, <2>1 DEF PInv, AnswersLeft
  <2>2. ASSUME NEW d \in Ends, NEW g \in Frames, g.kind # "request", g \in Elems(arriving'[d]) \/ g = hand[d]
        PROVE  serve[g.call] \in {"answered", "dropped"} \/ Held(g.call)'
    <3>1. CASE g = f
      BY <1>6, <2>2, <3>1
    <3>2. CASE g \in Elems(arriving[d]) \/ g = hand[d]
      <4>1. g.call \in Calls /\ (serve[g.call] \in {"answered", "dropped"} \/ Held(g.call))
        BY <2>2, <3>2 DEF PInv, AnswersLeft, Frames
      <4> QED BY <1>5, <4>1
    <3> QED BY <1>7, <2>2, <3>1, <3>2
  <2> QED BY <1>2, <2>1, <2>2 DEF AnswersLeft, Server
<1>10. WritingKnown'
  <2>1. SUFFICES ASSUME NEW d \in Ends, NEW g \in Frames, g = writing'[d]
                 PROVE  call[g.call] # "new" /\ (g.kind = "request" => d = caller[g.call])
    BY <1>2 DEF WritingKnown
  <2>2. CASE d = e
    <3>1. g = f
      BY <1>4, <2>1, <2>2
    <3>2. Sound(f) /\ (f.kind = "request" => e = caller[f.call])
      BY <1>0, <1>1 DEF FramesTrue
    <3> QED BY <1>0, <1>3, <2>2, <3>1, <3>2 DEF Sound, Kinds, CallersKnown
  <2>3. CASE d # e
    BY <1>4, <2>1, <2>3 DEF PInv, WritingKnown
  <2> QED BY <2>2, <2>3
<1>11. RequestsKnown'
  <2>1. SUFFICES ASSUME NEW d \in Ends, NEW g \in Frames, g.kind = "request",
                        g \in Elems(queue'[d]) \/ g \in Elems(arriving'[d]) \/ g = hand[d]
                 PROVE  call[g.call] # "unsent"
    BY <1>2 DEF RequestsKnown
  <2>2. PICK d2 \in Ends : g \in Elems(queue[d2]) \/ g \in Elems(arriving[d2]) \/ g = hand[d2]
    BY <1>1, <1>7, <2>1
  <2> QED BY <2>1, <2>2 DEF PInv, RequestsKnown
<1>12. UncertainStops' /\ PlacesBounded'
  <2>1. \A d \in Ends : InFlight(d)' = InFlight(d)
    BY <1>2 DEF InFlight
  <2> QED BY <1>2, <2>1 DEF PInv, UncertainStops, PlacesBounded
<1> QED BY <1>8, <1>9, <1>10, <1>11, <1>12 DEF PInv

\* A call is made: there is a place for it, because the end has given none up.
LEMMA RequestPlaces ==
    ASSUME IInv, PInv, NEW c \in Calls, NEW e \in Ends, Request(c, e)
    PROVE  PInv'
<1> DEFINE f == [kind |-> "request", call |-> c]
<1>0. TypeOK /\ FramesTrue /\ CallersKnown
  BY DEF IInv
<1>1. f \in Frames /\ f.kind = "request" /\ f.call = c
  BY DEF Frames, Kinds
<1>2. /\ call[c] = "new" /\ ~stopped[e] /\ ~aborted[e] /\ Cardinality(Waiting(e)) < MaxOutbound
      /\ caller' = [caller EXCEPT ![c] = e] /\ call' = [call EXCEPT ![c] = "sending"]
      /\ queue' = [queue EXCEPT ![e] = Append(queue[e], f)]
      /\ UNCHANGED <<serve, work, cancelled, writing, arriving, up, loop, hand, aborted, stopped>>
  BY DEF Request, Settle, serveVars, endVars
<1> HIDE DEF f
<1>3. /\ caller'[c] = e /\ call'[c] = "sending"
      /\ \A x \in Calls \ {c} : caller'[x] = caller[x] /\ call'[x] = call[x]
  BY <1>0, <1>2 DEF TypeOK
<1>4. work[c] = "none" /\ serve[c] = "none" /\ c \notin cancelled
  BY <1>0, <1>2 DEF CallersKnown, PInv, ServeKnown
<1>x. ASSUME NEW x \in Calls, Held(x) PROVE x # c /\ Held(x)'
  <2>1. x # c
    BY <1>4, <1>x DEF Held
  <2> QED BY <1>2, <1>3, <1>x, <2>1, HeldSame
<1>5. ServeKnown'
  <2>1. SUFFICES ASSUME NEW x \in Calls
                 PROVE  /\ work[x] = "none" => serve[x] = "none"
                        /\ Active(x) => \/ call'[x] \in {"sending", "waiting", "uncertain", "aborted"}
                                        \/ call'[x] \in {"ok", "refused"} /\ Held(x)'
                        /\ x \in cancelled => call'[x] # "new" /\ aborted[Other(caller'[x])]
    BY <1>2 DEF ServeKnown, Server, Active
  <2>2. CASE x = c
    BY <1>3, <1>4, <2>2 DEF Active
  <2>3. CASE x # c
    BY <1>3, <1>x, <2>3 DEF PInv, ServeKnown, Server
  <2> QED BY <2>2, <2>3
<1>6. \A d \in Ends : Elems(queue'[d]) \subseteq Elems(queue[d]) \cup {f}
  <2>1. queue[e] \in Seq(Frames)
    BY <1>0 DEF TypeOK
  <2>2. Elems(Append(queue[e], f)) = Elems(queue[e]) \cup {f}
    BY <1>1, <2>1, AppendFrame
  <2> QED BY <1>0, <1>2, <2>2 DEF TypeOK
<1>7. ASSUME NEW d \in Ends, NEW g \in Frames,
             g \in Elems(queue[d]) \/ g \in Elems(arriving[d]) \/ g = hand[d]
      PROVE  g.call # c /\ g.call \in Calls
  <2>1. Sound(g) /\ g.call \in Calls /\ g.kind \in Kinds
    BY <1>0, <1>7 DEF FramesTrue, Frames
  <2> QED BY <1>2, <1>4, <2>1 DEF Sound, Kinds
<1>8. AnswersLeft'
  <2>1. SUFFICES ASSUME NEW d \in Ends, NEW g \in Frames, g.kind # "request"
                 PROVE  /\ g \in Elems(queue'[d]) => /\ d = Other(caller'[g.call])
                                                     /\ serve[g.call] \notin {"none", "running"}
                        /\ g \in Elems(arriving[d]) \/ g = hand[d]
                             => serve[g.call] \in {"answered", "dropped"} \/ Held(g.call)'
    BY <1>2 DEF AnswersLeft, Server
  <2>2. g \in Elems(queue'[d]) => g \in Elems(queue[d])
    BY <1>1, <1>6, <2>1
  <2>3. g \in Elems(queue[d]) => d = Server(g.call) /\ serve[g.call] \notin {"none", "running"}
    BY <2>1 DEF PInv, AnswersLeft
  <2>4. g \in Elems(queue[d]) => caller'[g.call] = caller[g.call]
    BY <1>3, <1>7
  <2>5. g \in Elems(arriving[d]) \/ g = hand[d]
           => serve[g.call] \in {"answered", "dropped"} \/ Held(g.call)
    BY <2>1 DEF PInv, AnswersLeft
  <2>6. g.call \in Calls
    BY DEF Frames
  <2> QED BY <1>x, <2>2, <2>3, <2>4, <2>5, <2>6 DEF Server
<1>w. WritingKnown'
  <2>1. SUFFICES ASSUME NEW d \in Ends, NEW g \in Frames, g = writing[d]
                 PROVE  call'[g.call] # "new" /\ (g.kind = "request" => d = caller'[g.call])
    BY <1>2 DEF WritingKnown
  <2>2. g.call \in Calls /\ call[g.call] # "new" /\ (g.kind = "request" => d = caller[g.call])
    BY <2>1 DEF PInv, WritingKnown, Frames
  <2> QED BY <1>2, <1>3, <2>2
<1>9. RequestsKnown'
  <2>1. SUFFICES ASSUME NEW d \in Ends, NEW g \in Frames, g.kind = "request",
                        g \in Elems(queue'[d]) \/ g \in Elems(arriving[d]) \/ g = hand[d]
                 PROVE  call'[g.call] # "unsent"
    BY <1>2 DEF RequestsKnown
  <2>2. CASE g = f
    BY <1>1, <1>3, <2>2
  <2>3. CASE g # f
    <3>1. g \in Elems(queue[d]) \/ g \in Elems(arriving[d]) \/ g = hand[d]
      BY <1>6, <2>1, <2>3
    <3>2. call[g.call] # "unsent"
      BY <2>1, <3>1 DEF PInv, RequestsKnown
    <3> QED BY <1>3, <1>7, <3>1, <3>2
  <2> QED BY <2>2, <2>3
<1>10. UncertainStops'
  BY <1>2, <1>3 DEF PInv, UncertainStops
<1>11. ASSUME NEW d \in Ends PROVE IsFiniteSet(InFlight(d)') /\ Cardinality(InFlight(d)') <= MaxOutbound
  <2>1. IsFiniteSet(InFlight(d)) /\ Cardinality(InFlight(d)) <= MaxOutbound
    BY DEF PInv, PlacesBounded
  <2>2. CASE d # e
    <3>1. InFlight(d)' = InFlight(d)
      BY <1>2, <1>3, <2>2 DEF InFlight
    <3> QED BY <2>1, <3>1
  <2>3. CASE d = e
    <3> DEFINE S == InFlight(e)  T == InFlight(d)'
    <3>1. S = Waiting(e)
      BY <1>2 DEF InFlight, Waiting, Pending, PInv, UncertainStops
    <3>2. T = S \cup {c} /\ c \notin S
      BY <1>2, <1>3, <2>3 DEF InFlight
    <3>3. IsFiniteSet(S) /\ Cardinality(S) < MaxOutbound
      BY <1>2, <2>1, <2>3, <3>1
    <3> HIDE DEF S, T
    <3>4. IsFiniteSet(T) /\ Cardinality(T) = Cardinality(S) + 1 /\ Cardinality(S) \in Nat
      BY <3>2, <3>3, FS_AddElement, FS_CardinalityType
    <3>5. Cardinality(T) <= MaxOutbound
      BY <3>3, <3>4, ChannelAssumption
    <3> QED BY <3>4, <3>5 DEF T
  <2> QED BY <2>2, <2>3
<1> QED BY <1>5, <1>8, <1>w, <1>9, <1>10, <1>11 DEF PInv, PlacesBounded

\* A service is started, for a call that waits, was given up, or was cancelled.
LEMMA AcceptRequestPlaces ==
    ASSUME IInv, PInv, NEW e \in Ends, AcceptRequest(e)
    PROVE  PInv'
<1> DEFINE f == hand[e]  c == f.call
<1>0. TypeOK /\ FramesTrue /\ CallersKnown /\ call \in [Calls -> {"new", "sending", "waiting"} \cup Results]
  BY DEF IInv, TypeOK
<1>1. f \in Frames /\ f.kind = "request" /\ c \in Calls /\ f = hand[e]
  BY <1>0 DEF AcceptRequest, TypeOK, Frames
<1>2. work[c] = "none" /\ serve[c] = "none" /\ call[c] \in {"sending", "waiting", "uncertain", "aborted"}
  <2>1. work[c] = "none" /\ call[c] # "new"
    BY <1>0, <1>1 DEF FramesTrue, Sound
  <2>2. call[c] # "unsent" /\ serve[c] = "none"
    BY <1>1, <2>1 DEF PInv, RequestsKnown, ServeKnown
  <2>3. call[c] # "ok" /\ call[c] # "refused"
    BY <1>1, <2>1 DEF IInv, AnswersAreFinal
  <2> QED BY <1>0, <1>1, <2>1, <2>2, <2>3 DEF Results
<1>3. /\ work' = [work EXCEPT ![c] = "running"] /\ serve' = [serve EXCEPT ![c] = "running"]
      /\ hand' = [hand EXCEPT ![e] = None] /\ NextTurn(e, call)
      /\ UNCHANGED <<caller, cancelled, queue, writing, arriving, up, aborted>>
  BY DEF AcceptRequest, wireVars
<1> HIDE DEF f, c
<1>4. /\ \A d \in Ends : stopped[d] => stopped'[d]
      /\ \A x \in Calls : \/ call'[x] = call[x]
                          \/ /\ call'[x] = "uncertain" /\ call[x] \in {"sending", "waiting"}
                             /\ stopped'[caller[x]]
  BY <1>0, <1>3, TurnSettles
<1>5. /\ \A x \in Calls \ {c} : work'[x] = work[x] /\ serve'[x] = serve[x]
      /\ work'[c] = "running" /\ serve'[c] = "running"
  BY <1>0, <1>1, <1>3 DEF TypeOK
<1>x. ASSUME NEW x \in Calls, Held(x) PROVE x # c /\ Held(x)'
  <2>1. x # c
    BY <1>2, <1>x DEF Held
  <2> QED BY <1>3, <1>5, <1>x, <2>1, HeldSame
<1>6. ServeKnown'
  <2>1. SUFFICES ASSUME NEW x \in Calls
                 PROVE  /\ work'[x] = "none" => serve'[x] = "none"
                        /\ Active(x)' => \/ call'[x] \in {"sending", "waiting", "uncertain", "aborted"}
                                         \/ call'[x] \in {"ok", "refused"} /\ Held(x)'
                        /\ x \in cancelled => call'[x] # "new" /\ aborted[Server(x)]
    BY <1>3 DEF ServeKnown, Server
  <2>2. CASE x = c
    BY <1>2, <1>4, <1>5, <2>2 DEF PInv, ServeKnown
  <2>3. CASE x # c
    BY <1>4, <1>5, <1>x, <2>3 DEF PInv, ServeKnown, Active
  <2> QED BY <2>2, <2>3
<1>7. \A d \in Ends : \A g \in Frames : g = hand'[d] => g = hand[d]
  BY <1>0, <1>3, NoneIsNoFrame DEF TypeOK
<1>8. ASSUME NEW g \in Frames, g.kind # "request", serve[g.call] # "none" PROVE serve'[g.call] = serve[g.call]
  <2>1. g.call \in Calls /\ g.call # c
    BY <1>2, <1>8 DEF Frames
  <2> QED BY <1>5, <2>1
<1>9. AnswersLeft'
  <2>1. SUFFICES ASSUME NEW d \in Ends, NEW g \in Frames, g.kind # "request"
                 PROVE  /\ g \in Elems(queue[d]) => /\ d = Server(g.call)
                                                    /\ serve'[g.call] \notin {"none", "running"}
                        /\ g \in Elems(arriving[d]) \/ g = hand[d]
                             => serve'[g.call] \in {"answered", "dropped"} \/ Held(g.call)'
    BY <1>3, <1>7 DEF AnswersLeft, Server
  <2>2. g.call \in Calls
    BY DEF Frames
  <2>3. g \in Elems(queue[d]) => d = Server(g.call) /\ serve[g.call] \notin {"none", "running"}
    BY <2>1 DEF PInv, AnswersLeft
  <2>4. g \in Elems(arriving[d]) \/ g = hand[d]
           => serve[g.call] \in {"answered", "dropped"} \/ Held(g.call)
    BY <2>1 DEF PInv, AnswersLeft
  <2> QED BY <1>8, <1>x, <2>1, <2>2, <2>3, <2>4
<1>w. WritingKnown'
  <2>1. SUFFICES ASSUME NEW d \in Ends, NEW g \in Frames, g = writing[d]
                 PROVE  call'[g.call] # "new" /\ (g.kind = "request" => d = caller[g.call])
    BY <1>3 DEF WritingKnown
  <2>2. g.call \in Calls /\ call[g.call] # "new" /\ (g.kind = "request" => d = caller[g.call])
    BY <2>1 DEF PInv, WritingKnown, Frames
  <2> QED BY <1>4, <2>2
<1>10. RequestsKnown'
  <2>1. SUFFICES ASSUME NEW d \in Ends, NEW g \in Frames, g.kind = "request",
                        g \in Elems(queue[d]) \/ g \in Elems(arriving[d]) \/ g = hand[d]
                 PROVE  call'[g.call] # "unsent"
    BY <1>3, <1>7 DEF RequestsKnown
  <2>2. call[g.call] # "unsent" /\ g.call \in Calls
    BY <2>1 DEF PInv, RequestsKnown, Frames
  <2> QED BY <1>4, <2>2
<1>11. UncertainStops' /\ PlacesBounded'
  <2>1. UncertainStops'
    BY <1>0, <1>3, <1>4 DEF PInv, UncertainStops, CallersKnown
  <2>2. ASSUME NEW d \in Ends PROVE InFlight(d)' = InFlight(d)
    BY <1>3, <1>4 DEF InFlight
  <2> QED BY <2>1, <2>2 DEF PInv, PlacesBounded
<1> QED BY <1>6, <1>9, <1>w, <1>10, <1>11 DEF PInv

\* A service ends; its answer is put in the queue of the server.
LEMMA DispatchPlaces ==
    ASSUME IInv, PInv, NEW c \in Calls, NEW outcome \in Outcomes, DispatchSettles(c, outcome)
    PROVE  PInv'
<1> DEFINE f == [kind |-> IF outcome = "ok" THEN "ok" ELSE "refused", call |-> c]
<1>0. TypeOK /\ FramesTrue /\ CallersKnown
  BY DEF IInv
<1>1. f \in Frames /\ f.kind # "request" /\ f.call = c
  BY DEF Frames, Kinds
<1>2. /\ work[c] = "running" /\ work' = [work EXCEPT ![c] = outcome]
      /\ UNCHANGED <<caller, call, cancelled, writing, arriving, up, loop, hand, aborted, stopped>>
      /\ \/ /\ serve[c] = "running" /\ serve' = [serve EXCEPT ![c] = "sending"]
            /\ queue' = [queue EXCEPT ![Server(c)] = Append(queue[Server(c)], f)]
         \/ UNCHANGED <<serve, queue>>
  BY DEF DispatchSettles, callVars, endVars
<1> HIDE DEF f
<1>3. Server(c) \in Ends
  BY <1>0, <1>2, OtherEnd DEF CallersKnown, Server
<1>4. /\ \A x \in Calls \ {c} : work'[x] = work[x] /\ serve'[x] = serve[x]
      /\ work'[c] # "none" /\ serve'[c] \in {serve[c], "sending"}
      /\ serve'[c] # serve[c] => serve[c] = "running"
  BY <1>0, <1>2 DEF TypeOK, Outcomes
<1>x. ASSUME NEW x \in Calls, Held(x) PROVE serve[x] = "sending" /\ Held(x)'
  <2>1. serve[x] = "sending"
    BY <1>x DEF Held
  <2>2. serve'[x] = serve[x]
    BY <1>4, <2>1
  <2> QED BY <1>2, <1>x, <2>1, <2>2, HeldSame
<1>5. ServeKnown'
  <2>1. SUFFICES ASSUME NEW x \in Calls
                 PROVE  /\ work'[x] = "none" => serve'[x] = "none"
                        /\ Active(x)' => \/ call[x] \in {"sending", "waiting", "uncertain", "aborted"}
                                         \/ call[x] \in {"ok", "refused"} /\ Held(x)'
                        /\ x \in cancelled => call[x] # "new" /\ aborted[Server(x)]
    BY <1>2 DEF ServeKnown, Server
  <2>2. Active(x)' => Active(x)
    BY <1>4 DEF Active
  <2> QED BY <1>4, <1>x, <2>2 DEF PInv, ServeKnown
<1>6. \A d \in Ends : \A g \in Frames :
         g \in Elems(queue'[d]) => \/ g \in Elems(queue[d])
                                   \/ g = f /\ d = Server(c) /\ serve'[c] = "sending"
  <2> DEFINE s == Server(c)
  <2>1. s \in Ends
    BY <1>3
  <2>2. CASE serve' = [serve EXCEPT ![c] = "sending"] /\ queue' = [queue EXCEPT ![s] = Append(queue[s], f)]
    <3> HIDE DEF s
    <3>1. queue[s] \in Seq(Frames)
      BY <1>0, <2>1 DEF TypeOK
    <3>2. Elems(Append(queue[s], f)) = Elems(queue[s]) \cup {f}
      BY <1>1, <3>1, AppendFrame
    <3>3. \A d \in Ends : Elems(queue'[d]) = IF d = s THEN Elems(queue[s]) \cup {f} ELSE Elems(queue[d])
      BY <1>0, <2>1, <2>2, <3>2 DEF TypeOK
    <3>4. serve'[c] = "sending"
      BY <1>0, <2>2 DEF TypeOK
    <3> QED BY <3>3, <3>4 DEF s
  <2>3. CASE queue' = queue
    BY <2>3
  <2> QED BY <1>2, <2>2, <2>3
<1>7. AnswersLeft'
  <2>1. ASSUME NEW d \in Ends, NEW g \in Frames, g.kind # "request", g \in Elems(queue'[d])
        PROVE  d = Server(g.call) /\ serve'[g.call] \notin {"none", "running"}
    <3>1. CASE g = f /\ d = Server(c) /\ serve'[c] = "sending"
      BY <1>1, <3>1
    <3>2. CASE g \in Elems(queue[d])
      <4>1. g.call \in Calls /\ d = Server(g.call) /\ serve[g.call] \notin {"none", "running"}
        BY <2>1, <3>2 DEF PInv, AnswersLeft, Frames
      <4> QED BY <1>4, <4>1
    <3> QED BY <1>6, <2>1, <3>1, <3>2
  <2>2. ASSUME NEW d \in Ends, NEW g \in Frames, g.kind # "request", g \in Elems(arriving[d]) \/ g = hand[d]
        PROVE  serve'[g.call] \in {"answered", "dropped"} \/ Held(g.call)'
    <3>1. g.call \in Calls /\ (serve[g.call] \in {"answered", "dropped"} \/ Held(g.call))
      BY <2>2 DEF PInv, AnswersLeft, Frames
    <3> QED BY <1>4, <1>x, <3>1
  <2> QED BY <1>2, <2>1, <2>2 DEF AnswersLeft, Server
<1>8. RequestsKnown'
  BY <1>1, <1>2, <1>6 DEF PInv, RequestsKnown
<1>9. UncertainStops' /\ PlacesBounded'
  <2>1. \A d \in Ends : InFlight(d)' = InFlight(d)
    BY <1>2 DEF InFlight
  <2> QED BY <1>2, <2>1 DEF PInv, UncertainStops, PlacesBounded
<1>10. WritingKnown'
  BY <1>2 DEF PInv, WritingKnown
<1> QED BY <1>5, <1>7, <1>8, <1>9, <1>10 DEF PInv

-----------------------------------------------------------------------------
\* No place is taken when both ends start.
LEMMA InitPlaces == Init => PInv
<1> SUFFICES ASSUME Init PROVE PInv
  OBVIOUS
<1>1. \A e \in Ends : Elems(queue[e]) = {} /\ Elems(arriving[e]) = {} /\ hand[e] \notin Frames
  BY NoFrames, NoneIsNoFrame DEF Init
<1>2. ServeKnown /\ AnswersLeft /\ RequestsKnown /\ UncertainStops
  BY <1>1 DEF Init, ServeKnown, AnswersLeft, RequestsKnown, UncertainStops, Active
<1>w. WritingKnown
  BY NoneIsNoFrame DEF Init, WritingKnown
<1>3. \A e \in Ends : InFlight(e) = {}
  BY DEF Init, InFlight
<1>4. IsFiniteSet({}) /\ Cardinality({}) = 0 /\ 0 <= MaxOutbound
  BY FS_EmptySet, ChannelAssumption
<1>5. PlacesBounded
  BY <1>3, <1>4 DEF PlacesBounded
<1> QED BY <1>2, <1>w, <1>5 DEF PInv

\* Every step keeps the places bounded.
LEMMA NextPlaces == IInv /\ PInv /\ [Next]_vars => PInv'
<1> SUFFICES ASSUME IInv, PInv, [Next]_vars PROVE PInv'
  OBVIOUS
<1>1. ASSUME NEW c \in Calls, CallStep(c) PROVE PInv'
  BY <1>1, RequestPlaces, RefusePlaces, OnAbortPlaces, OnTimeoutPlaces, HandlerTimeoutPlaces,
     ServeAbortedPlaces, DispatchPlaces DEF CallStep
<1>2. ASSUME NEW e \in Ends, EndStep(e) PROVE PInv'
  BY <1>2, WritePlaces, WriteSettlesPlaces, WriteFailsPlaces, SendFailsPlaces, LinkPlaces, ReceivePlaces, LoopEndsPlaces,
     AcceptResponsePlaces, AcceptRequestPlaces, OverloadPlaces, ClosePlaces DEF EndStep
<1>3. CASE UNCHANGED vars
  <2>1. \A d \in Ends : InFlight(d)' = InFlight(d)
    BY <1>3 DEF InFlight, vars, callVars
  <2>2. PlacesBounded'
    BY <2>1 DEF PInv, PlacesBounded
  <2> QED BY <1>3, <2>2 DEF PInv, ServeKnown, AnswersLeft, WritingKnown, RequestsKnown,
          UncertainStops, Active, Held, OpenWrite, Server, vars, callVars, serveVars, wireVars, endVars
<1> QED BY <1>1, <1>2, <1>3 DEF Next

\* For any number of calls and any limits with MaxOutbound <= MaxInbound, a live
\* end meets a request above its limit only when the other end cancelled a call,
\* or, with equal limits, while the write of an answer that the other end has
\* already got has not settled.  The deadline of a call does not free its place
\* at the caller, because the channel stops with it and takes no further call.
THEOREM OverloadOnlyAfterCancelOrOpenWriteAlways == Spec => []OverloadOnlyAfterCancelOrOpenWrite
<1>1. ASSUME IInv, PInv PROVE OverloadOnlyAfterCancelOrOpenWrite
  <2>1. SUFFICES ASSUME NEW e \in Ends, hand[e] # None, hand[e].kind = "request", ~aborted[e],
                        Cardinality(Serving(e)) >= MaxInbound,
                        \A c \in Calls : ~ (Server(c) = e /\ call[c] = "aborted")
                 PROVE  /\ MaxInbound = MaxOutbound
                        /\ \E c \in Serving(e) :
                              call[c] \in {"ok", "refused"} /\ writing[e] # None /\ writing[e].call = c
    BY DEF OverloadOnlyAfterCancelOrOpenWrite
  <2> DEFINE o == Other(e)  f == hand[e]  c0 == f.call  S == Serving(e)  T == InFlight(o)
             w == writing[e].call
  <2>2. o \in Ends /\ \A d \in Ends : Other(d) = e => d = o
    <3>1. PICK a \in Ends, b \in Ends : a # b /\ Ends = {a, b}
      BY ChannelAssumption
    <3>2. \A d \in Ends : Other(d) \in Ends /\ Other(d) # d
      BY OtherEnd
    <3> QED BY <3>1, <3>2
  <2>3. f \in Frames /\ c0 \in Calls /\ f.kind = "request"
    BY <1>1, <2>1 DEF IInv, TypeOK, Frames
  <2>4. work[c0] = "none" /\ call[c0] # "new" /\ Server(c0) = e /\ call[c0] # "unsent" /\ serve[c0] = "none"
    <3>1. Sound(f) /\ Server(c0) = e
      BY <1>1, <2>3 DEF IInv, FramesTrue
    <3>2. call[c0] # "unsent"
      BY <1>1, <2>3 DEF PInv, RequestsKnown
    <3>3. work[c0] = "none" /\ call[c0] # "new"
      BY <2>3, <3>1 DEF Sound
    <3> QED BY <1>1, <2>3, <3>1, <3>2, <3>3 DEF PInv, ServeKnown
  <2>5. call[c0] \in {"sending", "waiting", "uncertain"}
    <3>1. call[c0] # "ok" /\ call[c0] # "refused" /\ call[c0] # "aborted"
      BY <1>1, <2>1, <2>3, <2>4 DEF IInv, AnswersAreFinal
    <3> QED BY <1>1, <2>3, <2>4, <3>1 DEF IInv, TypeOK, Results
  <2>6. ASSUME NEW c \in Calls, Server(c) = e, call[c] # "new" PROVE caller[c] = o
    <3>1. caller[c] \in Ends
      BY <1>1, <2>6 DEF IInv, CallersKnown
    <3> QED BY <2>2, <2>6, <3>1 DEF Server
  <2>7. c0 \in T /\ c0 \notin S
    BY <2>3, <2>4, <2>5, <2>6 DEF InFlight, Serving, Active
  <2>8. ASSUME NEW c \in S
        PROVE  c \in T \/ (c = w /\ writing[e] # None /\ call[c] \in {"ok", "refused"})
    <3>1. c \in Calls /\ Server(c) = e /\ Active(c)
      BY DEF Serving
    <3>2. \/ call[c] \in {"sending", "waiting", "uncertain"}
          \/ call[c] \in {"ok", "refused"} /\ Held(c)
      BY <1>1, <2>1, <3>1 DEF PInv, ServeKnown
    <3>3. CASE call[c] \in {"sending", "waiting", "uncertain"}
      BY <2>6, <3>1, <3>3 DEF InFlight
    <3>4. CASE call[c] \in {"ok", "refused"} /\ Held(c)
      <4>1. c \notin cancelled
        BY <1>1, <2>1, <3>1 DEF PInv, ServeKnown
      <4> QED BY <3>1, <3>4, <4>1 DEF Held, OpenWrite
    <3> QED BY <3>2, <3>3, <3>4
  <2>9. IsFiniteSet(T) /\ Cardinality(T) <= MaxOutbound /\ Cardinality(T) \in Nat
    BY <1>1, <2>2, FS_CardinalityType DEF PInv, PlacesBounded
  <2>10. Cardinality(S) >= MaxInbound
    BY <2>1
  <2> HIDE DEF S, T, c0, f, o, w
  <2>11. S \ {w} \subseteq T \ {c0} /\ IsFiniteSet(T \ {c0}) /\ Cardinality(T \ {c0}) = Cardinality(T) - 1
    <3>1. S \ {w} \subseteq T \ {c0}
      BY <2>7, <2>8
    <3> QED BY <2>7, <2>9, <3>1, FS_RemoveElement
  <2>12. /\ IsFiniteSet(S \ {w}) /\ Cardinality(S \ {w}) <= Cardinality(T \ {c0})
         /\ Cardinality(S \ {w}) \in Nat
    BY <2>11, FS_Subset, FS_CardinalityType
  <2>13. CASE w \in S /\ w \notin T
    <3>1. S = (S \ {w}) \cup {w} /\ w \notin S \ {w}
      BY <2>13
    <3>2. Cardinality(S) = Cardinality(S \ {w}) + 1
      BY <2>12, <3>1, FS_AddElement
    <3>3. MaxInbound = MaxOutbound
      BY <2>9, <2>10, <2>11, <2>12, <3>2, ChannelAssumption
    <3>4. w = w /\ writing[e] # None /\ call[w] \in {"ok", "refused"}
      BY <2>8, <2>13
    <3> QED BY <2>13, <3>3, <3>4 DEF S, w
  <2>14. CASE w \notin S \/ w \in T
    <3>1. S \subseteq T \ {c0}
      BY <2>7, <2>8, <2>14
    <3>2. IsFiniteSet(S) /\ Cardinality(S) <= Cardinality(T \ {c0}) /\ Cardinality(S) \in Nat
      BY <2>11, <3>1, FS_Subset, FS_CardinalityType
    <3> QED BY <2>9, <2>10, <2>11, <3>2, ChannelAssumption
  <2> QED BY <2>13, <2>14
<1> QED BY <1>1, InvariantHolds, InitPlaces, NextPlaces, PTL DEF Spec
=============================================================================
