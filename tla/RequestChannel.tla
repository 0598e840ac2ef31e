---------------------------- MODULE RequestChannel -----------------------------
(***************************************************************************)
(* packages/mesh/src/request-channel.ts: the two ends of one authenticated *)
(* connection.  Either end calls services of the other and runs services   *)
(* for it, over one receive loop, with a bound on the calls it has out and *)
(* on the calls it serves, a deadline for each, cancellation by the caller *)
(* and one way out of every transport failure: the channel stops.          *)
(*                                                                         *)
(* The connection (session.ts over socket-transport.ts) sends one frame at *)
(* a time, in order: the next is written when the callback of the last     *)
(* write has run, and the far end may have handled that one, and answered, *)
(* before.  Frames that reached the receiving end's buffer can still be    *)
(* received after the link failed, all others are lost.  Every step is the *)
(* code between two awaits.  Payloads and service names are left out, and  *)
(* so are malformed frames, which this code never sends.                   *)
(***************************************************************************)
EXTENDS Naturals, Sequences, FiniteSets

CONSTANTS
    Ends,           \* the two ends of the connection
    Calls,          \* calls of request(), one random request id each
    Callers,        \* the ends that may make each call
    MaxOutbound,    \* maxOutboundRequests
    MaxInbound,     \* maxInboundRequests
    None            \* no caller yet; no frame in hand or being written

\* Both ends run with the same limits: no caller in the repository sets them.
ASSUME ChannelAssumption ==
    /\ \E a, b \in Ends : a # b /\ Ends = {a, b}
    /\ None \notin Ends \cup [kind : {"request", "ok", "refused"}, call : Calls]
    /\ Callers \in [Calls -> SUBSET Ends]
    /\ MaxOutbound \in Nat \ {0}
    /\ MaxInbound \in Nat \ {0}
    /\ MaxOutbound <= MaxInbound

VARIABLES
    caller,     \* the end that made each call
    call,       \* what the caller knows of each call
    serve,      \* #acceptRequest at the other end
    work,       \* the dispatch it started, which it may abandon
    cancelled,  \* calls whose serving controller is aborted
    queue,      \* #sendQueue of each end: frames not yet written
    writing,    \* the frame it has written and whose callback has not run
    arriving,   \* frames on their way to each end, or in its buffer
    up,         \* the transport of each end has not ended
    loop,       \* the receive loop of each end
    hand,       \* the frame it received and has not handled
    aborted,    \* #abort
    stopped     \* #stopped

callVars  == <<caller, call>>
serveVars == <<serve, work, cancelled>>
wireVars  == <<queue, writing, arriving, up>>
endVars   == <<loop, hand, aborted, stopped>>
vars == <<callVars, serveVars, wireVars, endVars>>

Other(e)  == CHOOSE f \in Ends : f # e
Server(c) == Other(caller[c])

Kinds   == {"request", "ok", "refused"}
Frames  == [kind : Kinds, call : Calls]
Results == {"ok", "refused", "unsent", "aborted", "uncertain"}

\* #pending: a call is "waiting" from when its send has settled (sendSettled).
Pending(c) == call[c] \in {"sending", "waiting"}
Waiting(e) == {c \in Calls : caller[c] = e /\ Pending(c)}
Active(c)  == serve[c] \in {"running", "sending"}
\* #acceptRequest waits for its answer to leave.
Answering(c) == serve[c] = "sending" /\ c \notin cancelled
Serving(e) == {c \in Calls : Server(c) = e /\ Active(c)}

Init ==
    /\ caller = [c \in Calls |-> None]
    /\ call = [c \in Calls |-> "new"]
    /\ serve = [c \in Calls |-> "none"]
    /\ work = [c \in Calls |-> "none"]
    /\ cancelled = {}
    /\ queue = [e \in Ends |-> <<>>]
    /\ writing = [e \in Ends |-> None]
    /\ arriving = [e \in Ends |-> <<>>]
    /\ up = [e \in Ends |-> TRUE]
    /\ loop = [e \in Ends |-> "receive"]
    /\ hand = [e \in Ends |-> None]
    /\ aborted = [e \in Ends |-> FALSE]
    /\ stopped = [e \in Ends |-> FALSE]

-----------------------------------------------------------------------------
\* The abort signal fires once: it cancels every call being served, and no
\* frame is received after it.  The connection is closed with it.
Abort(e) ==
    /\ aborted' = [aborted EXCEPT ![e] = TRUE]
    /\ cancelled' = IF aborted[e] THEN cancelled ELSE cancelled \cup Serving(e)
    /\ up' = [up EXCEPT ![e] = FALSE]
    /\ arriving' = [arriving EXCEPT ![e] = <<>>]

StopAfterTransportFailure(e) ==
    IF stopped[e] \/ aborted[e]
      THEN UNCHANGED <<aborted, cancelled, up, arriving>>
      ELSE Abort(e)

Settle(c, result) == call' = [call EXCEPT ![c] = result]

\* request() throws before it touches the connection.
Refuse(c, e) ==
    /\ call[c] = "new" /\ e \in Callers[c]
    /\ \/ stopped[e] \/ aborted[e]
       \/ Cardinality(Waiting(e)) >= MaxOutbound
    /\ caller' = [caller EXCEPT ![c] = e]
    /\ Settle(c, "unsent")
    /\ UNCHANGED <<serveVars, wireVars, endVars>>

\* Mutant of Request: a channel that ended without an abort still takes calls.
RequestUnlessAborted(c, e) ==
    /\ call[c] = "new" /\ e \in Callers[c]
    /\ ~aborted[e]
    /\ Cardinality(Waiting(e)) < MaxOutbound
    /\ caller' = [caller EXCEPT ![c] = e]
    /\ Settle(c, "sending")
    /\ queue' = [queue EXCEPT ![e] = Append(@, [kind |-> "request", call |-> c])]
    /\ UNCHANGED <<serveVars, writing, arriving, up, endVars>>

\* The rest of request(): deadline and abort listener are set, the call is
\* pending, its frame is handed to the connection.
Request(c, e) ==
    /\ call[c] = "new" /\ e \in Callers[c]
    /\ ~stopped[e] /\ ~aborted[e]
    /\ Cardinality(Waiting(e)) < MaxOutbound
    /\ caller' = [caller EXCEPT ![c] = e]
    /\ Settle(c, "sending")
    /\ queue' = [queue EXCEPT ![e] = Append(@, [kind |-> "request", call |-> c])]
    /\ UNCHANGED <<serveVars, writing, arriving, up, endVars>>

\* The caller's signal: it costs the channel only if the frame may still be
\* half written.
OnAbort(c) ==
    /\ Pending(c)
    /\ Settle(c, "aborted")
    /\ IF call[c] = "waiting"
         THEN UNCHANGED <<aborted, cancelled, up, arriving>>
         ELSE StopAfterTransportFailure(caller[c])
    /\ UNCHANGED <<caller, serve, work, queue, writing, loop, hand, stopped>>

\* Mutant of OnTimeout: only the call is given up, not the channel.
TimeoutKeepsChannel(c) ==
    /\ Pending(c)
    /\ Settle(c, "uncertain")
    /\ UNCHANGED <<caller, serveVars, wireVars, endVars>>

\* Mutant of OnTimeout: the timer is cleared once the request has left.
TimeoutOfSendOnly(c) ==
    /\ call[c] = "sending"
    /\ Settle(c, "uncertain")
    /\ StopAfterTransportFailure(caller[c])
    /\ UNCHANGED <<caller, serve, work, queue, writing, loop, hand, stopped>>

\* requestTimeoutMs has passed.
OnTimeout(c) ==
    /\ Pending(c)
    /\ Settle(c, "uncertain")
    /\ StopAfterTransportFailure(caller[c])
    /\ UNCHANGED <<caller, serve, work, queue, writing, loop, hand, stopped>>

-----------------------------------------------------------------------------
\* The frame at the head of the queue is written; a far end that is gone
\* never sees it.
Write(e) ==
    /\ up[e] /\ writing[e] = None /\ queue[e] # <<>>
    /\ writing' = [writing EXCEPT ![e] = Head(queue[e])]
    /\ queue' = [queue EXCEPT ![e] = Tail(@)]
    /\ arriving' = IF up[Other(e)]
                     THEN [arriving EXCEPT ![Other(e)] = Append(@, Head(queue[e]))]
                     ELSE arriving
    /\ UNCHANGED <<callVars, serveVars, up, endVars>>

\* The callback of the write, which may also run after the transport ended: the
\* call now only waits for its answer; the answer's place is given back.
WriteSettles(e) ==
    /\ writing[e] # None
    /\ LET frame == writing[e]
           c == frame.call
       IN  /\ call' = IF frame.kind = "request" /\ Pending(c)
                        THEN [call EXCEPT ![c] = "waiting"]
                        ELSE call
           /\ serve' = IF frame.kind # "request" /\ Answering(c)
                         THEN [serve EXCEPT ![c] = "answered"]
                         ELSE serve
    /\ writing' = [writing EXCEPT ![e] = None]
    /\ UNCHANGED <<caller, work, cancelled, queue, arriving, up, endVars>>

\* The sending of a frame rejects.
SendRejects(e, frame) ==
    /\ LET c == frame.call
       IN  /\ call' = IF frame.kind = "request" /\ Pending(c)
                        THEN [call EXCEPT ![c] = "uncertain"]
                        ELSE call
           /\ serve' = IF frame.kind # "request" /\ Answering(c)
                         THEN [serve EXCEPT ![c] = "dropped"]
                         ELSE serve
    /\ StopAfterTransportFailure(e)
    /\ UNCHANGED <<caller, work, loop, hand, stopped>>

\* The callback of the write reports an error.
WriteFails(e) ==
    /\ ~up[e] /\ writing[e] # None
    /\ SendRejects(e, writing[e])
    /\ writing' = [writing EXCEPT ![e] = None]
    /\ UNCHANGED queue

\* The transport has ended before the frame was written.
SendFails(e) ==
    /\ ~up[e] /\ writing[e] = None /\ queue[e] # <<>>
    /\ SendRejects(e, Head(queue[e]))
    /\ queue' = [queue EXCEPT ![e] = Tail(@)]
    /\ UNCHANGED writing

\* The network or the far end takes the link away; what is already in the
\* buffer of this end stays there.
LinkFails(e) ==
    /\ up[e]
    /\ up' = [up EXCEPT ![e] = FALSE]
    /\ \E kept \in 0 .. Len(arriving[e]) :
          arriving' = [arriving EXCEPT ![e] = SubSeq(@, 1, kept)]
    /\ UNCHANGED <<callVars, serveVars, queue, writing, endVars>>

-----------------------------------------------------------------------------
\* The finally of the receive loop: every call still pending is rejected.
LoopFinally(e, calls) ==
    /\ loop' = [loop EXCEPT ![e] = "done"]
    /\ stopped' = [stopped EXCEPT ![e] = TRUE]
    /\ call' = [c \in Calls |-> IF caller[c] = e /\ calls[c] \in {"sending", "waiting"}
                                  THEN "uncertain" ELSE calls[c]]

Receive(e) ==
    /\ loop[e] = "receive" /\ hand[e] = None
    /\ ~aborted[e]
    /\ arriving[e] # <<>>
    /\ hand' = [hand EXCEPT ![e] = Head(arriving[e])]
    /\ arriving' = [arriving EXCEPT ![e] = Tail(@)]
    /\ UNCHANGED <<callVars, serveVars, queue, writing, up, loop, aborted, stopped>>

\* receive() rejects and the session waits for the transport to close.
ReceiveFails(e) ==
    /\ loop[e] = "receive" /\ hand[e] = None
    /\ aborted[e] \/ (~up[e] /\ arriving[e] = <<>>)
    /\ loop' = [loop EXCEPT ![e] = "closing"]
    /\ UNCHANGED <<callVars, serveVars, wireVars, hand, aborted, stopped>>

LoopEnds(e) ==
    /\ loop[e] = "closing"
    /\ LoopFinally(e, call)
    /\ UNCHANGED <<caller, serveVars, wireVars, hand, aborted>>

\* Back to the head of the loop, which looks at the abort signal.
NextTurn(e, calls) ==
    IF aborted[e]
      THEN LoopFinally(e, calls)
      ELSE call' = calls /\ UNCHANGED <<loop, stopped>>

\* An answer is for a pending call, or it is late and dropped.
AcceptResponse(e) ==
    /\ hand[e] # None
    /\ hand[e].kind # "request"
    /\ LET c == hand[e].call IN
       NextTurn(e, IF Pending(c) THEN [call EXCEPT ![c] = hand[e].kind] ELSE call)
    /\ hand' = [hand EXCEPT ![e] = None]
    /\ UNCHANGED <<caller, serveVars, wireVars, aborted>>

\* A request below the limit is dispatched, whether or not the signal has
\* fired since the frame was received: its abort listener then comes too late.
AcceptRequest(e) ==
    /\ hand[e] # None
    /\ hand[e].kind = "request"
    /\ Cardinality(Serving(e)) < MaxInbound
    /\ serve' = [serve EXCEPT ![hand[e].call] = "running"]
    /\ work' = [work EXCEPT ![hand[e].call] = "running"]
    /\ NextTurn(e, call)
    /\ hand' = [hand EXCEPT ![e] = None]
    /\ UNCHANGED <<caller, cancelled, wireVars, aborted>>

\* A request above the limit ends the loop and closes the connection.
Overload(e) ==
    /\ hand[e] # None
    /\ hand[e].kind = "request"
    /\ Cardinality(Serving(e)) >= MaxInbound
    /\ hand' = [hand EXCEPT ![e] = None]
    /\ IF aborted[e]
         THEN LoopFinally(e, call) /\ UNCHANGED <<up, arriving>>
         ELSE /\ loop' = [loop EXCEPT ![e] = "closing"]
              /\ up' = [up EXCEPT ![e] = FALSE]
              /\ arriving' = [arriving EXCEPT ![e] = <<>>]
              /\ UNCHANGED <<call, stopped>>
    /\ UNCHANGED <<caller, serveVars, queue, writing, aborted>>

-----------------------------------------------------------------------------

\* The dispatched service returns, or it fails: it throws, or returns more than
\* an answer may hold.  Whoever gave up on it does not hear of it.
DispatchSettles(c, outcome) ==
    /\ work[c] = "running"
    /\ work' = [work EXCEPT ![c] = outcome]
    /\ IF serve[c] = "running" /\ c \notin cancelled
         THEN /\ serve' = [serve EXCEPT ![c] = "sending"]
              /\ queue' = [queue EXCEPT ![Server(c)] =
                    Append(@, [kind |-> IF outcome = "ok" THEN "ok" ELSE "refused", call |-> c])]
         ELSE UNCHANGED <<serve, queue>>
    /\ UNCHANGED <<callVars, cancelled, writing, arriving, up, endVars>>

\* Mutant of HandlerTimeout: a service that takes too long is answered for.
TimeoutRefuses(c) ==
    /\ serve[c] = "running" /\ c \notin cancelled
    /\ serve' = [serve EXCEPT ![c] = "sending"]
    /\ queue' = [queue EXCEPT ![Server(c)] = Append(@, [kind |-> "refused", call |-> c])]
    /\ UNCHANGED <<callVars, work, cancelled, writing, arriving, up, endVars>>

\* Mutant of HandlerTimeout: the deadline covers the dispatch only.
TimeoutOfDispatchOnly(c) ==
    /\ serve[c] = "running" /\ c \notin cancelled
    /\ serve' = [serve EXCEPT ![c] = "dropped"]
    /\ StopAfterTransportFailure(Server(c))
    /\ UNCHANGED <<callVars, work, queue, writing, loop, hand, stopped>>

\* handlerTimeoutMs has passed, for the dispatch or for the sending of its
\* answer: raceAbort rejects, no answer is sent and the channel stops.
HandlerTimeout(c) ==
    /\ Active(c) /\ c \notin cancelled
    /\ serve' = [serve EXCEPT ![c] = "dropped"]
    /\ StopAfterTransportFailure(Server(c))
    /\ UNCHANGED <<callVars, work, queue, writing, loop, hand, stopped>>

\* The same after the abort of the channel, which has stopped already.
ServeAborted(c) ==
    /\ Active(c) /\ c \in cancelled
    /\ serve' = [serve EXCEPT ![c] = "dropped"]
    /\ UNCHANGED <<callVars, work, cancelled, wireVars, endVars>>

Close(e) ==
    /\ ~stopped[e]
    /\ stopped' = [stopped EXCEPT ![e] = TRUE]
    /\ Abort(e)
    /\ UNCHANGED <<callVars, serve, work, queue, writing, loop, hand>>

-----------------------------------------------------------------------------
Outcomes == {"ok", "failed"}

CallStep(c) ==
    \/ \E e \in Ends : Request(c, e) \/ Refuse(c, e)
    \/ OnAbort(c) \/ OnTimeout(c)
    \/ HandlerTimeout(c) \/ ServeAborted(c)
    \/ \E outcome \in Outcomes : DispatchSettles(c, outcome)

EndStep(e) ==
    \/ Write(e) \/ WriteSettles(e) \/ WriteFails(e) \/ SendFails(e) \/ LinkFails(e)
    \/ Receive(e) \/ ReceiveFails(e) \/ LoopEnds(e)
    \/ AcceptResponse(e) \/ AcceptRequest(e) \/ Overload(e) \/ Close(e)

Next == (\E c \in Calls : CallStep(c)) \/ (\E e \in Ends : EndStep(e))

\* Timers fire, and the abort of a channel reaches the calls it serves.  Nothing
\* else is assumed: no service need return, no frame leave, arrive or be handled,
\* no write callback run.
Fairness ==
    \A c \in Calls :
        WF_vars(OnTimeout(c)) /\ WF_vars(HandlerTimeout(c)) /\ WF_vars(ServeAborted(c))

Spec     == Init /\ [][Next]_vars
FairSpec == Spec /\ Fairness

-----------------------------------------------------------------------------
TypeOK ==
    /\ caller \in [Calls -> Ends \cup {None}]
    /\ call \in [Calls -> {"new", "sending", "waiting"} \cup Results]
    /\ serve \in [Calls -> {"none", "running", "sending", "answered", "dropped"}]
    /\ work \in [Calls -> {"none", "running"} \cup Outcomes]
    /\ cancelled \subseteq Calls
    /\ queue \in [Ends -> Seq(Frames)]
    /\ writing \in [Ends -> Frames \cup {None}]
    /\ arriving \in [Ends -> Seq(Frames)]
    /\ up \in [Ends -> BOOLEAN]
    /\ loop \in [Ends -> {"receive", "closing", "done"}]
    /\ hand \in [Ends -> Frames \cup {None}]
    /\ aborted \in [Ends -> BOOLEAN]
    /\ stopped \in [Ends -> BOOLEAN]

\* An answer is never a guess: a caller that got a payload knows that the
\* service returned it, a caller that was refused knows that the service has
\* ended without one.  Deadlines, cancellations and closed channels give no
\* answer, because the service may still be running.
AnswersAreFinal ==
    \A c \in Calls :
        /\ call[c] = "ok" => work[c] = "ok"
        /\ call[c] = "refused" => work[c] = "failed"

\* Once the receive loop of an end is over, no answer can come: no caller is
\* still waiting there, not even one admitted while the connection was being
\* closed under the loop.
NobodyWaitsOnDeadChannel ==
    \A e \in Ends : loop[e] = "done" => Waiting(e) = {}

\* A live end meets a request above its limit, and closes the connection for
\* it, in two cases only.  The caller cancelled a call, whose place is free at
\* once at the caller and at the server only when the service is done.  Or the
\* caller has an answer whose write has not settled at the server: that place
\* is given back by the write callback, after the answer arrived.  One place
\* more inbound than outbound makes up for it, as sends go one at a time.  A
\* deadline frees no place: it takes the channel down with it.
OverloadOnlyAfterCancelOrOpenWrite ==
    \A e \in Ends :
        (/\ hand[e] # None /\ hand[e].kind = "request"
         /\ ~aborted[e]
         /\ Cardinality(Serving(e)) >= MaxInbound)
            => \/ \E c \in Calls : Server(c) = e /\ call[c] = "aborted"
               \/ /\ MaxInbound = MaxOutbound
                  /\ \E c \in Serving(e) :
                        call[c] \in {"ok", "refused"} /\ writing[e] # None /\ writing[e].call = c

\* Every call comes to an end, whatever the network and the other end do: none
\* is pending for ever.
EveryCallSettles == \A c \in Calls : []<>~Pending(c)

\* Every inbound place is given back, with a service that never returns or an
\* answer that never leaves.
PlacesReturn == \A c \in Calls : []<>~Active(c)

=============================================================================
