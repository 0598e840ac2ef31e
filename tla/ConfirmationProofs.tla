-------------------------- MODULE ConfirmationProofs ---------------------------
(***************************************************************************)
(* What the confirmation broker promises, for any set of requests, of      *)
(* decisions and of cancel causes, and any queue depth.                    *)
(*                                                                         *)
(* IInv ties the phase of every request to its terminal, its deferred      *)
(* cancel, its promise and the queue.  Its parts need each other: that a   *)
(* cancelled request is not queued again (CancelOK) rests on deferredTerm- *)
(* inal being there while the answer of a surface is recorded (DeferredOK) *)
(* and on a cancel never asking to be queued again (TerminalOK).           *)
(***************************************************************************)
EXTENDS ConfirmationBroker, FiniteSetTheorems, WellFoundedInduction, TLAPS

\* The requests in the queue, and the one in front of the user.
Waiting(ph) == {id \in Ids : ph[id] \in {"queued", "showing"}}
Shown(ph)   == {id \in Ids : ph[id] = "showing"}

\* No request is in the queue twice.
IsOnce(q) == \A i, j \in DOMAIN q : q[i] = q[j] => i = j

\* The queue holds the waiting requests, each once, with their timers armed.
QueueHoldsWaiting ==
    /\ IsOnce(queue)
    /\ Range(queue) = Waiting(phase)
    /\ \A id \in Waiting(phase) : timer[id]

\* The first of the queue is shown, or will be when a settlement ends.
HeadAttended ==
    queue # <<>> => phase[Head(queue)] = "showing" \/ \E id \in Ids : phase[id] = "resolving"

\* What a terminal says about its request, in the phases that have one.
TerminalOK(id) ==
    LET t == terminal[id] IN
    IF phase[id] \notin {"resolving", "ending"} THEN t = NoTerminal
    ELSE /\ observed
         /\ t.decision \in Final \ {"declined"}
         /\ t.source # "none"
         /\ t.source \in {"non-interactive", "expired", "backpressure"} =>
                t.decision \in {"auto", "expired", "backpressure"}
         /\ t.source = "cancel" => ~t.requeue

\* A deferred cancel belongs to a decision of a surface that is being recorded.
DeferredOK(id) ==
    deferred[id] # NoCause => phase[id] = "resolving" /\ terminal[id].source = "surface"

\* Where a cancelled request can be: none of these ways leads to the queue.
CancelOK(id) ==
    id \in cancelled =>
        \/ phase[id] = "admitting" /\ cause[id] # NoCause
        \/ phase[id] \in {"ending", "done"}
        \/ phase[id] = "resolving" /\ (deferred[id] # NoCause \/ terminal[id].source = "cancel")

\* A promise is open until the request is done, and settles with what the
\* observer acknowledged.
OutcomeOK(id) ==
    /\ phase[id] # "done" => outcome[id] = "open"
    /\ acked[id] = IF observed /\ outcome[id] \notin {"open", "rejected", "declined"}
                     THEN {outcome[id]} ELSE {}

\* Without an observer nothing is awaited.
PhaseOK(id) == ~observed => phase[id] \in {"none", "queued", "showing", "done"}

\* What every request satisfies.
Good(id) ==
    TerminalOK(id) /\ DeferredOK(id) /\ CancelOK(id) /\ OutcomeOK(id) /\ PhaseOK(id)

\* Without an observer nobody waits for a hub that is not attached.
NobodyWaitsAlone == ~observed /\ ~listening => queue = <<>>

IInv ==
    /\ TypeOK /\ QueueHoldsWaiting /\ HeadAttended
    /\ \A id \in Ids : Good(id)
    /\ NobodyWaitsAlone /\ DialogsMatch

-----------------------------------------------------------------------------
(* Sequences of requests. *)

\* Induction on numbers, for the set of the numbers that have the property.
LEMMA SetInduction ==
    ASSUME NEW P, 0 \in P, \A n \in Nat : n \in P => n + 1 \in P
    PROVE  Nat \subseteq P
<1> DEFINE T == Nat \ P
<1> SUFFICES ASSUME T # {} PROVE FALSE
  OBVIOUS
<1>1. IsWellFoundedOn({p \in Nat \X Nat : p[1] < p[2]}, Nat)
  BY NatLessThanWellFounded DEF OpToRel
<1>2. PICK n \in T : \A m \in T : ~ (<<m, n>> \in {p \in Nat \X Nat : p[1] < p[2]})
  BY <1>1, WFMin
<1>3. \A m \in T : ~ (m < n)
  BY <1>2
<1>4. n \in Nat /\ n # 0
  BY <1>2
<1>5. n - 1 \in Nat /\ n - 1 < n /\ (n - 1) + 1 = n
  BY <1>4
<1>6. n - 1 \in P
  BY <1>3, <1>5
<1> QED BY <1>2, <1>5, <1>6

\* g is the recursive function in Without, up to m.
Keeps(q, S, g, m) ==
    g = [i \in 0 .. m |-> IF i = 0 THEN <<>>
                          ELSE IF q[i] \in S THEN g[i - 1] ELSE Append(g[i - 1], q[i])]

\* The recursion of Without has a solution.
LEMMA KeepsExists ==
    ASSUME NEW q, NEW S
    PROVE  \A m \in Nat : \E g : Keeps(q, S, g, m)
<1> DEFINE P == {m \in Nat : \E g : Keeps(q, S, g, m)}
<1>1. 0 \in P
  <2>1. Keeps(q, S, [i \in 0 .. 0 |-> <<>>], 0)
    BY DEF Keeps
  <2> QED BY <2>1
<1>2. ASSUME NEW m \in Nat, m \in P PROVE m + 1 \in P
  <2>1. PICK g : Keeps(q, S, g, m)
    BY <1>2
  <2> DEFINE h == [i \in 0 .. m + 1 |->
                     IF i <= m THEN g[i]
                     ELSE IF q[i] \in S THEN g[i - 1] ELSE Append(g[i - 1], q[i])]
  <2>2. \A i \in 0 .. m : h[i] = g[i]
    OBVIOUS
  <2>3. \A i \in 0 .. m : g[i] = IF i = 0 THEN <<>>
                          ELSE IF q[i] \in S THEN g[i - 1] ELSE Append(g[i - 1], q[i])
    BY <2>1 DEF Keeps
  <2>4. ASSUME NEW i \in 0 .. m + 1
        PROVE  h[i] = IF i = 0 THEN <<>>
                      ELSE IF q[i] \in S THEN h[i - 1] ELSE Append(h[i - 1], q[i])
    <3>1. CASE i = 0
      BY <2>3, <3>1
    <3>2. CASE i # 0
      <4>1. i - 1 \in 0 .. m /\ h[i - 1] = g[i - 1]
        BY <3>2
      <4> QED BY <2>3, <3>2, <4>1
    <3> QED BY <3>1, <3>2
  <2>5. h = [i \in 0 .. m + 1 |-> h[i]]
    OBVIOUS
  <2> HIDE DEF h
  <2>6. Keeps(q, S, h, m + 1)
    BY <2>4, <2>5 DEF Keeps
  <2> QED BY <2>6
<1> HIDE DEF P
<1>3. Nat \subseteq P
  BY <1>1, <1>2, SetInduction
<1> QED BY <1>3 DEF P

\* Without unfolds as it is written.
LEMMA WithoutUnfolds ==
    ASSUME NEW q \in Seq(Ids), NEW S
    PROVE  \E g : Keeps(q, S, g, Len(q)) /\ Without(q, S) = g[Len(q)]
<1> DEFINE g == CHOOSE h : Keeps(q, S, h, Len(q))
<1>1. Keeps(q, S, g, Len(q))
  BY KeepsExists
<1>2. Without(q, S) = g[Len(q)]
  BY DEF Without, Keeps
<1> QED BY <1>1, <1>2

\* removeFromQueue takes out the requests of S, and keeps the others as they are.
LEMMA WithoutKeeps ==
    ASSUME NEW q \in Seq(Ids), NEW S
    PROVE  /\ Without(q, S) \in Seq(Ids)
           /\ Range(Without(q, S)) = Range(q) \ S
           /\ IsOnce(q) => IsOnce(Without(q, S))
           /\ Range(q) \cap S = {} => Without(q, S) = q
<1> DEFINE n == Len(q)
<1>0. n \in Nat /\ DOMAIN q = 1 .. n /\ \A i \in 1 .. n : q[i] \in Ids
  OBVIOUS
<1>1. PICK g : Keeps(q, S, g, n) /\ Without(q, S) = g[n]
  BY WithoutUnfolds
<1> HIDE DEF n
<1>2. g[0] = <<>>
  BY <1>0, <1>1 DEF Keeps
<1>3. \A i \in 1 .. n : g[i] = IF q[i] \in S THEN g[i - 1] ELSE Append(g[i - 1], q[i])
  <2>1. \A i \in 0 .. n : g[i] = IF i = 0 THEN <<>>
                          ELSE IF q[i] \in S THEN g[i - 1] ELSE Append(g[i - 1], q[i])
    BY <1>1 DEF Keeps
  <2> QED BY <1>0, <2>1
<1> DEFINE first(i) == {q[j] : j \in 1 .. i}
<1> DEFINE P == {i \in Nat : i <= n =>
                    /\ g[i] \in Seq(Ids)
                    /\ Range(g[i]) = first(i) \ S
                    /\ IsOnce(q) => IsOnce(g[i])
                    /\ Range(q) \cap S = {} => Len(g[i]) = i /\ \A j \in 1 .. i : g[i][j] = q[j]}
<1>4. 0 \in P
  <2>1. Range(<<>>) = {} /\ IsOnce(<<>>)
    BY DEF Range, IsOnce
  <2>2. first(0) = {} /\ <<>> \in Seq(Ids) /\ Len(<<>>) = 0 /\ 1 .. 0 = {}
    OBVIOUS
  <2> HIDE DEF first
  <2> QED BY <1>2, <2>1, <2>2
<1>5. ASSUME NEW i \in Nat, i \in P PROVE i + 1 \in P
  <2>1. SUFFICES ASSUME i + 1 <= n
                 PROVE  /\ g[i + 1] \in Seq(Ids)
                        /\ Range(g[i + 1]) = first(i + 1) \ S
                        /\ IsOnce(q) => IsOnce(g[i + 1])
                        /\ Range(q) \cap S = {} =>
                              Len(g[i + 1]) = i + 1 /\ \A j \in 1 .. i + 1 : g[i + 1][j] = q[j]
    OBVIOUS
  <2>2. /\ g[i] \in Seq(Ids)
        /\ Range(g[i]) = first(i) \ S
        /\ IsOnce(q) => IsOnce(g[i])
        /\ Range(q) \cap S = {} => Len(g[i]) = i /\ \A j \in 1 .. i : g[i][j] = q[j]
    BY <1>0, <1>5, <2>1
  <2>3. i + 1 \in 1 .. n /\ (i + 1) - 1 = i /\ q[i + 1] \in Ids
    BY <1>0, <2>1
  <2>4. first(i + 1) = first(i) \cup {q[i + 1]}
    <3>1. \A j \in 1 .. i + 1 : j \in 1 .. i \/ j = i + 1
      OBVIOUS
    <3>2. \A j \in 1 .. i : j \in 1 .. i + 1
      OBVIOUS
    <3> QED BY <3>1, <3>2
  <2>5. q[i + 1] \in Range(q)
    BY <1>0, <2>3 DEF Range
  <2>6. g[i + 1] = IF q[i + 1] \in S THEN g[i] ELSE Append(g[i], q[i + 1])
    BY <1>3, <2>3
  <2> HIDE DEF first
  <2>7. CASE q[i + 1] \in S
    BY <2>2, <2>4, <2>5, <2>6, <2>7
  <2>8. CASE q[i + 1] \notin S
    <3> DEFINE a == g[i]  x == q[i + 1]
    <3>1. a \in Seq(Ids) /\ x \in Ids /\ g[i + 1] = Append(a, x)
      BY <2>2, <2>3, <2>6, <2>8
    <3> HIDE DEF a, x
    <3>2. /\ Append(a, x) \in Seq(Ids) /\ Len(Append(a, x)) = Len(a) + 1 /\ Len(a) \in Nat
          /\ DOMAIN Append(a, x) = 1 .. Len(a) + 1 /\ DOMAIN a = 1 .. Len(a)
          /\ Append(a, x)[Len(a) + 1] = x /\ \A j \in 1 .. Len(a) : Append(a, x)[j] = a[j]
      BY <3>1
    <3> DEFINE b == Append(a, x)
    <3> HIDE DEF b
    <3>3. Range(b) = Range(a) \cup {x}
      <4>1. \A j \in DOMAIN b : b[j] \in Range(a) \cup {x}
        BY <3>2 DEF Range, b
      <4>2. \A j \in DOMAIN a : j \in DOMAIN b /\ b[j] = a[j]
        BY <3>2 DEF b
      <4>3. x \in Range(b)
        <5>1. Len(a) + 1 \in DOMAIN b /\ b[Len(a) + 1] = x
          BY <3>2 DEF b
        <5> QED BY <5>1 DEF Range
      <4> QED BY <4>1, <4>2, <4>3 DEF Range
    <3>4. ASSUME IsOnce(q) PROVE IsOnce(b)
      <4>1. x \notin Range(a)
        <5>1. SUFFICES ASSUME NEW j \in 1 .. i, q[j] = q[i + 1] PROVE FALSE
          BY <2>2 DEF a, x, first
        <5>2. j \in DOMAIN q /\ i + 1 \in DOMAIN q /\ j # i + 1
          BY <1>0, <2>1, <2>3
        <5> QED BY <3>4, <5>1, <5>2 DEF IsOnce
      <4>2. \A j \in DOMAIN a : a[j] # x
        BY <4>1 DEF Range
      <4>3. \A j, k \in DOMAIN a : a[j] = a[k] => j = k
        BY <2>2, <3>4 DEF IsOnce, a
      <4> QED BY <3>2, <4>2, <4>3 DEF IsOnce, b
    <3>5. ASSUME Range(q) \cap S = {}
          PROVE  Len(b) = i + 1 /\ \A j \in 1 .. i + 1 : b[j] = q[j]
      <4>1. Len(a) = i /\ \A j \in 1 .. i : a[j] = q[j]
        BY <2>2, <3>5 DEF a
      <4> QED BY <3>2, <4>1 DEF b, x
    <3>6. Range(b) = first(i + 1) \ S
      BY <2>2, <2>4, <2>8, <3>3 DEF a, x
    <3> QED BY <3>1, <3>2, <3>4, <3>5, <3>6 DEF b
  <2> QED BY <2>7, <2>8
<1> HIDE DEF P
<1>6. Nat \subseteq P
  BY <1>4, <1>5, SetInduction
<1>7. /\ g[n] \in Seq(Ids)
      /\ Range(g[n]) = first(n) \ S
      /\ IsOnce(q) => IsOnce(g[n])
      /\ Range(q) \cap S = {} => Len(g[n]) = n /\ \A j \in 1 .. n : g[n][j] = q[j]
  <2>1. n \in P /\ n <= n
    BY <1>0, <1>6
  <2> HIDE DEF first
  <2> QED BY <2>1 DEF P
<1>8. first(n) = Range(q)
  BY <1>0 DEF Range
<1>9. ASSUME Range(q) \cap S = {} PROVE g[n] = q
  BY <1>0, <1>7, <1>9 DEF n
<1> QED BY <1>1, <1>7, <1>8, <1>9

\* A queue without doubles is as long as the set of its requests is large.
LEMMA OnceCounts ==
    ASSUME NEW q \in Seq(Ids), IsOnce(q)
    PROVE  Len(q) = Cardinality(Range(q))
<1>1. q \in [1 .. Len(q) -> Range(q)] /\ Len(q) \in Nat /\ DOMAIN q = 1 .. Len(q)
  BY DEF Range
<1>2. q \in Injection(1 .. Len(q), Range(q))
  BY <1>1 DEF IsOnce, Injection, IsInjective
<1>3. q \in Surjection(1 .. Len(q), Range(q))
  BY <1>1 DEF Surjection, Range
<1>4. ExistsBijection(1 .. Len(q), Range(q))
  BY <1>2, <1>3 DEF ExistsBijection, Bijection
<1> QED BY <1>1, <1>4, FS_CountingElements

\* A request put at the end, or at the front, of the queue.
LEMMA OneMore ==
    ASSUME NEW q \in Seq(Ids), NEW id \in Ids, id \notin Range(q), IsOnce(q)
    PROVE  /\ Append(q, id) \in Seq(Ids) /\ <<id>> \o q \in Seq(Ids)
           /\ IsOnce(Append(q, id)) /\ IsOnce(<<id>> \o q)
           /\ Range(Append(q, id)) = Range(q) \cup {id}
           /\ Range(<<id>> \o q) = Range(q) \cup {id}
           /\ q # <<>> => Head(Append(q, id)) = Head(q)
<1>0. Len(q) \in Nat /\ DOMAIN q = 1 .. Len(q) /\ \A i \in DOMAIN q : q[i] # id
  BY DEF Range
<1> DEFINE a == Append(q, id)  b == <<id>> \o q
<1>1. /\ a \in Seq(Ids) /\ DOMAIN a = 1 .. Len(q) + 1 /\ a[Len(q) + 1] = id
      /\ \A i \in 1 .. Len(q) : a[i] = q[i]
  OBVIOUS
<1>2. /\ b \in Seq(Ids) /\ DOMAIN b = 1 .. Len(q) + 1 /\ b[1] = id
      /\ \A i \in 1 .. Len(q) : b[i + 1] = q[i]
  OBVIOUS
<1>3. q # <<>> => Head(a) = Head(q)
  OBVIOUS
<1> HIDE DEF a, b
<1>4. IsOnce(a)
  BY <1>0, <1>1 DEF IsOnce
<1>5. \A i \in DOMAIN b : i = 1 \/ (i - 1 \in DOMAIN q /\ b[i] = q[i - 1])
  <2>1. TAKE i \in DOMAIN b
  <2>2. CASE i # 1
    <3>1. i - 1 \in 1 .. Len(q) /\ (i - 1) + 1 = i
      BY <1>0, <1>2, <2>2
    <3>2. b[(i - 1) + 1] = q[i - 1]
      BY <1>2, <3>1
    <3> QED BY <1>0, <3>1, <3>2
  <2> QED BY <2>2
<1>6. IsOnce(b)
  <2>1. ASSUME NEW i \in DOMAIN b, NEW j \in DOMAIN b, b[i] = b[j] PROVE i = j
    <3>1. i \in Nat /\ j \in Nat
      BY <1>0, <1>2
    <3>2. CASE i # 1 /\ j # 1
      <4>1. i - 1 = j - 1
        BY <1>5, <2>1, <3>2 DEF IsOnce
      <4> QED BY <3>1, <4>1
    <3>3. \A k \in DOMAIN b : k # 1 => b[k] # id
      BY <1>0, <1>5
    <3> QED BY <1>2, <2>1, <3>2, <3>3
  <2> QED BY <2>1 DEF IsOnce
<1>7. Range(a) = Range(q) \cup {id}
  <2>1. \A i \in DOMAIN a : a[i] \in Range(q) \cup {id}
    BY <1>0, <1>1 DEF Range
  <2>2. \A i \in DOMAIN q : i \in DOMAIN a /\ a[i] = q[i]
    BY <1>0, <1>1
  <2>3. Len(q) + 1 \in DOMAIN a
    BY <1>0, <1>1
  <2> QED BY <1>1, <2>1, <2>2, <2>3 DEF Range
<1>8. Range(b) = Range(q) \cup {id}
  <2>1. \A i \in DOMAIN b : b[i] \in Range(q) \cup {id}
    BY <1>2, <1>5 DEF Range
  <2>2. \A i \in DOMAIN q : i + 1 \in DOMAIN b /\ b[i + 1] = q[i]
    BY <1>0, <1>2
  <2>3. Range(q) \subseteq Range(b)
    BY <2>2 DEF Range
  <2>4. 1 \in DOMAIN b
    BY <1>0, <1>2
  <2>5. id \in Range(b) /\ Range(b) \subseteq Range(q) \cup {id}
    BY <1>2, <2>1, <2>4 DEF Range
  <2> QED BY <2>3, <2>5
<1> QED BY <1>1, <1>2, <1>3, <1>4, <1>6, <1>7, <1>8 DEF a, b

-----------------------------------------------------------------------------
(* The steps. *)

\* showHead(): afterwards the first request of the queue is shown, and the hub
\* has told its clients of the shown requests if it had before.
LEMMA HeadIsShown ==
    ASSUME NEW q \in Seq(Ids), NEW ph \in [Ids -> Phases], NEW t \in SUBSET Ids,
           Range(q) \subseteq Waiting(ph), ShowHead(q, ph, t)
    PROVE  /\ queue' = q /\ phase' \in [Ids -> Phases] /\ told' \in SUBSET Ids
           /\ \A id \in Ids : ph[id] # "queued" => phase'[id] = ph[id]
           /\ \A id \in Ids : ph[id] = "queued" => phase'[id] \in {"queued", "showing"}
           /\ Waiting(phase') = Waiting(ph)
           /\ q # <<>> => phase'[Head(q)] = "showing"
           /\ q = <<>> => told' = t
           /\ listening /\ t = Shown(ph) => told' = Shown(phase')
<1>1. CASE q # <<>> /\ ph[Head(q)] # "showing"
  <2> DEFINE h == Head(q)
  <2>1. h \in Ids /\ h \in Range(q)
    <3>1. h = q[1] /\ 1 \in DOMAIN q /\ q[1] \in Ids
      BY <1>1
    <3> QED BY <3>1 DEF Range
  <2>2. ph[h] = "queued"
    BY <1>1, <2>1 DEF Waiting
  <2>3. phase' = [ph EXCEPT ![h] = "showing"] /\ queue' = q
        /\ told' = IF listening THEN t \cup {h} ELSE t
    BY <1>1 DEF ShowHead
  <2> HIDE DEF h
  <2>4. phase' \in [Ids -> Phases] /\ phase'[h] = "showing" /\ \A id \in Ids \ {h} : phase'[id] = ph[id]
    BY <2>1, <2>3 DEF Phases
  <2>5. Waiting(phase') = Waiting(ph) /\ Shown(phase') = Shown(ph) \cup {h}
    BY <2>1, <2>2, <2>4 DEF Waiting, Shown
  <2> QED BY <1>1, <2>1, <2>2, <2>3, <2>4, <2>5 DEF h
<1>2. CASE ~(q # <<>> /\ ph[Head(q)] # "showing")
  <2>1. queue' = q /\ phase' = ph /\ told' = t
    BY <1>2 DEF ShowHead
  <2> QED BY <1>2, <2>1
<1> QED BY <1>1, <1>2

\* A step that concerns one request leaves the others good, also when it shows
\* another one.
LEMMA OthersGood ==
    ASSUME NEW x \in Ids, Good(x), UNCHANGED observed, x \in cancelled' => x \in cancelled,
           terminal'[x] = terminal[x], deferred'[x] = deferred[x], cause'[x] = cause[x],
           outcome'[x] = outcome[x], acked'[x] = acked[x],
           phase[x] # "queued" => phase'[x] = phase[x],
           phase[x] = "queued" => phase'[x] \in {"queued", "showing"}
    PROVE  Good(x)'
<1>1. TerminalOK(x)'
  BY DEF Good, TerminalOK
<1>2. DeferredOK(x)'
  BY DEF Good, DeferredOK
<1>3. CancelOK(x)'
  BY DEF Good, CancelOK
<1>4. OutcomeOK(x)'
  BY DEF Good, OutcomeOK
<1>5. PhaseOK(x)'
  BY DEF Good, PhaseOK
<1> QED BY <1>1, <1>2, <1>3, <1>4, <1>5 DEF Good

\* A request that never enters the queue: those that wait or are being settled
\* are left alone.
LEMMA EndOutsideStep ==
    ASSUME IInv, NEW id \in Ids, NEW d \in Final \ {"declined"},
           NEW src \in {"non-interactive", "backpressure", "cancel"},
           src # "cancel" => d \in {"auto", "backpressure"},
           phase[id] = IF observed THEN "admitting" ELSE "none",
           EndOutside(id, Terminal(d, src, FALSE)),
           UNCHANGED <<observed, cause, deferred, listening, acked, cancelled, swept>>
    PROVE  IInv'
<1> USE BrokerAssumption
<1>0. TypeOK /\ observed \in BOOLEAN /\ phase \in [Ids -> Phases] /\ Good(id)
  BY DEF IInv, TypeOK
<1> DEFINE t == Terminal(d, src, FALSE)
<1>1. t \in Terminals /\ t.decision = d /\ t.source = src /\ t.requeue = FALSE
  BY DEF Terminal, Terminals
<1>2. UNCHANGED <<queue, timer, observed, cause, deferred, listening, acked, cancelled, swept>>
  BY DEF EndOutside
<1>3. /\ phase' = [phase EXCEPT ![id] = IF observed THEN "ending" ELSE "done"]
      /\ observed => terminal' = [terminal EXCEPT ![id] = t] /\ UNCHANGED <<outcome, told>>
      /\ ~observed => outcome' = [outcome EXCEPT ![id] = d] /\ told' = Withdrawn({id}) /\ UNCHANGED terminal
  BY <1>0, <1>1 DEF EndOutside, Finished
<1> HIDE DEF t
<1>4. /\ phase' \in [Ids -> Phases] /\ phase'[id] = IF observed THEN "ending" ELSE "done"
      /\ \A x \in Ids \ {id} : phase'[x] = phase[x]
  BY <1>0, <1>3 DEF Phases
<1>5. Waiting(phase') = Waiting(phase) /\ Shown(phase') = Shown(phase)
  BY <1>0, <1>4 DEF Waiting, Shown
<1>6. TypeOK'
  BY <1>0, <1>1, <1>2, <1>3, <1>4 DEF TypeOK, Withdrawn
<1>7. QueueHoldsWaiting'
  BY <1>2, <1>5 DEF IInv, QueueHoldsWaiting
<1>8. HeadAttended'
  <2>1. queue # <<>> => Head(queue) \in Ids
    BY <1>0 DEF TypeOK
  <2>2. \A x \in Ids : phase[x] \in {"showing", "resolving"} => phase'[x] = phase[x]
    BY <1>0, <1>4
  <2> QED BY <1>2, <2>1, <2>2 DEF IInv, HeadAttended
<1>9. Good(id)'
  <2>1. outcome[id] = "open" /\ acked[id] = {} /\ terminal[id] = NoTerminal /\ deferred[id] = NoCause
    BY <1>0 DEF Good, OutcomeOK, TerminalOK, DeferredOK
  <2>2. /\ observed => terminal'[id] = t /\ outcome'[id] = "open"
        /\ ~observed => terminal'[id] = NoTerminal /\ outcome'[id] = d
    BY <1>0, <1>3, <2>1 DEF TypeOK
  <2>3. TerminalOK(id)'
    BY <1>0, <1>1, <1>2, <1>4, <2>2 DEF TerminalOK
  <2>4. DeferredOK(id)' /\ CancelOK(id)' /\ PhaseOK(id)'
    BY <1>2, <1>4, <2>1 DEF DeferredOK, CancelOK, PhaseOK
  <2>5. OutcomeOK(id)'
    BY <1>0, <1>2, <1>4, <2>1, <2>2 DEF OutcomeOK
  <2> QED BY <2>3, <2>4, <2>5 DEF Good
<1>10. ASSUME NEW x \in Ids, x # id PROVE Good(x)'
  <2>1. terminal'[x] = terminal[x] /\ outcome'[x] = outcome[x]
    BY <1>0, <1>3, <1>10 DEF TypeOK
  <2> QED BY <1>2, <1>4, <1>10, <2>1, OthersGood DEF IInv
<1>11. NobodyWaitsAlone'
  BY <1>2 DEF IInv, NobodyWaitsAlone
<1>12. DialogsMatch'
  <2>1. id \notin Shown(phase)
    BY <1>0 DEF Shown
  <2> QED BY <1>0, <1>2, <1>3, <1>5, <2>1 DEF IInv, DialogsMatch, Withdrawn, Shown
<1> QED BY <1>6, <1>7, <1>8, <1>9, <1>10, <1>11, <1>12 DEF IInv

\* A request enters the queue, and is shown at once if it is the only one.
LEMMA EnterQueueStep ==
    ASSUME IInv, NEW id \in Ids, phase[id] = IF observed THEN "admitting" ELSE "none",
           id \notin cancelled, ~observed => listening,
           timer' = [timer EXCEPT ![id] = TRUE],
           IF queue = <<>>
             THEN ShowHead(<<id>>, [phase EXCEPT ![id] = "queued"], told)
             ELSE /\ phase' = [phase EXCEPT ![id] = "queued"]
                  /\ queue' = Append(queue, id)
                  /\ UNCHANGED told,
           UNCHANGED <<observed, cause, deferred, terminal, outcome, listening, acked, cancelled, swept>>
    PROVE  IInv'
<1> USE BrokerAssumption
<1>0. /\ TypeOK /\ observed \in BOOLEAN /\ phase \in [Ids -> Phases] /\ Good(id) /\ queue \in Seq(Ids)
      /\ timer \in [Ids -> BOOLEAN] /\ told \in SUBSET Ids
  BY DEF IInv, TypeOK
<1> DEFINE ph == [phase EXCEPT ![id] = "queued"]
<1>1. ph \in [Ids -> Phases] /\ ph[id] = "queued" /\ \A x \in Ids \ {id} : ph[x] = phase[x]
  BY <1>0 DEF Phases
<1> HIDE DEF ph
<1>2. Waiting(ph) = Waiting(phase) \cup {id} /\ id \notin Waiting(phase) /\ Shown(ph) = Shown(phase)
  BY <1>0, <1>1 DEF Waiting, Shown
<1>3. IsOnce(queue) /\ Range(queue) = Waiting(phase)
  BY DEF IInv, QueueHoldsWaiting
<1>4. /\ queue' \in Seq(Ids) /\ IsOnce(queue)' /\ Range(queue') = Waiting(phase')
      /\ phase' \in [Ids -> Phases] /\ told' \in SUBSET Ids
      /\ phase'[id] \in {"queued", "showing"}
      /\ \A x \in Ids \ {id} : /\ phase[x] # "queued" => phase'[x] = phase[x]
                               /\ phase[x] = "queued" => phase'[x] \in {"queued", "showing"}
      /\ Waiting(phase') = Waiting(phase) \cup {id}
      /\ HeadAttended'
      /\ listening /\ told = Shown(phase) => told' = Shown(phase')
  <2>1. CASE queue = <<>>
    <3>1. <<id>> \in Seq(Ids) /\ IsOnce(<<id>>) /\ <<id>> # <<>>
      BY DEF IsOnce
    <3>2. Range(<<id>>) = {id} /\ Range(<<>>) = {}
      BY DEF Range
    <3>3. ShowHead(<<id>>, ph, told)
      BY <2>1 DEF ph
    <3>4. Range(<<id>>) \subseteq Waiting(ph)
      BY <1>2, <3>2
    <3> DEFINE q == <<id>>
    <3>5. /\ queue' = q /\ phase' \in [Ids -> Phases] /\ told' \in SUBSET Ids
          /\ \A x \in Ids : ph[x] # "queued" => phase'[x] = ph[x]
          /\ \A x \in Ids : ph[x] = "queued" => phase'[x] \in {"queued", "showing"}
          /\ Waiting(phase') = Waiting(ph)
          /\ phase'[Head(q)] = "showing"
          /\ listening /\ told = Shown(ph) => told' = Shown(phase')
      <4>1. q \in Seq(Ids) /\ q # <<>> /\ Range(q) \subseteq Waiting(ph) /\ ShowHead(q, ph, told)
        BY <3>1, <3>3, <3>4
      <4> HIDE DEF q
      <4> QED BY ONLY <1>0, <1>1, <4>1, HeadIsShown
    <3>6. Range(queue') = Waiting(phase')
      BY <1>2, <1>3, <2>1, <3>2, <3>5
    <3>7. HeadAttended'
      BY <3>5 DEF HeadAttended
    <3> QED BY <1>1, <1>2, <3>1, <3>5, <3>6, <3>7
  <2>2. CASE queue # <<>>
    <3>1. phase' = ph /\ queue' = Append(queue, id) /\ told' = told
      BY <2>2 DEF ph
    <3>2. /\ queue' \in Seq(Ids) /\ IsOnce(queue') /\ Range(queue') = Range(queue) \cup {id}
          /\ Head(queue') = Head(queue)
      BY <1>0, <1>2, <1>3, <2>2, <3>1, OneMore
    <3>3. HeadAttended'
      <4>1. Head(queue) \in Ids
        BY <1>0, <2>2
      <4>2. \A x \in Ids : phase[x] \in {"showing", "resolving"} => phase'[x] = phase[x]
        BY <1>0, <1>1, <3>1
      <4> QED BY <2>2, <3>2, <4>1, <4>2 DEF IInv, HeadAttended
    <3> QED BY <1>0, <1>1, <1>2, <1>3, <3>1, <3>2, <3>3
  <2> QED BY <2>1, <2>2
<1>5. timer' \in [Ids -> BOOLEAN] /\ timer'[id] = TRUE /\ \A x \in Ids \ {id} : timer'[x] = timer[x]
  BY <1>0
<1>6. TypeOK'
  BY <1>0, <1>4, <1>5 DEF TypeOK
<1>7. QueueHoldsWaiting'
  BY <1>4, <1>5 DEF IInv, QueueHoldsWaiting, Waiting
<1>8. Good(id)'
  <2>1. outcome[id] = "open" /\ acked[id] = {} /\ terminal[id] = NoTerminal /\ deferred[id] = NoCause
    BY <1>0 DEF Good, OutcomeOK, TerminalOK, DeferredOK
  <2> QED BY <1>4, <2>1 DEF Good, TerminalOK, DeferredOK, CancelOK, OutcomeOK, PhaseOK
<1>9. ASSUME NEW x \in Ids, x # id PROVE Good(x)'
  BY <1>4, <1>9, OthersGood DEF IInv
<1>10. NobodyWaitsAlone'
  BY DEF NobodyWaitsAlone
<1>11. DialogsMatch'
  BY <1>4 DEF IInv, DialogsMatch, Shown
<1> QED BY <1>4, <1>6, <1>7, <1>8, <1>9, <1>10, <1>11 DEF IInv

\* requestConfirmation after the admission.
LEMMA EnterStep ==
    ASSUME IInv, NEW id \in Ids, NEW durable \in BOOLEAN, durable => observed,
           phase[id] = IF observed THEN "admitting" ELSE "none",
           id \notin cancelled, Enter(id, durable)
    PROVE  IInv'
<1>0. /\ "auto" \in Final \ {"declined"} /\ "backpressure" \in Final \ {"declined"}
  BY DEF Final, Unasked
<1>1. CASE EndOutside(id, Terminal("auto", "non-interactive", FALSE))
  BY <1>0, <1>1, EndOutsideStep DEF Enter
<1>2. CASE EndOutside(id, Terminal("backpressure", "backpressure", FALSE))
  BY <1>0, <1>2, EndOutsideStep DEF Enter
<1>3. CASE /\ listening \/ durable
           /\ timer' = [timer EXCEPT ![id] = TRUE]
           /\ IF queue = <<>>
                THEN ShowHead(<<id>>, [phase EXCEPT ![id] = "queued"], told)
                ELSE /\ phase' = [phase EXCEPT ![id] = "queued"]
                     /\ queue' = Append(queue, id)
                     /\ UNCHANGED told
           /\ UNCHANGED <<terminal, outcome>>
  <2>1. ~observed => listening
    BY <1>3
  <2>2. UNCHANGED <<observed, cause, deferred, terminal, outcome, listening, acked, cancelled, swept>>
    BY <1>3 DEF Enter
  <2> QED BY <1>3, <2>1, <2>2, EnterQueueStep
<1> QED BY <1>1, <1>2, <1>3 DEF Enter

\* A step that moves one request to a phase in which it neither waits nor is
\* being settled, nor was before.
LEMMA ElsewhereStep ==
    ASSUME IInv, NEW id \in Ids, phase[id] \in {"none", "admitting", "ending"},
           NEW to \in {"admitting", "done"}, phase' = [phase EXCEPT ![id] = to],
           UNCHANGED <<observed, queue, timer, listening, cancelled, swept, deferred, cause>>,
           terminal' \in [Ids -> Terminals], outcome' \in [Ids -> Final \cup {"open", "rejected"}],
           acked' \in [Ids -> SUBSET Final], told' \in {told, Withdrawn({id})},
           \A x \in Ids \ {id} : /\ terminal'[x] = terminal[x] /\ outcome'[x] = outcome[x]
                                /\ acked'[x] = acked[x],
           Good(id)'
    PROVE  IInv'
<1>0. TypeOK /\ phase \in [Ids -> Phases] /\ queue \in Seq(Ids)
  BY DEF IInv, TypeOK
<1>1. phase' \in [Ids -> Phases] /\ phase'[id] = to /\ \A x \in Ids \ {id} : phase'[x] = phase[x]
  BY <1>0 DEF Phases
<1>2. Waiting(phase') = Waiting(phase) /\ Shown(phase') = Shown(phase)
  BY <1>0, <1>1 DEF Waiting, Shown
<1>3. TypeOK'
  BY <1>0, <1>1 DEF TypeOK, Withdrawn
<1>4. QueueHoldsWaiting'
  BY <1>2 DEF IInv, QueueHoldsWaiting
<1>5. HeadAttended'
  <2>1. queue # <<>> => Head(queue) \in Ids
    BY <1>0
  <2>2. \A x \in Ids : phase[x] \in {"showing", "resolving"} => phase'[x] = phase[x]
    BY <1>0, <1>1
  <2> QED BY <2>1, <2>2 DEF IInv, HeadAttended
<1>6. ASSUME NEW x \in Ids, x # id PROVE Good(x)'
  BY <1>1, <1>6, OthersGood DEF IInv
<1>7. NobodyWaitsAlone'
  BY DEF IInv, NobodyWaitsAlone
<1>8. DialogsMatch'
  <2>1. id \notin Shown(phase)
    BY <1>0 DEF Shown
  <2> QED BY <1>2, <2>1 DEF IInv, DialogsMatch, Withdrawn, Shown
<1> QED BY <1>3, <1>4, <1>5, <1>6, <1>7, <1>8 DEF IInv

\* showHead() over a queue of the waiting requests.
LEMMA ShowStep ==
    ASSUME NEW q \in Seq(Ids), IsOnce(q), NEW ph \in [Ids -> Phases], NEW t \in SUBSET Ids,
           Range(q) = Waiting(ph), ShowHead(q, ph, t)
    PROVE  /\ queue' \in Seq(Ids) /\ IsOnce(queue') /\ Range(queue') = Waiting(phase')
           /\ Waiting(phase') = Waiting(ph) /\ HeadAttended' /\ queue' = q
           /\ phase' \in [Ids -> Phases] /\ told' \in SUBSET Ids
           /\ \A x \in Ids : ph[x] # "queued" => phase'[x] = ph[x]
           /\ \A x \in Ids : ph[x] = "queued" => phase'[x] \in {"queued", "showing"}
           /\ listening /\ t = Shown(ph) => told' = Shown(phase')
           /\ q = <<>> => told' = t
<1>1. /\ queue' = q /\ phase' \in [Ids -> Phases] /\ told' \in SUBSET Ids
      /\ \A id \in Ids : ph[id] # "queued" => phase'[id] = ph[id]
      /\ \A id \in Ids : ph[id] = "queued" => phase'[id] \in {"queued", "showing"}
      /\ Waiting(phase') = Waiting(ph)
      /\ q # <<>> => phase'[Head(q)] = "showing"
      /\ q = <<>> => told' = t
      /\ listening /\ t = Shown(ph) => told' = Shown(phase')
  BY HeadIsShown
<1>2. HeadAttended'
  BY <1>1 DEF HeadAttended
<1> QED BY <1>1, <1>2

\* The waiting requests of S are done, or being settled, in ph.
Moved(ph, S, to) ==
    /\ ph \in [Ids -> Phases]
    /\ \A x \in Ids : ph[x] = IF x \in S \cap Waiting(phase) THEN to ELSE phase[x]

\* The requests of S leave the queue as they leave the waiting phases.
LEMMA Leaving ==
    ASSUME IInv, NEW S, NEW ph, NEW to, to \in {"done", "resolving"}, Moved(ph, S, to)
    PROVE  /\ Waiting(ph) = Waiting(phase) \ S
           /\ Without(queue, S) \in Seq(Ids) /\ IsOnce(Without(queue, S))
           /\ Range(Without(queue, S)) = Waiting(ph)
           /\ Shown(ph) = Shown(phase) \ S
           /\ S \cap Waiting(phase) = {} => Without(queue, S) = queue /\ ph = phase
<1>0. TypeOK /\ queue \in Seq(Ids) /\ phase \in [Ids -> Phases] /\ IsOnce(queue) /\ Range(queue) = Waiting(phase)
  BY DEF IInv, TypeOK, QueueHoldsWaiting
<1>1. Waiting(ph) = Waiting(phase) \ S /\ Shown(ph) = Shown(phase) \ S
  BY <1>0 DEF Moved, Waiting, Shown
<1>2. /\ Without(queue, S) \in Seq(Ids) /\ IsOnce(Without(queue, S))
      /\ Range(Without(queue, S)) = Range(queue) \ S
      /\ Range(queue) \cap S = {} => Without(queue, S) = queue
  BY <1>0, WithoutKeeps
<1>3. S \cap Waiting(phase) = {} => ph = phase /\ Range(queue) \cap S = {}
  BY <1>0 DEF Moved
<1> QED BY <1>0, <1>1, <1>2, <1>3

\* One request leaves the queue.
LEMMA LeavingOne ==
    ASSUME IInv, NEW id \in Waiting(phase), NEW to \in {"done", "resolving"}, NEW ph,
           ph = [x \in Ids |-> IF x \in {id} THEN to ELSE phase[x]]
    PROVE  /\ ph \in [Ids -> Phases]
           /\ Waiting(ph) = Waiting(phase) \ {id}
           /\ Without(queue, {id}) \in Seq(Ids) /\ IsOnce(Without(queue, {id}))
           /\ Range(Without(queue, {id})) = Waiting(ph)
           /\ Shown(ph) = Shown(phase) \ {id}
<1>0. TypeOK /\ queue \in Seq(Ids) /\ phase \in [Ids -> Phases] /\ IsOnce(queue) /\ Range(queue) = Waiting(phase)
  BY DEF IInv, TypeOK, QueueHoldsWaiting
<1>1. ph \in [Ids -> Phases]
  BY <1>0 DEF Phases
<1>2. Waiting(ph) = Waiting(phase) \ {id} /\ Shown(ph) = Shown(phase) \ {id}
  BY <1>0 DEF Waiting, Shown
<1>3. /\ Without(queue, {id}) \in Seq(Ids) /\ IsOnce(Without(queue, {id}))
      /\ Range(Without(queue, {id})) = Range(queue) \ {id}
  BY <1>0, WithoutKeeps
<1> QED BY <1>0, <1>1, <1>2, <1>3

\* A waiting request is settled: by a surface, the resolver, or its timer.
LEMMA SettleStep ==
    ASSUME IInv, NEW id \in Ids, NEW d \in Final \ {"declined"},
           NEW src \in {"surface", "non-interactive", "expired"}, NEW again \in BOOLEAN,
           src # "surface" => d \in {"auto", "expired"},
           Settle(id, Terminal(d, src, again))
    PROVE  IInv'
<1> USE BrokerAssumption
<1>0. /\ TypeOK /\ observed \in BOOLEAN /\ phase \in [Ids -> Phases] /\ Good(id) /\ queue \in Seq(Ids)
      /\ timer \in [Ids -> BOOLEAN] /\ told \in SUBSET Ids
  BY DEF IInv, TypeOK
<1> DEFINE t == Terminal(d, src, again)
<1>1. /\ t \in Terminals /\ t.decision = d /\ t.source = src /\ NoTerminal \in Terminals
      /\ NoTerminal.source = "none"
  BY DEF Terminal, Terminals, NoTerminal
<1>2. id \in Pending /\ terminal[id] = NoTerminal /\ timer' = [timer EXCEPT ![id] = FALSE]
      /\ UNCHANGED <<observed, cause, deferred, listening, acked, cancelled, swept>>
  BY DEF Settle
<1>3. phase[id] \in {"queued", "showing"} /\ id \in Waiting(phase)
  BY <1>0, <1>1, <1>2 DEF Pending, Good, TerminalOK, Waiting
<1>4. outcome[id] = "open" /\ acked[id] = {} /\ deferred[id] = NoCause /\ id \notin cancelled
  BY <1>0, <1>3 DEF Good, OutcomeOK, TerminalOK, DeferredOK, CancelOK
<1>5. timer' \in [Ids -> BOOLEAN] /\ \A x \in Ids \ {id} : timer'[x] = timer[x]
  BY <1>0, <1>2
<1>6. CASE observed
  <2>1. /\ phase' = [phase EXCEPT ![id] = "resolving"] /\ queue' = Without(queue, {id})
        /\ terminal' = [terminal EXCEPT ![id] = t] /\ UNCHANGED <<outcome, told>>
    BY <1>6 DEF Settle
  <2> HIDE DEF t
  <2>2. phase' = [x \in Ids |-> IF x \in {id} THEN "resolving" ELSE phase[x]]
    BY <1>0, <2>1
  <2>3. /\ phase' \in [Ids -> Phases] /\ Waiting(phase') = Waiting(phase) \ {id}
        /\ queue' \in Seq(Ids) /\ IsOnce(queue') /\ Range(queue') = Waiting(phase')
    <3>1. IInv
      OBVIOUS
    <3> QED BY ONLY <1>3, <2>1, <2>2, <3>1, LeavingOne
  <2>4. TypeOK'
    BY <1>0, <1>1, <1>2, <1>5, <2>1, <2>3 DEF TypeOK
  <2>5. QueueHoldsWaiting'
    BY <1>5, <2>3 DEF IInv, QueueHoldsWaiting, Waiting
  <2>6. HeadAttended'
    BY <2>2 DEF HeadAttended
  <2>7. Good(id)'
    <3>1. phase'[id] = "resolving" /\ terminal'[id] = t
      BY <1>0, <2>1 DEF TypeOK
    <3>2. TerminalOK(id)'
      BY <1>1, <1>2, <1>6, <3>1 DEF TerminalOK
    <3> QED BY <1>2, <1>4, <1>6, <2>1, <3>1, <3>2 DEF Good, DeferredOK, CancelOK, OutcomeOK, PhaseOK
  <2>8. ASSUME NEW x \in Ids, x # id PROVE Good(x)'
    <3>1. phase'[x] = phase[x] /\ terminal'[x] = terminal[x]
      BY <1>0, <2>1, <2>8 DEF TypeOK
    <3> QED BY <1>2, <2>1, <3>1, OthersGood DEF IInv
  <2>9. NobodyWaitsAlone' /\ DialogsMatch'
    BY <1>2, <1>6 DEF NobodyWaitsAlone, DialogsMatch
  <2> QED BY <2>4, <2>5, <2>6, <2>7, <2>8, <2>9 DEF IInv
<1>7. CASE ~observed
  <2> DEFINE ph == Finished({id})  q == Without(queue, {id})
  <2>1. /\ ShowHead(q, ph, Withdrawn({id}))
        /\ outcome' = [outcome EXCEPT ![id] = d] /\ UNCHANGED terminal
    BY <1>1, <1>7 DEF Settle
  <2>2. listening /\ told = Shown(phase)
    <3>1. queue # <<>>
      <4>1. Range(queue) = Waiting(phase)
        BY DEF IInv, QueueHoldsWaiting
      <4>2. Range(<<>>) = {}
        BY DEF Range
      <4> QED BY <1>3, <4>1, <4>2
    <3> QED BY <1>7, <3>1 DEF IInv, NobodyWaitsAlone, DialogsMatch, Shown
  <2>3. ph = [x \in Ids |-> IF x \in {id} THEN "done" ELSE phase[x]]
    BY DEF Finished
  <2>4. /\ ph \in [Ids -> Phases] /\ Waiting(ph) = Waiting(phase) \ {id}
        /\ q \in Seq(Ids) /\ IsOnce(q) /\ Range(q) = Waiting(ph) /\ Shown(ph) = Shown(phase) \ {id}
    <3>1. IInv
      OBVIOUS
    <3> HIDE DEF ph
    <3> QED BY ONLY <1>3, <2>3, <3>1, LeavingOne
  <2>5. Withdrawn({id}) \in SUBSET Ids /\ Withdrawn({id}) = Shown(ph)
    BY <1>0, <2>2, <2>4 DEF Withdrawn
  <2>6. ph[id] = "done" /\ \A x \in Ids \ {id} : ph[x] = phase[x]
    BY <2>3
  <2> HIDE DEF ph, q
  <2>7. /\ queue' \in Seq(Ids) /\ IsOnce(queue') /\ Range(queue') = Waiting(phase')
        /\ Waiting(phase') = Waiting(ph) /\ HeadAttended'
        /\ phase' \in [Ids -> Phases] /\ told' \in SUBSET Ids
        /\ \A x \in Ids : ph[x] # "queued" => phase'[x] = ph[x]
        /\ \A x \in Ids : ph[x] = "queued" => phase'[x] \in {"queued", "showing"}
        /\ told' = Shown(phase')
    BY ONLY <2>1, <2>2, <2>4, <2>5, ShowStep
  <2>8. TypeOK'
    BY <1>0, <1>2, <1>5, <2>1, <2>7 DEF TypeOK
  <2>9. QueueHoldsWaiting'
    BY <1>5, <2>4, <2>7 DEF IInv, QueueHoldsWaiting, Waiting
  <2>10. Good(id)'
    <3>1. phase'[id] = "done" /\ terminal'[id] = NoTerminal
      BY <1>0, <1>2, <2>1, <2>6, <2>7
    <3> QED BY <1>2, <1>4, <1>7, <3>1 DEF Good, TerminalOK, DeferredOK, CancelOK, OutcomeOK, PhaseOK
  <2>11. ASSUME NEW x \in Ids, x # id PROVE Good(x)'
    <3>1. outcome'[x] = outcome[x]
      BY <1>0, <2>1, <2>11 DEF TypeOK
    <3> QED BY <1>2, <2>1, <2>6, <2>7, <2>11, <3>1, OthersGood DEF IInv
  <2>12. NobodyWaitsAlone' /\ DialogsMatch'
    BY <1>2, <2>2, <2>7 DEF NobodyWaitsAlone, DialogsMatch, Shown
  <2> QED BY <2>7, <2>8, <2>9, <2>10, <2>11, <2>12 DEF IInv
<1> QED BY <1>6, <1>7

\* commitTerminal settles the promise, and the next request is shown.
LEMMA CommitEnds ==
    ASSUME IInv, NEW id \in Ids, phase[id] = "resolving", NEW t \in SUBSET Ids,
           ShowHead(queue, Finished({id}), t),
           NEW out \in Final \cup {"rejected"}, out # "declined",
           outcome' = [outcome EXCEPT ![id] = out],
           acked' = [acked EXCEPT ![id] = IF out = "rejected" THEN {} ELSE {out}],
           terminal' = [terminal EXCEPT ![id] = NoTerminal],
           deferred' = [deferred EXCEPT ![id] = NoCause],
           UNCHANGED <<observed, cause, timer, listening, cancelled, swept>>
    PROVE  IInv'
<1> USE BrokerAssumption
<1>0. /\ TypeOK /\ observed \in BOOLEAN /\ phase \in [Ids -> Phases] /\ Good(id) /\ queue \in Seq(Ids)
      /\ IsOnce(queue) /\ Range(queue) = Waiting(phase)
  BY DEF IInv, TypeOK, QueueHoldsWaiting
<1>1. observed = TRUE
  BY <1>0 DEF Good, TerminalOK
<1> DEFINE ph == Finished({id})
<1>2. ph \in [Ids -> Phases] /\ ph[id] = "done" /\ \A x \in Ids \ {id} : ph[x] = phase[x]
  BY <1>0 DEF Finished, Phases
<1>3. ShowHead(queue, ph, t)
  OBVIOUS
<1> HIDE DEF ph
<1>4. Waiting(ph) = Waiting(phase) /\ id \notin Waiting(phase)
  BY <1>0, <1>2 DEF Waiting
<1>5. /\ queue' \in Seq(Ids) /\ IsOnce(queue') /\ Range(queue') = Waiting(phase')
      /\ Waiting(phase') = Waiting(ph) /\ HeadAttended'
      /\ phase' \in [Ids -> Phases] /\ told' \in SUBSET Ids
      /\ \A x \in Ids : ph[x] # "queued" => phase'[x] = ph[x]
      /\ \A x \in Ids : ph[x] = "queued" => phase'[x] \in {"queued", "showing"}
  BY <1>0, <1>2, <1>3, <1>4, ShowStep
<1>6. NoTerminal \in Terminals
  BY DEF NoTerminal, Terminals, Terminal
<1>7. TypeOK'
  BY <1>0, <1>5, <1>6 DEF TypeOK
<1>8. QueueHoldsWaiting'
  BY <1>4, <1>5 DEF IInv, QueueHoldsWaiting
<1>9. Good(id)'
  <2>1. /\ phase'[id] = "done" /\ outcome'[id] = out /\ terminal'[id] = NoTerminal
        /\ deferred'[id] = NoCause /\ acked'[id] = IF out = "rejected" THEN {} ELSE {out}
    BY <1>0, <1>2, <1>5 DEF TypeOK
  <2>2. out # "open"
    BY DEF Final, Unasked
  <2> QED BY <1>1, <2>1, <2>2 DEF Good, TerminalOK, DeferredOK, CancelOK, OutcomeOK, PhaseOK
<1>10. ASSUME NEW x \in Ids, x # id PROVE Good(x)'
  <2>1. /\ outcome'[x] = outcome[x] /\ acked'[x] = acked[x] /\ terminal'[x] = terminal[x]
        /\ deferred'[x] = deferred[x] /\ ph[x] = phase[x]
    BY <1>0, <1>2, <1>10 DEF TypeOK
  <2> QED BY <1>5, <2>1, OthersGood DEF IInv
<1>11. NobodyWaitsAlone' /\ DialogsMatch'
  BY <1>1 DEF NobodyWaitsAlone, DialogsMatch
<1> QED BY <1>5, <1>7, <1>8, <1>9, <1>10, <1>11 DEF IInv

\* What is known of a request that is being settled.
LEMMA WhileResolving ==
    ASSUME IInv, NEW id \in Ids, phase[id] = "resolving"
    PROVE  /\ observed /\ outcome[id] = "open" /\ acked[id] = {}
           /\ terminal[id] \in Terminals /\ terminal[id].decision \in Final \ {"declined"}
           /\ deferred[id] # NoCause => deferred[id] \in Causes /\ terminal[id].source = "surface"
           /\ terminal[id].source = "cancel" => ~terminal[id].requeue
           /\ acked[id] \cup {terminal[id].decision} = {terminal[id].decision}
<1>1. Good(id) /\ terminal \in [Ids -> Terminals] /\ deferred \in [Ids -> Causes \cup {NoCause}]
  BY DEF IInv, TypeOK
<1>2. terminal[id] \in Terminals /\ deferred[id] \in Causes \cup {NoCause}
  BY <1>1
<1> QED BY <1>1, <1>2 DEF Good, TerminalOK, DeferredOK, OutcomeOK

\* commitTerminal when afterResolved succeeds.
LEMMA CommitSucceedsStep ==
    ASSUME IInv, NEW id \in Ids, CommitSucceeds(id)
    PROVE  IInv'
<1> USE BrokerAssumption
<1>1. phase[id] = "resolving"
  BY DEF CommitSucceeds
<1> DEFINE out == terminal[id].decision
<1>2. out \in Final \ {"declined"} /\ acked[id] = {}
  BY <1>1, WhileResolving
<1>3. out # "rejected"
  BY <1>2 DEF Final, Unasked
<1>4. Withdrawn({id}) \in SUBSET Ids
  BY DEF IInv, TypeOK, Withdrawn
<1>5. acked' = [acked EXCEPT ![id] = IF out = "rejected" THEN {} ELSE {out}]
  <2>1. acked' = [acked EXCEPT ![id] = acked[id] \cup {out}]
    BY DEF CommitSucceeds
  <2>2. acked[id] \cup {out} = IF out = "rejected" THEN {} ELSE {out}
    BY <1>2, <1>3
  <2> QED BY <2>1, <2>2
<1>6. /\ outcome' = [outcome EXCEPT ![id] = out]
      /\ terminal' = [terminal EXCEPT ![id] = NoTerminal]
      /\ deferred' = [deferred EXCEPT ![id] = NoCause]
      /\ ShowHead(queue, Finished({id}), Withdrawn({id}))
      /\ UNCHANGED <<observed, cause, timer, listening, cancelled, swept>>
  BY DEF CommitSucceeds
<1> HIDE DEF out
<1>7. IInv /\ out \in Final \cup {"rejected"} /\ out # "declined"
  BY <1>2
<1> QED BY ONLY <1>1, <1>4, <1>5, <1>6, <1>7, CommitEnds

\* commitTerminal when afterResolved fails: a durable answer goes back to the
\* front of the queue, unless a cancel was accepted meanwhile.
LEMMA CommitFailsStep ==
    ASSUME IInv, NEW id \in Ids, CommitFails(id)
    PROVE  IInv'
<1> USE BrokerAssumption
<1>0. /\ TypeOK /\ observed \in BOOLEAN /\ phase \in [Ids -> Phases] /\ Good(id) /\ queue \in Seq(Ids)
      /\ IsOnce(queue) /\ Range(queue) = Waiting(phase) /\ told \in SUBSET Ids
      /\ timer \in [Ids -> BOOLEAN] /\ outcome \in [Ids -> Final \cup {"open", "rejected"}]
  BY DEF IInv, TypeOK, QueueHoldsWaiting
<1>1. /\ phase[id] = "resolving" /\ deferred' = [deferred EXCEPT ![id] = NoCause]
      /\ UNCHANGED <<observed, cause, listening, acked, cancelled, swept>>
  BY DEF CommitFails
<1>2. /\ observed /\ outcome[id] = "open" /\ acked[id] = {}
      /\ deferred[id] # NoCause => deferred[id] \in Causes /\ terminal[id].source = "surface"
      /\ terminal[id].source = "cancel" => ~terminal[id].requeue
  BY <1>1, WhileResolving
<1>3. NoTerminal \in Terminals
  BY DEF NoTerminal, Terminals, Terminal
<1>4. CASE /\ deferred[id] # NoCause
           /\ terminal' = [terminal EXCEPT ![id] = Terminal(deferred[id], "cancel", FALSE)]
           /\ UNCHANGED <<phase, queue, told, timer, outcome>>
  <2> DEFINE t == Terminal(deferred[id], "cancel", FALSE)
  <2>1. t \in Terminals /\ t.decision = deferred[id] /\ t.source = "cancel" /\ t.requeue = FALSE
    BY <1>2, <1>4 DEF Terminal, Terminals, Final
  <2>2. terminal' = [terminal EXCEPT ![id] = t] /\ UNCHANGED <<phase, queue, told, timer, outcome>>
    BY <1>4
  <2>3. t.decision \in Final \ {"declined"}
    BY <1>2, <1>4, <2>1 DEF Final
  <2> HIDE DEF t
  <2>4. TypeOK'
    BY <1>0, <1>1, <2>1, <2>2 DEF TypeOK
  <2>5. QueueHoldsWaiting' /\ HeadAttended' /\ NobodyWaitsAlone' /\ DialogsMatch'
    BY <1>1, <2>2 DEF IInv, QueueHoldsWaiting, HeadAttended, NobodyWaitsAlone, DialogsMatch
  <2>6. Good(id)'
    <3>1. terminal'[id] = t /\ deferred'[id] = NoCause
      BY <1>0, <1>1, <2>2 DEF TypeOK
    <3>2. TerminalOK(id)'
      BY <1>1, <1>2, <2>1, <2>2, <2>3, <3>1 DEF TerminalOK
    <3> QED BY <1>0, <1>1, <1>2, <2>1, <2>2, <3>1, <3>2 DEF Good, DeferredOK, CancelOK, OutcomeOK, PhaseOK
  <2>7. ASSUME NEW x \in Ids, x # id PROVE Good(x)'
    <3>1. terminal'[x] = terminal[x] /\ deferred'[x] = deferred[x]
      BY <1>0, <1>1, <2>2, <2>7 DEF TypeOK
    <3> QED BY <1>1, <2>2, <3>1, OthersGood DEF IInv
  <2> QED BY <2>4, <2>5, <2>6, <2>7 DEF IInv
<1>5. CASE /\ deferred[id] = NoCause /\ terminal[id].requeue
           /\ terminal' = [terminal EXCEPT ![id] = NoTerminal]
           /\ timer' = [timer EXCEPT ![id] = TRUE]
           /\ ShowHead(<<id>> \o queue, [phase EXCEPT ![id] = "queued"], told)
           /\ UNCHANGED outcome
  <2> DEFINE ph == [phase EXCEPT ![id] = "queued"]  q == <<id>> \o queue
  <2>1. ph \in [Ids -> Phases] /\ ph[id] = "queued" /\ \A x \in Ids \ {id} : ph[x] = phase[x]
    BY <1>0 DEF Phases
  <2>2. Waiting(ph) = Waiting(phase) \cup {id} /\ id \notin Waiting(phase)
    BY <1>0, <1>1, <2>1 DEF Waiting
  <2>3. q \in Seq(Ids) /\ IsOnce(q) /\ Range(q) = Range(queue) \cup {id}
    BY <1>0, <2>2, OneMore
  <2>4. ShowHead(q, ph, told)
    BY <1>5
  <2> HIDE DEF ph, q
  <2>5. /\ queue' \in Seq(Ids) /\ IsOnce(queue') /\ Range(queue') = Waiting(phase')
        /\ Waiting(phase') = Waiting(ph) /\ HeadAttended'
        /\ phase' \in [Ids -> Phases] /\ told' \in SUBSET Ids
        /\ \A x \in Ids : ph[x] # "queued" => phase'[x] = ph[x]
        /\ \A x \in Ids : ph[x] = "queued" => phase'[x] \in {"queued", "showing"}
    <3>1. Range(q) = Waiting(ph)
      BY <1>0, <2>2, <2>3
    <3> QED BY ONLY <1>0, <2>1, <2>3, <2>4, <3>1, ShowStep
  <2>6. timer' \in [Ids -> BOOLEAN] /\ timer'[id] = TRUE /\ \A x \in Ids \ {id} : timer'[x] = timer[x]
    BY <1>0, <1>5
  <2>7. TypeOK'
    BY <1>0, <1>1, <1>3, <1>5, <2>5, <2>6 DEF TypeOK
  <2>8. QueueHoldsWaiting'
    <3>1. \A x \in Waiting(ph) : x = id \/ (x \in Waiting(phase) /\ x \in Ids \ {id})
      BY <2>2 DEF Waiting
    <3>2. \A x \in Waiting(phase') : timer'[x]
      BY <2>5, <2>6, <3>1 DEF IInv, QueueHoldsWaiting
    <3> QED BY <2>5, <3>2 DEF QueueHoldsWaiting
  <2>9. Good(id)'
    <3>1. id \notin cancelled
      BY <1>0, <1>1, <1>2, <1>5 DEF Good, CancelOK
    <3>2. terminal'[id] = NoTerminal /\ deferred'[id] = NoCause /\ phase'[id] \in {"queued", "showing"}
      BY <1>0, <1>1, <1>5, <2>1, <2>5 DEF TypeOK
    <3> QED BY <1>1, <1>2, <1>5, <3>1, <3>2 DEF Good, TerminalOK, DeferredOK, CancelOK, OutcomeOK, PhaseOK
  <2>10. ASSUME NEW x \in Ids, x # id PROVE Good(x)'
    <3>1. terminal'[x] = terminal[x] /\ deferred'[x] = deferred[x] /\ ph[x] = phase[x]
      BY <1>0, <1>1, <1>5, <2>1, <2>10 DEF TypeOK
    <3> QED BY <1>1, <1>5, <2>5, <3>1, OthersGood DEF IInv
  <2>11. NobodyWaitsAlone' /\ DialogsMatch'
    BY <1>1, <1>2 DEF NobodyWaitsAlone, DialogsMatch
  <2> QED BY <2>5, <2>7, <2>8, <2>9, <2>10, <2>11 DEF IInv
<1>6. CASE /\ deferred[id] = NoCause /\ ~terminal[id].requeue
           /\ terminal' = [terminal EXCEPT ![id] = NoTerminal]
           /\ outcome' = [outcome EXCEPT ![id] = "rejected"]
           /\ ShowHead(queue, Finished({id}), told)
           /\ UNCHANGED timer
  <2> DEFINE out == "rejected"
  <2>1. acked' = [acked EXCEPT ![id] = IF out = "rejected" THEN {} ELSE {out}]
    <3>1. acked' = acked /\ acked \in [Ids -> SUBSET Final]
      BY <1>0, <1>1 DEF TypeOK
    <3> QED BY <1>2, <3>1
  <2>2. out \in Final \cup {"rejected"} /\ out # "declined" /\ outcome' = [outcome EXCEPT ![id] = out]
    BY <1>6
  <2>3. IInv /\ UNCHANGED <<observed, cause, timer, listening, cancelled, swept>>
    BY <1>1, <1>6
  <2> HIDE DEF out
  <2> QED BY ONLY <1>0, <1>1, <1>6, <2>1, <2>2, <2>3, CommitEnds
<1> QED BY <1>4, <1>5, <1>6 DEF CommitFails

-----------------------------------------------------------------------------
(* Cancelling. *)

\* A queue that holds nobody is empty.
LEMMA NobodyInQueue ==
    ASSUME NEW q \in Seq(Ids), Range(q) = {}
    PROVE  q = <<>>
<1>1. DOMAIN q = 1 .. Len(q) /\ Len(q) \in Nat
  OBVIOUS
<1>2. \A i \in DOMAIN q : q[i] \in Range(q)
  BY DEF Range
<1>3. Len(q) = 0
  <2>1. ~ (1 \in DOMAIN q)
    BY <1>2
  <2> QED BY <1>1, <2>1
<1> QED BY <1>3

\* The requests a cancel settles at once are the waiting ones.
LEMMA FreshWaits ==
    ASSUME IInv, NEW S \in SUBSET Ids
    PROVE  /\ Fresh(S) = S \cap Waiting(phase) /\ Fresh(S) \in SUBSET Ids
           /\ \A x \in Deciding(S) : x \in Ids /\ phase[x] = "resolving" /\ terminal[x].source = "surface"
           /\ \A x \in S : phase[x] = "resolving" /\ terminal[x].source = "surface" => x \in Deciding(S)
<1>1. NoTerminal.source = "none" /\ NoTerminal.decision = "open"
  BY DEF NoTerminal, Terminal
<1>2. \A x \in Ids : Good(x)
  BY DEF IInv
<1>3. ASSUME NEW x \in S PROVE x \in Fresh(S) <=> x \in Waiting(phase)
  <2>1. TerminalOK(x)
    BY <1>2 DEF Good
  <2> QED BY <1>1, <2>1 DEF Fresh, Waiting, Pending, TerminalOK
<1>4. Fresh(S) \subseteq S
  BY DEF Fresh
<1>5. ASSUME NEW x \in Deciding(S)
      PROVE  x \in Ids /\ phase[x] = "resolving" /\ terminal[x].source = "surface"
  <2>1. x \in Ids /\ x \in Pending /\ terminal[x].source = "surface"
    BY DEF Deciding
  <2>2. TerminalOK(x)
    BY <1>2, <2>1 DEF Good
  <2> QED BY <1>1, <2>1, <2>2 DEF Pending, TerminalOK
<1>6. \A x \in S : phase[x] = "resolving" /\ terminal[x].source = "surface" => x \in Deciding(S)
  BY DEF Deciding, Pending
<1> QED BY <1>3, <1>4, <1>5, <1>6

\* With an observer: the waiting requests of S are being settled, a decision of
\* a surface that is being recorded keeps the cancel.
LEMMA CancelObserved ==
    ASSUME IInv, NEW S \in SUBSET Ids, NEW c \in Causes, CancelEach(S, c), observed,
           listening' \in BOOLEAN, swept' \in SUBSET Ids
    PROVE  IInv'
<1> USE BrokerAssumption
<1>0. /\ TypeOK /\ phase \in [Ids -> Phases] /\ queue \in Seq(Ids)
      /\ timer \in [Ids -> BOOLEAN] /\ \A x \in Ids : Good(x)
  BY DEF IInv, TypeOK
<1> DEFINE F == Fresh(S)  t == Terminal(c, "cancel", FALSE)
<1>1. /\ F = S \cap Waiting(phase) /\ F \in SUBSET Ids
      /\ \A x \in Deciding(S) : x \in Ids /\ phase[x] = "resolving" /\ terminal[x].source = "surface"
      /\ \A x \in S : phase[x] = "resolving" /\ terminal[x].source = "surface" => x \in Deciding(S)
  BY FreshWaits
<1>2. t \in Terminals /\ t.decision = c /\ t.source = "cancel" /\ t.requeue = FALSE
  BY DEF Terminal, Terminals, Final
<1>3. /\ cause' = [id \in Ids |-> IF id \in S \cap Admitting /\ cause[id] = NoCause THEN c ELSE cause[id]]
      /\ timer' = [id \in Ids |-> timer[id] /\ id \notin F]
      /\ phase' = [id \in Ids |-> IF id \in F THEN "resolving" ELSE phase[id]]
      /\ queue' = Without(queue, S)
      /\ terminal' = [id \in Ids |-> IF id \in F THEN t ELSE terminal[id]]
      /\ deferred' = [id \in Ids |-> IF id \in Deciding(S) /\ deferred[id] = NoCause THEN c ELSE deferred[id]]
      /\ cancelled' = cancelled \cup {id \in S : Accepts(id, c)}
      /\ UNCHANGED <<outcome, told, observed, acked>>
  BY DEF CancelEach
<1> HIDE DEF F, t
<1>4. /\ phase' \in [Ids -> Phases] /\ \A x \in Ids : phase'[x] = IF x \in F THEN "resolving" ELSE phase[x]
  BY <1>0, <1>3 DEF Phases
<1>5. /\ Waiting(phase') = Waiting(phase) \ F
      /\ queue' \in Seq(Ids) /\ IsOnce(queue') /\ Range(queue') = Waiting(phase')
      /\ F = {} => queue' = queue /\ phase' = phase
  <2>1. Moved(phase', S, "resolving")
    BY <1>1, <1>4 DEF Moved
  <2>2. /\ Waiting(phase') = Waiting(phase) \ S
        /\ Without(queue, S) \in Seq(Ids) /\ IsOnce(Without(queue, S))
        /\ Range(Without(queue, S)) = Waiting(phase')
        /\ S \cap Waiting(phase) = {} => Without(queue, S) = queue /\ phase' = phase
    BY <2>1, Leaving
  <2> QED BY <1>1, <1>3, <2>2
<1>6. timer' \in [Ids -> BOOLEAN]
  BY <1>0, <1>3
<1>7. TypeOK'
  <2>1. cause' \in [Ids -> Causes \cup {NoCause}] /\ deferred' \in [Ids -> Causes \cup {NoCause}]
    BY <1>0, <1>3 DEF TypeOK
  <2>2. terminal' \in [Ids -> Terminals]
    BY <1>0, <1>2, <1>3 DEF TypeOK
  <2>3. cancelled' \subseteq Ids
    BY <1>0, <1>3 DEF TypeOK
  <2> QED BY <1>0, <1>3, <1>4, <1>5, <1>6, <2>1, <2>2, <2>3 DEF TypeOK
<1>8. QueueHoldsWaiting'
  <2>1. \A x \in Waiting(phase') : x \in Ids /\ x \in Waiting(phase) /\ x \notin F
    BY <1>5 DEF Waiting
  <2>2. \A x \in Waiting(phase') : timer'[x]
    BY <1>3, <2>1 DEF IInv, QueueHoldsWaiting
  <2> QED BY <1>5, <2>2 DEF QueueHoldsWaiting
<1>9. HeadAttended'
  <2>1. CASE F = {}
    BY <1>5, <2>1 DEF IInv, HeadAttended
  <2>2. CASE F # {}
    BY <1>1, <1>4, <2>2 DEF HeadAttended
  <2> QED BY <2>1, <2>2
<1>10. ASSUME NEW x \in Ids PROVE Good(x)'
  <2>0. TerminalOK(x) /\ DeferredOK(x) /\ CancelOK(x) /\ OutcomeOK(x)
    BY <1>0 DEF Good
  <2>1. cause[x] \in Causes \cup {NoCause} /\ c # NoCause /\ c \notin {"auto", "expired", "backpressure"}
    BY <1>0 DEF TypeOK
  <2>2. /\ cause'[x] = (IF x \in S \cap Admitting /\ cause[x] = NoCause THEN c ELSE cause[x])
        /\ terminal'[x] = (IF x \in F THEN t ELSE terminal[x])
        /\ deferred'[x] = (IF x \in Deciding(S) /\ deferred[x] = NoCause THEN c ELSE deferred[x])
        /\ outcome'[x] = outcome[x] /\ acked'[x] = acked[x] /\ observed' = observed
    BY <1>3
  <2>3. NoTerminal.source = "none"
    BY DEF NoTerminal, Terminal
  <2>4. OutcomeOK(x)' /\ PhaseOK(x)'
    BY <1>1, <1>4, <2>0, <2>2 DEF OutcomeOK, PhaseOK, Waiting
  <2>5. CASE x \in F
    <3>1. phase'[x] = "resolving" /\ terminal'[x] = t
      BY <1>4, <2>2, <2>5
    <3>2. phase[x] \in {"queued", "showing"}
      BY <1>1, <2>5 DEF Waiting
    <3>3. deferred'[x] = NoCause
      BY <1>1, <2>0, <2>2, <3>2 DEF DeferredOK
    <3>4. c \in Final \ {"declined"}
      BY DEF Final
    <3>5. TerminalOK(x)'
      BY <1>2, <2>2, <3>1, <3>4 DEF TerminalOK
    <3>6. DeferredOK(x)' /\ CancelOK(x)'
      BY <1>2, <3>1, <3>3 DEF DeferredOK, CancelOK
    <3> QED BY <2>4, <3>5, <3>6 DEF Good
  <2>6. CASE x \notin F
    <3>1. phase'[x] = phase[x] /\ terminal'[x] = terminal[x]
      BY <1>4, <2>2, <2>6
    <3>2. TerminalOK(x)'
      BY <2>0, <2>2, <3>1 DEF TerminalOK
    <3>3. DeferredOK(x)'
      BY <1>1, <2>0, <2>2, <3>1 DEF DeferredOK
    <3>4. CancelOK(x)'
      <4>1. CASE x \in cancelled
        BY <1>1, <2>0, <2>1, <2>2, <3>1, <4>1 DEF CancelOK
      <4>2. CASE x \in S /\ Accepts(x, c)
        <5>1. CASE x \in Admitting
          BY <2>1, <2>2, <3>1, <4>2, <5>1 DEF CancelOK, Admitting
        <5>2. CASE x \notin Admitting
          <6>1. phase[x] \notin {"queued", "showing"}
            BY <1>1, <2>6, <4>2 DEF Waiting
          <6>2. phase[x] = "resolving" /\ (terminal[x].source = "surface" \/ terminal[x].decision = c)
            BY <4>2, <5>2, <6>1 DEF Accepts
          <6>3. terminal[x].source \in {"surface", "cancel"}
            <7>1. terminal[x].source \in {"none", "surface", "non-interactive", "cancel", "expired", "backpressure"}
              BY <1>0 DEF TypeOK, Terminals
            <7> QED BY <2>0, <2>1, <6>2, <7>1 DEF TerminalOK
          <6>4. terminal[x].source = "surface" => deferred'[x] # NoCause
            BY <1>1, <2>1, <2>2, <4>2, <6>2
          <6> QED BY <3>1, <6>2, <6>3, <6>4 DEF CancelOK
        <5> QED BY <5>1, <5>2
      <4>3. CASE x \notin cancelled'
        BY <4>3 DEF CancelOK
      <4> QED BY <1>3, <4>1, <4>2, <4>3
    <3> QED BY <2>4, <3>2, <3>3, <3>4 DEF Good
  <2> QED BY <2>5, <2>6
<1>11. NobodyWaitsAlone' /\ DialogsMatch'
  BY <1>3 DEF NobodyWaitsAlone, DialogsMatch
<1> QED BY <1>7, <1>8, <1>9, <1>10, <1>11 DEF IInv

\* Without one they settle at once, and the next request is shown.
LEMMA CancelUnobserved ==
    ASSUME IInv, NEW S \in SUBSET Ids, NEW c \in Causes, CancelEach(S, c), ~observed,
           listening' = listening \/ (listening' = FALSE /\ S = InHand), swept' \in SUBSET Ids
    PROVE  IInv'
<1> USE BrokerAssumption
<1>0. /\ TypeOK /\ phase \in [Ids -> Phases] /\ queue \in Seq(Ids) /\ listening \in BOOLEAN
      /\ told \in SUBSET Ids /\ timer \in [Ids -> BOOLEAN] /\ \A x \in Ids : Good(x)
      /\ Range(queue) = Waiting(phase)
  BY DEF IInv, TypeOK, QueueHoldsWaiting
<1> DEFINE F == Fresh(S)  ph == Finished(F)  q == Without(queue, S)
<1>1. F = S \cap Waiting(phase) /\ F \in SUBSET Ids
  BY FreshWaits
<1>2. /\ cause' = [id \in Ids |-> IF id \in S \cap Admitting /\ cause[id] = NoCause THEN c ELSE cause[id]]
      /\ timer' = [id \in Ids |-> timer[id] /\ id \notin F]
      /\ ShowHead(q, ph, Withdrawn(F))
      /\ outcome' = [id \in Ids |-> IF id \in F THEN c ELSE outcome[id]]
      /\ cancelled' = cancelled \cup {id \in S : Accepts(id, c)}
      /\ UNCHANGED <<terminal, deferred, observed, acked>>
  BY DEF CancelEach
<1>3. ph \in [Ids -> Phases] /\ \A x \in Ids : ph[x] = IF x \in F THEN "done" ELSE phase[x]
  BY <1>0 DEF Finished, Phases
<1> HIDE DEF F, ph, q
<1>4. /\ Waiting(ph) = Waiting(phase) \ F
      /\ q \in Seq(Ids) /\ IsOnce(q) /\ Range(q) = Waiting(ph)
      /\ Shown(ph) = Shown(phase) \ F
  <2>1. Moved(ph, S, "done")
    BY <1>1, <1>3 DEF Moved
  <2>2. /\ Waiting(ph) = Waiting(phase) \ S
        /\ Without(queue, S) \in Seq(Ids) /\ IsOnce(Without(queue, S))
        /\ Range(Without(queue, S)) = Waiting(ph)
        /\ Shown(ph) = Shown(phase) \ S
    BY <2>1, Leaving
  <2>3. Shown(phase) \subseteq Waiting(phase)
    BY DEF Shown, Waiting
  <2> QED BY <1>1, <2>2, <2>3 DEF q
<1>5. Withdrawn(F) \in SUBSET Ids
  BY <1>0 DEF Withdrawn
<1>6. /\ queue' \in Seq(Ids) /\ IsOnce(queue') /\ Range(queue') = Waiting(phase')
      /\ Waiting(phase') = Waiting(ph) /\ HeadAttended' /\ queue' = q
      /\ phase' \in [Ids -> Phases] /\ told' \in SUBSET Ids
      /\ \A x \in Ids : ph[x] # "queued" => phase'[x] = ph[x]
      /\ \A x \in Ids : ph[x] = "queued" => phase'[x] \in {"queued", "showing"}
      /\ listening /\ Withdrawn(F) = Shown(ph) => told' = Shown(phase')
      /\ q = <<>> => told' = Withdrawn(F)
  BY ONLY <1>2, <1>3, <1>4, <1>5, ShowStep
<1>7. timer' \in [Ids -> BOOLEAN]
  BY <1>0, <1>2
<1>8. TypeOK'
  <2>1. cause' \in [Ids -> Causes \cup {NoCause}]
    BY <1>0, <1>2 DEF TypeOK
  <2>2. outcome' \in [Ids -> Final \cup {"open", "rejected"}]
    BY <1>0, <1>2 DEF TypeOK, Final
  <2>3. cancelled' \subseteq Ids
    BY <1>0, <1>2 DEF TypeOK
  <2> QED BY <1>0, <1>2, <1>6, <1>7, <2>1, <2>2, <2>3 DEF TypeOK
<1>9. QueueHoldsWaiting'
  <2>1. \A x \in Waiting(phase') : x \in Ids /\ x \in Waiting(phase) /\ x \notin F
    BY <1>4, <1>6 DEF Waiting
  <2>2. \A x \in Waiting(phase') : timer'[x]
    BY <1>2, <2>1 DEF IInv, QueueHoldsWaiting
  <2> QED BY <1>6, <2>2 DEF QueueHoldsWaiting
<1>10. ASSUME NEW x \in Ids PROVE Good(x)'
  <2>0. TerminalOK(x) /\ DeferredOK(x) /\ CancelOK(x) /\ OutcomeOK(x) /\ PhaseOK(x)
    BY <1>0 DEF Good
  <2>1. /\ terminal'[x] = terminal[x] /\ deferred'[x] = deferred[x] /\ acked'[x] = acked[x]
        /\ observed' = observed /\ outcome'[x] = (IF x \in F THEN c ELSE outcome[x])
    BY <1>2
  <2>2. phase[x] \in {"none", "queued", "showing", "done"}
    BY <2>0 DEF PhaseOK
  <2>3. x \in F => phase'[x] = "done" /\ phase[x] \in {"queued", "showing"}
    BY <1>1, <1>3, <1>6 DEF Waiting
  <2>4. x \notin F => /\ phase[x] # "queued" => phase'[x] = phase[x]
                      /\ phase[x] = "queued" => phase'[x] \in {"queued", "showing"}
    BY <1>3, <1>6
  <2>5. TerminalOK(x)' /\ DeferredOK(x)' /\ PhaseOK(x)'
    BY <2>0, <2>1, <2>2, <2>3, <2>4 DEF TerminalOK, DeferredOK, PhaseOK
  <2>6. OutcomeOK(x)'
    BY <2>0, <2>1, <2>2, <2>3, <2>4 DEF OutcomeOK
  <2>7. CancelOK(x)'
    <3>1. CASE x \in F
      BY <2>3, <3>1 DEF CancelOK
    <3>2. CASE x \notin F /\ x \in cancelled
      BY <2>0, <2>2, <2>4, <3>2 DEF CancelOK
    <3>3. CASE x \in S /\ Accepts(x, c)
      <4>1. phase[x] \in {"queued", "showing"}
        BY <2>2, <3>3 DEF Accepts, Admitting
      <4> QED BY <1>1, <2>3, <3>1, <4>1, <3>3 DEF Waiting
    <3>4. CASE x \notin cancelled'
      BY <3>4 DEF CancelOK
    <3> QED BY <1>2, <3>1, <3>2, <3>3, <3>4
  <2> QED BY <2>5, <2>6, <2>7 DEF Good
<1>11. ~listening => queue = <<>> /\ Waiting(phase) = {} /\ q = <<>> /\ F = {}
  <2>1. SUFFICES ASSUME ~listening PROVE queue = <<>> /\ Waiting(phase) = {} /\ q = <<>> /\ F = {}
    OBVIOUS
  <2>2. queue = <<>>
    BY <2>1 DEF IInv, NobodyWaitsAlone
  <2>3. Range(<<>>) = {}
    BY DEF Range
  <2>4. Waiting(phase) = {} /\ F = {}
    BY <1>0, <1>1, <2>2, <2>3
  <2>5. q = <<>>
    BY <1>4, <2>4, NobodyInQueue
  <2> QED BY <2>2, <2>4, <2>5
<1>12. NobodyWaitsAlone'
  <2>1. CASE listening /\ listening' = FALSE
    <3>1. S = InHand
      BY <2>1
    <3>2. Waiting(phase) \subseteq S
      BY <3>1 DEF InHand, Pending, Waiting
    <3>3. q = <<>>
      BY <1>1, <1>4, <3>2, NobodyInQueue
    <3> QED BY <1>6, <3>3 DEF NobodyWaitsAlone
  <2>2. CASE listening' = listening
    BY <1>6, <1>11, <2>2 DEF NobodyWaitsAlone
  <2> QED BY <2>1, <2>2, <1>0
<1>13. DialogsMatch'
  <2>1. told = Shown(phase)
    BY DEF IInv, DialogsMatch, Shown
  <2>2. CASE listening
    <3>1. Withdrawn(F) = Shown(ph)
      BY <1>4, <2>1, <2>2 DEF Withdrawn
    <3> QED BY <1>6, <2>2, <3>1 DEF DialogsMatch, Shown
  <2>3. CASE ~listening
    <3>1. told' = told /\ Waiting(phase') = {}
      BY <1>4, <1>6, <1>11, <2>3 DEF Withdrawn
    <3>2. Shown(phase') = {} /\ Shown(phase) = {}
      BY <1>11, <2>3, <3>1 DEF Waiting, Shown
    <3> QED BY <2>1, <3>1, <3>2 DEF DialogsMatch, Shown
  <2> QED BY <2>2, <2>3
<1> QED BY <1>6, <1>8, <1>9, <1>10, <1>12, <1>13 DEF IInv

-----------------------------------------------------------------------------
(* Admission. *)

\* A request is being admitted, by its observer.
LEMMA RequestStep ==
    ASSUME IInv, NEW id \in Ids, RequestConfirmation(id)
    PROVE  IInv'
<1>0. TypeOK /\ Good(id) /\ observed \in BOOLEAN /\ phase \in [Ids -> Phases] /\ phase[id] = "none"
  BY DEF IInv, TypeOK, RequestConfirmation
<1>1. CASE ~observed /\ Enter(id, FALSE)
  <2>1. id \notin cancelled
    BY <1>0 DEF Good, CancelOK
  <2> QED BY <1>0, <1>1, <2>1, EnterStep
<1>2. CASE observed /\ phase' = [phase EXCEPT ![id] = "admitting"]
           /\ UNCHANGED <<observed, queue, cause, terminal, deferred, timer, outcome,
                          listening, told, acked, cancelled, swept>>
  <2>1. phase'[id] = "admitting"
    BY <1>0, <1>2
  <2>2. Good(id)'
    BY <1>0, <1>2, <2>1 DEF Good, TerminalOK, DeferredOK, CancelOK, OutcomeOK, PhaseOK
  <2> QED BY <1>0, <1>2, <2>2, ElsewhereStep DEF TypeOK
<1> QED BY <1>1, <1>2 DEF RequestConfirmation

\* An admitted request enters, unless it was cancelled meanwhile.
LEMMA AcceptedStep ==
    ASSUME IInv, NEW id \in Ids, NEW durable \in BOOLEAN, AdmissionAccepted(id, durable)
    PROVE  IInv'
<1> USE BrokerAssumption
<1>0. TypeOK /\ Good(id) /\ phase[id] = "admitting" /\ observed = TRUE
  BY DEF IInv, TypeOK, AdmissionAccepted, Good, PhaseOK
<1>1. CASE cause[id] = NoCause /\ Enter(id, durable)
  <2>1. id \notin cancelled
    BY <1>0, <1>1 DEF Good, CancelOK
  <2> QED BY <1>0, <1>1, <2>1, EnterStep
<1>2. CASE /\ cause[id] # NoCause
           /\ EndOutside(id, Terminal(cause[id], "cancel", FALSE))
           /\ UNCHANGED <<observed, cause, deferred, listening, acked, cancelled, swept>>
  <2>1. cause[id] \in Final \ {"declined"}
    BY <1>0, <1>2 DEF TypeOK, Final
  <2> QED BY <1>0, <1>2, <2>1, EndOutsideStep
<1> QED BY <1>1, <1>2 DEF AdmissionAccepted

\* beforeRequest declines, or throws.
LEMMA RefusedStep ==
    ASSUME IInv, NEW id \in Ids, NEW how \in {"declined", "rejected"}, AdmissionRefused(id, how)
    PROVE  IInv'
<1>0. TypeOK /\ Good(id) /\ phase \in [Ids -> Phases] /\ phase[id] = "admitting"
  BY DEF IInv, TypeOK, AdmissionRefused
<1>1. /\ phase' = [phase EXCEPT ![id] = "done"] /\ outcome' = [outcome EXCEPT ![id] = how]
      /\ told' \in {told, Withdrawn({id})}
      /\ UNCHANGED <<observed, queue, cause, terminal, deferred, timer, listening, acked, cancelled, swept>>
  BY <1>0 DEF AdmissionRefused, Finished
<1>2. phase'[id] = "done" /\ outcome'[id] = how
  BY <1>0, <1>1 DEF TypeOK
<1>3. Good(id)'
  BY <1>0, <1>1, <1>2 DEF Good, TerminalOK, DeferredOK, CancelOK, OutcomeOK, PhaseOK
<1>4. /\ terminal' \in [Ids -> Terminals] /\ outcome' \in [Ids -> Final \cup {"open", "rejected"}]
      /\ acked' \in [Ids -> SUBSET Final]
      /\ \A x \in Ids \ {id} : /\ terminal'[x] = terminal[x] /\ outcome'[x] = outcome[x]
                               /\ acked'[x] = acked[x]
  BY <1>0, <1>1 DEF TypeOK, Final, Unasked
<1> QED BY <1>0, <1>1, <1>3, <1>4, ElsewhereStep

\* The settlement of a request that never entered the queue is recorded, or not.
LEMMA EndingStep ==
    ASSUME IInv, NEW id \in Ids, NEW ok \in BOOLEAN, EndingReturns(id, ok)
    PROVE  IInv'
<1> USE BrokerAssumption
<1>0. /\ TypeOK /\ Good(id) /\ phase \in [Ids -> Phases] /\ phase[id] = "ending"
      /\ terminal \in [Ids -> Terminals] /\ acked \in [Ids -> SUBSET Final]
      /\ outcome \in [Ids -> Final \cup {"open", "rejected"}]
  BY DEF IInv, TypeOK, EndingReturns
<1> DEFINE d == terminal[id].decision
<1>1. d \in Final \ {"declined"} /\ observed /\ acked[id] = {} /\ deferred[id] = NoCause
  BY <1>0 DEF Good, TerminalOK, OutcomeOK, DeferredOK
<1>2. d \notin {"open", "rejected", "declined"}
  BY <1>1 DEF Final, Unasked
<1>3. /\ phase' = [phase EXCEPT ![id] = "done"]
      /\ outcome' = [outcome EXCEPT ![id] = IF ok THEN d ELSE "rejected"]
      /\ acked' = [acked EXCEPT ![id] = IF ok THEN acked[id] \cup {d} ELSE acked[id]]
      /\ told' \in {told, Withdrawn({id})}
      /\ terminal' = [terminal EXCEPT ![id] = NoTerminal]
      /\ UNCHANGED <<observed, queue, cause, deferred, timer, listening, cancelled, swept>>
  BY <1>0 DEF EndingReturns, Finished
<1> HIDE DEF d
<1>4. NoTerminal \in Terminals
  BY DEF NoTerminal, Terminals, Terminal
<1>5. /\ phase'[id] = "done" /\ outcome'[id] = (IF ok THEN d ELSE "rejected") /\ terminal'[id] = NoTerminal
      /\ acked'[id] = IF ok THEN {d} ELSE {}
  BY <1>0, <1>1, <1>3
<1>6. Good(id)'
  BY <1>1, <1>2, <1>3, <1>5 DEF Good, TerminalOK, DeferredOK, CancelOK, OutcomeOK, PhaseOK
<1>7. /\ terminal' \in [Ids -> Terminals] /\ outcome' \in [Ids -> Final \cup {"open", "rejected"}]
      /\ \A x \in Ids \ {id} : /\ terminal'[x] = terminal[x] /\ outcome'[x] = outcome[x]
                               /\ acked'[x] = acked[x]
  BY <1>0, <1>1, <1>3, <1>4
<1>8. acked' \in [Ids -> SUBSET Final]
  <2>1. (IF ok THEN acked[id] \cup {d} ELSE acked[id]) \in SUBSET Final
    BY <1>1
  <2> QED BY <1>0, <1>3, <2>1
<1> QED BY <1>0, <1>3, <1>6, <1>7, <1>8, ElsewhereStep

-----------------------------------------------------------------------------
(* The theorems. *)

\* A new broker has no requests.
LEMMA InvInit == Init => IInv
<1> SUFFICES ASSUME Init PROVE IInv
  OBVIOUS
<1> USE DEF Init
<1>1. NoTerminal \in Terminals
  BY DEF NoTerminal, Terminals, Terminal
<1>2. TypeOK
  BY <1>1 DEF TypeOK, Phases
<1>3. Waiting(phase) = {} /\ Shown(phase) = {} /\ Range(<<>>) = {} /\ IsOnce(<<>>)
  BY DEF Waiting, Shown, Range, IsOnce
<1>4. QueueHoldsWaiting /\ HeadAttended /\ NobodyWaitsAlone
  BY <1>3 DEF QueueHoldsWaiting, HeadAttended, NobodyWaitsAlone
<1>5. DialogsMatch
  BY <1>3 DEF DialogsMatch, Shown
<1>6. \A id \in Ids : Good(id)
  BY DEF Good, TerminalOK, DeferredOK, CancelOK, OutcomeOK, PhaseOK
<1> QED BY <1>2, <1>4, <1>5, <1>6 DEF IInv

\* Every step keeps the invariant.
LEMMA InvStep == IInv /\ [Next]_vars => IInv'
<1> SUFFICES ASSUME IInv, [Next]_vars PROVE IInv'
  OBVIOUS
<1> USE BrokerAssumption
<1>0. "auto" \in Final \ {"declined"} /\ "expired" \in Final \ {"declined"} /\ Decisions \subseteq Final \ {"declined"}
  BY DEF Final, Unasked
<1>1. ASSUME NEW id \in Ids, RequestConfirmation(id) PROVE IInv'
  BY <1>1, RequestStep
<1>2. ASSUME NEW id \in Ids, NEW durable \in BOOLEAN, AdmissionAccepted(id, durable) PROVE IInv'
  BY <1>2, AcceptedStep
<1>3. ASSUME NEW id \in Ids, NEW how \in {"declined", "rejected"}, AdmissionRefused(id, how) PROVE IInv'
  BY <1>3, RefusedStep
<1>4. ASSUME NEW id \in Ids, NEW ok \in BOOLEAN, EndingReturns(id, ok) PROVE IInv'
  BY <1>4, EndingStep
<1>5. ASSUME NEW id \in Ids, NEW d \in Decisions, Resolve(id, d) PROVE IInv'
  BY <1>0, <1>5, SettleStep DEF Resolve
<1>6. ASSUME NEW id \in Ids, NEW d \in Decisions, ResolveDurably(id, d) PROVE IInv'
  BY <1>0, <1>6, SettleStep DEF ResolveDurably
<1>7. ASSUME NEW id \in Ids, ResolveNonInteractive(id) PROVE IInv'
  BY <1>0, <1>7, SettleStep DEF ResolveNonInteractive
<1>8. ASSUME NEW id \in Ids, Expire(id) PROVE IInv'
  BY <1>0, <1>8, SettleStep DEF Expire
<1>9. ASSUME NEW id \in Ids, CommitSucceeds(id) PROVE IInv'
  BY <1>9, CommitSucceedsStep
<1>10. ASSUME NEW id \in Ids, CommitFails(id) PROVE IInv'
  BY <1>10, CommitFailsStep
<1>11. InHand \in SUBSET Ids /\ listening \in BOOLEAN /\ swept \in SUBSET Ids
  BY DEF IInv, TypeOK, InHand, Pending, Admitting
<1>12. ASSUME NEW S \in SUBSET Ids, NEW c \in Causes, CancelEach(S, c),
              listening' = listening \/ (listening' = FALSE /\ S = InHand), swept' \in SUBSET Ids
       PROVE  IInv'
  <2>1. listening' \in BOOLEAN
    BY <1>11, <1>12
  <2> QED BY <1>12, <2>1, CancelObserved, CancelUnobserved
<1>13. ASSUME NEW id \in Ids, NEW c \in Causes, Cancel(id, c) PROVE IInv'
  BY <1>11, <1>12, <1>13 DEF Cancel
<1>14. ASSUME NEW c \in Causes, CancelAll(c) PROVE IInv'
  BY <1>11, <1>12, <1>14 DEF CancelAll
<1>15. ASSUME NEW c \in Causes, Detach(c) PROVE IInv'
  BY <1>11, <1>12, <1>15 DEF Detach
<1>16. ASSUME UNCHANGED <<observed, requests, told, acked, cancelled, swept>>, listening' \in BOOLEAN,
              listening' = listening \/ listening' = TRUE
       PROVE  IInv'
  <2>1. UNCHANGED <<observed, phase, queue, cause, terminal, deferred, timer, outcome, told, acked, cancelled, swept>>
    BY <1>16 DEF requests
  <2>2. TypeOK'
    BY <1>16, <2>1 DEF IInv, TypeOK
  <2>3. QueueHoldsWaiting' /\ HeadAttended' /\ NobodyWaitsAlone' /\ DialogsMatch'
    BY <1>16, <2>1 DEF IInv, QueueHoldsWaiting, HeadAttended, NobodyWaitsAlone, DialogsMatch
  <2>4. ASSUME NEW x \in Ids PROVE Good(x)'
    BY <2>1, OthersGood DEF IInv
  <2> QED BY <2>2, <2>3, <2>4 DEF IInv
<1>17. CASE Attach
  BY <1>16, <1>17 DEF Attach
<1>18. CASE UNCHANGED vars
  BY <1>11, <1>16, <1>18 DEF vars
<1> QED BY <1>1, <1>2, <1>3, <1>4, <1>5, <1>6, <1>7, <1>8, <1>9, <1>10, <1>13, <1>14, <1>15,
           <1>17, <1>18 DEF Next

\* The invariant holds of every behaviour of the broker.
LEMMA BrokerInv == Spec => []IInv
<1> QED BY InvInit, InvStep, PTL DEF Spec

\* Every variable of the broker keeps its type: in particular the queue holds
\* request ids only, and no promise settles with a value that is not a decision.
THEOREM BrokerTypes == Spec => []TypeOK
<1>1. IInv => TypeOK
  BY DEF IInv
<1> QED BY <1>1, BrokerInv, PTL

\* No request is forgotten: the queue holds the waiting requests, each once and
\* each with its timer armed, and its head is shown, or a settlement is under way
\* whose end shows it (showHead at the end of commitTerminal), for any number of
\* requests and any interleaving of answers, cancels, expiries and failed recordings.
THEOREM BrokerAttendsWaiters == Spec => []WaitersAttended
<1>1. ASSUME IInv PROVE WaitersAttended
  <2>1. queue \in Seq(Ids) /\ IsOnce(queue) /\ Range(queue) = Waiting(phase)
        /\ \A id \in Waiting(phase) : timer[id]
    BY <1>1 DEF IInv, TypeOK, QueueHoldsWaiting
  <2>2. Len(queue) = Cardinality(Range(queue))
    BY <2>1, OnceCounts
  <2>3. HeadAttended
    BY <1>1 DEF IInv
  <2> QED BY <2>1, <2>2, <2>3 DEF WaitersAttended, HeadAttended, Waiting
<1> QED BY <1>1, BrokerInv, PTL

\* The promise of requestConfirmation settles with the decision the observer made
\* durable, and the observer makes at most one durable: an answer, a cancel and the
\* expiry that meet while afterResolved is awaited do not both count.
THEOREM BrokerDecidesOnce == Spec => []OneDecision
<1>1. IInv => OneDecision
  BY DEF IInv, Good, OutcomeOK, OneDecision
<1> QED BY <1>1, BrokerInv, PTL

\* After cancel() returned true the request is never put in front of the user
\* again, also when the recording of a surface's answer fails afterwards and
\* commitTerminal would put the request back (deferredTerminal).
THEOREM BrokerHonoursCancel == Spec => []CancelledNeverShown
<1>1. ASSUME IInv PROVE CancelledNeverShown
  <2>1. \A id \in cancelled : id \in Ids
    BY <1>1 DEF IInv, TypeOK
  <2>2. \A id \in Ids : CancelOK(id)
    BY <1>1 DEF IInv, Good
  <2> QED BY <2>1, <2>2 DEF CancelledNeverShown, CancelOK
<1> QED BY <1>1, BrokerInv, PTL

\* Without an observer the dialogs the hub's clients have open are the requests
\* that are shown, at every moment and across attach and detach of the hub.
THEOREM BrokerDialogsMatch == Spec => []DialogsMatch
<1>1. IInv => DialogsMatch
  BY DEF IInv
<1> QED BY <1>1, BrokerInv, PTL
=============================================================================
