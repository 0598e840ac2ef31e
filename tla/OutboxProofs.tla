----------------------------- MODULE OutboxProofs ------------------------------
(***************************************************************************)
(* Theorems about Outbox and about DeliveryOrder, its composition with the *)
(* pipeline, for any number of entries, slots and priorities.              *)
(*                                                                         *)
(* Everything is said of one sequence, the line: what was sent followed by *)
(* what is queued.  A run of the drain moves entries within it from the    *)
(* queue to the adapter and leaves the line as it is; a submission puts    *)
(* one entry at one place of it (Placed).  Two facts make the order        *)
(* inductive: only a closed slot has a reply (FillsKnown), so a slot is    *)
(* filled once; and what was sent although its slot is open, or not even   *)
(* known, was released as broken (EarlyAreBroken), so a fill has to pass   *)
(* only waiters that are still queued.                                     *)
(***************************************************************************)
EXTENDS DeliveryOrder, WellFoundedInduction, TLAPS

Flying   == {inflight} \ {NoEntry}
Awaiting == Ids(pending) \cup Flying

\* _inflight is set exactly while a send is awaited, to the entry that was
\* shifted off the queue last.
InFlightOK ==
    /\ drain = "sending" <=> inflight # NoEntry
    /\ inflight # NoEntry => started # <<>> /\ started[Len(started)].id = inflight

IsOnce(q) == \A i, j \in DOMAIN q : q[i].id = q[j].id => i = j

FreshUnsettled == \A e \in Entries \ Submitted : result[e] = "unsettled"

\* Only a closed slot has a reply, and that reply was submitted.
FillsKnown ==
    \A s \in Slots : fills[s] # NoEntry =>
        fills[s] \in Submitted /\ slots[s] \notin {"none", "pending"}

\* What has left the queue although it names a slot that is still open, or not
\* yet opened, was released as causally broken.
EarlyAreBroken(st, br) ==
    \A s \in Slots : slots[s] \in {"none", "pending"} =>
        \A i \in DOMAIN st : st[i].after = s => st[i].id \in br

IInv ==
    /\ TypeOK /\ InFlightOK /\ IsOnce(Line) /\ FreshUnsettled
    /\ FillsKnown /\ EarlyAreBroken(started, broken)
    /\ NothingLost /\ SerialSends /\ ReplyBeforeWaiters /\ OvertakesOnlyByFill

-----------------------------------------------------------------------------
(* Sequences of entries. *)

\* A set of places has a first one.
LEMMA NatMin ==
    ASSUME NEW T \in SUBSET Nat, T # {}
    PROVE  \E n \in T : \A m \in T : n <= m
<1>1. IsWellFoundedOn({p \in Nat \X Nat : p[1] < p[2]}, Nat)
  BY NatLessThanWellFounded DEF OpToRel
<1>2. PICK n \in T : \A m \in T : ~ (<<m, n>> \in {p \in Nat \X Nat : p[1] < p[2]})
  BY <1>1, WFMin
<1>3. \A m \in T : ~ (m < n)
  BY <1>2
<1> QED BY <1>3

\* t is q with r put at place p.
Placed(q, t, p, r) ==
    /\ t \in Seq(Entry) /\ Len(t) = Len(q) + 1
    /\ p \in 1 .. Len(q) + 1
    /\ t[p] = r
    /\ \A i \in 1 .. p - 1 : t[i] = q[i]
    /\ \A i \in p .. Len(q) : t[i + 1] = q[i]

\* post() puts an entry at the end of the queue.
LEMMA AppendPlaces ==
    ASSUME NEW q \in Seq(Entry), NEW r \in Entry
    PROVE  Placed(q, Append(q, r), Len(q) + 1, r)
BY DEF Placed

\* splice(i, 0, entry) puts an entry at place i.
LEMMA InsertPlaces ==
    ASSUME NEW q \in Seq(Entry), NEW r \in Entry, NEW k \in 1 .. Len(q)
    PROVE  Placed(q, InsertAt(q, k, r), k, r)
<1> DEFINE a == SubSeq(q, 1, k - 1)  b == SubSeq(q, k, Len(q))
<1>1. a \in Seq(Entry) /\ Len(a) = k - 1 /\ \A i \in 1 .. k - 1 : a[i] = q[i]
  OBVIOUS
<1>2. b \in Seq(Entry) /\ Len(b) = Len(q) - k + 1 /\ \A i \in 1 .. Len(q) - k + 1 : b[i] = q[i + k - 1]
  OBVIOUS
<1> HIDE DEF a, b
<1>3. InsertAt(q, k, r) = a \o <<r>> \o b
  BY DEF InsertAt, a, b
<1> DEFINE c == a \o <<r>>
<1>4. c \in Seq(Entry) /\ Len(c) = k /\ c[k] = r /\ \A i \in 1 .. k - 1 : c[i] = q[i]
  BY <1>1
<1> HIDE DEF c
<1>5. c \o b \in Seq(Entry) /\ Len(c \o b) = Len(q) + 1
  BY <1>2, <1>4
<1>6. \A i \in 1 .. k : (c \o b)[i] = c[i]
  BY <1>2, <1>4
<1>7. \A i \in k .. Len(q) : (c \o b)[i + 1] = q[i]
  <2>1. TAKE i \in k .. Len(q)
  <2>2. (c \o b)[i + 1] = b[i + 1 - k]
    BY <1>2, <1>4
  <2>3. b[i + 1 - k] = q[i]
    BY <1>2
  <2> QED BY <2>2, <2>3
<1> QED BY <1>3, <1>4, <1>5, <1>6, <1>7 DEF Placed, c

\* An entry put in the queue is put in the line.
LEMMA PlacedInLine ==
    ASSUME NEW st \in Seq(Entry), NEW q \in Seq(Entry), NEW t, NEW p, NEW r \in Entry,
           Placed(q, t, p, r)
    PROVE  Placed(st \o q, st \o t, Len(st) + p, r)
<1>1. t \in Seq(Entry) /\ Len(t) = Len(q) + 1 /\ p \in 1 .. Len(q) + 1
  BY DEF Placed
<1>2. st \o t \in Seq(Entry) /\ st \o q \in Seq(Entry)
  BY <1>1
<1>3. Len(st \o t) = Len(st) + Len(t) /\ Len(st \o q) = Len(st) + Len(q)
  BY <1>1
<1>4. \A i \in 1 .. Len(st) : (st \o t)[i] = st[i] /\ (st \o q)[i] = st[i]
  BY <1>1
<1>5. \A i \in 1 .. Len(t) : (st \o t)[Len(st) + i] = t[i]
  BY <1>1
<1>6. \A i \in 1 .. Len(q) : (st \o q)[Len(st) + i] = q[i]
  BY <1>1
<1>7. (st \o t)[Len(st) + p] = r
  BY <1>1, <1>5 DEF Placed
<1>8. \A i \in 1 .. Len(st) + p - 1 : (st \o t)[i] = (st \o q)[i]
  <2>1. TAKE i \in 1 .. Len(st) + p - 1
  <2>2. CASE i <= Len(st)
    BY <2>2, <1>4
  <2>3. CASE i > Len(st)
    <3>1. i - Len(st) \in 1 .. p - 1 /\ i = Len(st) + (i - Len(st))
      BY <2>3, <1>1
    <3>2. (st \o t)[i] = t[i - Len(st)] /\ (st \o q)[i] = q[i - Len(st)]
      BY <3>1, <1>1, <1>5, <1>6
    <3> QED BY <3>1, <3>2 DEF Placed
  <2> QED BY <1>1, <2>2, <2>3
<1>9. \A i \in Len(st) + p .. Len(st) + Len(q) : (st \o t)[i + 1] = (st \o q)[i]
  <2>1. TAKE i \in Len(st) + p .. Len(st) + Len(q)
  <2>2. i - Len(st) \in p .. Len(q) /\ i = Len(st) + (i - Len(st))
    BY <1>1
  <2>3. (st \o q)[i] = q[i - Len(st)]
    BY <2>2, <1>1, <1>6
  <2>4. (st \o t)[i + 1] = t[i - Len(st) + 1]
    BY <2>2, <1>1, <1>5
  <2> QED BY <2>2, <2>3, <2>4 DEF Placed
<1> QED BY <1>1, <1>2, <1>3, <1>7, <1>8, <1>9, SMTT(30) DEF Placed

\* Who is in the line, and where, after an entry was put there.
LEMMA PlacedElements ==
    ASSUME NEW q \in Seq(Entry), NEW t, NEW p, NEW r \in Entry, Placed(q, t, p, r)
    PROVE  /\ \A i \in DOMAIN q : \E j \in DOMAIN t :
                 j # p /\ t[j] = q[i] /\ j = IF i < p THEN i ELSE i + 1
           /\ \A j \in DOMAIN t : j # p => \E i \in DOMAIN q :
                 t[j] = q[i] /\ i = IF j < p THEN j ELSE j - 1
           /\ p \in DOMAIN t /\ t[p] = r
           /\ Ids(t) = Ids(q) \cup {r.id}
<1>1. DOMAIN q = 1 .. Len(q) /\ DOMAIN t = 1 .. Len(q) + 1 /\ p \in 1 .. Len(q) + 1
  BY DEF Placed
<1>2. ASSUME NEW i \in DOMAIN q
      PROVE  \E j \in DOMAIN t : j # p /\ t[j] = q[i] /\ j = IF i < p THEN i ELSE i + 1
  <2>1. CASE i < p
    BY <2>1, <1>1 DEF Placed
  <2>2. CASE ~(i < p)
    BY <2>2, <1>1 DEF Placed
  <2> QED BY <2>1, <2>2
<1>3. ASSUME NEW j \in DOMAIN t, j # p
      PROVE  \E i \in DOMAIN q : t[j] = q[i] /\ i = IF j < p THEN j ELSE j - 1
  <2>1. CASE j < p
    BY <2>1, <1>1 DEF Placed
  <2>2. CASE ~(j < p)
    <3>1. j - 1 \in p .. Len(q) /\ j = (j - 1) + 1
      BY <2>2, <1>1, <1>3
    <3>2. t[j] = q[j - 1]
      BY <3>1 DEF Placed
    <3> QED BY <3>1, <3>2, <2>2, <1>1
  <2> QED BY <2>1, <2>2
<1>4. p \in DOMAIN t /\ t[p] = r
  BY <1>1 DEF Placed
<1>5. Ids(t) = Ids(q) \cup {r.id}
  BY <1>2, <1>3, <1>4 DEF Ids
<1> QED BY <1>2, <1>3, <1>4, <1>5

\* An entry nobody has submitted does not double one in the line.
LEMMA PlacedOnce ==
    ASSUME NEW q \in Seq(Entry), NEW t, NEW p, NEW r \in Entry, Placed(q, t, p, r),
           IsOnce(q), r.id \notin Ids(q)
    PROVE  IsOnce(t)
<1>1. ASSUME NEW i \in DOMAIN t, NEW j \in DOMAIN t, t[i].id = t[j].id PROVE i = j
  <2>1. CASE i = p /\ j = p
    BY <2>1
  <2>2. ASSUME NEW k \in DOMAIN t, k # p PROVE t[k].id # r.id
    BY <2>2, PlacedElements DEF Ids
  <2>3. CASE i # p /\ j # p
    <3>1. PICK a \in DOMAIN q : t[i] = q[a] /\ a = IF i < p THEN i ELSE i - 1
      BY <2>3, PlacedElements
    <3>2. PICK b \in DOMAIN q : t[j] = q[b] /\ b = IF j < p THEN j ELSE j - 1
      BY <2>3, PlacedElements
    <3>3. a = b
      BY <1>1, <3>1, <3>2 DEF IsOnce
    <3>4. DOMAIN t \subseteq Nat /\ p \in Nat
      BY DEF Placed
    <3> QED BY <2>3, <3>1, <3>2, <3>3, <3>4
  <2>4. t[p].id = r.id
    BY DEF Placed
  <2> QED BY <1>1, <2>1, <2>2, <2>3, <2>4
<1> QED BY <1>1 DEF IsOnce

-----------------------------------------------------------------------------
(* The drain loop. *)

\* What every run of the drain, and every kick, does to the queue q: it may
\* begin the send of its head, and loses nothing.
Moves(q, c) ==
    /\ pending' \in Seq(Entry) /\ started' \in Seq(Entry)
    /\ drain' \in DrainStates /\ inflight' \in Entries \cup {NoEntry}
    /\ calls' \subseteq Entries /\ broken' \subseteq Entries
    /\ started' \o pending' = started \o q
    /\ InFlightOK'
    /\ calls' \subseteq c \cup Flying'
    /\ broken \subseteq broken'
    /\ EarlyAreBroken(started', broken')

\* drain() from the top of its loop: what it takes off the queue is in flight.
LEMMA RunDrainMoves ==
    ASSUME TypeOK, EarlyAreBroken(started, broken),
           NEW q \in Seq(Entry), NEW c \in SUBSET Entries, RunDrain(q, c)
    PROVE  Moves(q, c) /\ Awaiting' = Ids(q)
<1> USE OutboxAssumption
<1>1. started \in Seq(Entry) /\ broken \subseteq Entries /\ slots \in [Slots -> SlotStates]
  BY DEF TypeOK
<1>2. CASE UNCHANGED <<started, broken>> /\ pending' = q /\ inflight' = NoEntry /\ calls' = c
           /\ drain' \in {"exited", "suspended"}
  BY <1>1, <1>2 DEF Moves, DrainStates, InFlightOK, Flying, Awaiting, EarlyAreBroken
<1>3. CASE /\ q # <<>> /\ ~HeldBack(Head(q))
           /\ drain' = "sending"
           /\ pending' = Tail(q)
           /\ inflight' = Head(q).id
           /\ calls' = c \cup {Head(q).id}
           /\ started' = Append(started, Head(q))
           /\ broken' = IF CausalBroken(Head(q)) THEN broken \cup {Head(q).id} ELSE broken
  <2> DEFINE h == Head(q)
  <2>1. h \in Entry /\ Tail(q) \in Seq(Entry) /\ h = q[1] /\ Len(q) \in Nat \ {0}
    BY <1>3
  <2>2. h.id \in Entries /\ h.after \in Slots \cup {NoSlot}
    BY <2>1 DEF Entry
  <2> HIDE DEF h
  <2>3. started' \in Seq(Entry) /\ Len(started') = Len(started) + 1
        /\ started'[Len(started) + 1] = h /\ \A i \in 1 .. Len(started) : started'[i] = started[i]
    BY <1>1, <1>3, <2>1 DEF h
  <2>4. started' \o pending' = started \o q
    BY <1>1, <1>3
  <2>5. InFlightOK'
    <3>1. started' # <<>> /\ started'[Len(started')].id = h.id
      BY <1>1, <2>3
    <3> QED BY <1>3, <2>2, <3>1 DEF InFlightOK, h
  <2>6. Awaiting' = Ids(q)
    <3>1. \A i \in 1 .. Len(q) - 1 : Tail(q)[i] = q[i + 1]
      BY <1>3
    <3>2. DOMAIN Tail(q) = 1 .. Len(q) - 1 /\ DOMAIN q = 1 .. Len(q)
      BY <1>3
    <3>3. Ids(q) = Ids(Tail(q)) \cup {h.id}
      <4>1. ASSUME NEW i \in DOMAIN q PROVE q[i].id \in Ids(Tail(q)) \cup {h.id}
        <5>1. CASE i = 1
          BY <5>1, <2>1
        <5>2. CASE i # 1
          <6>1. i - 1 \in DOMAIN Tail(q) /\ Tail(q)[i - 1] = q[(i - 1) + 1] /\ (i - 1) + 1 = i
            BY <5>2, <3>1, <3>2
          <6> QED BY <6>1 DEF Ids
        <5> QED BY <5>1, <5>2
      <4>2. ASSUME NEW i \in DOMAIN Tail(q) PROVE Tail(q)[i].id \in Ids(q)
        BY <3>1, <3>2 DEF Ids
      <4>3. h.id \in Ids(q)
        BY <2>1, <3>2 DEF Ids
      <4> QED BY <4>1, <4>2, <4>3 DEF Ids
    <3> QED BY <1>3, <2>2, <3>3 DEF Awaiting, Flying, h, Ids
  <2>7. EarlyAreBroken(started', broken')
    <3>1. SUFFICES ASSUME NEW s \in Slots, slots[s] \in {"none", "pending"},
                          NEW i \in DOMAIN started', started'[i].after = s
                   PROVE  started'[i].id \in broken'
      BY DEF EarlyAreBroken
    <3>2. CASE i = Len(started) + 1
      <4>1. h.after = s
        BY <2>3, <3>1, <3>2
      <4>2. s # NoSlot /\ slots[s] = "none"
        BY <1>3, <3>1, <4>1 DEF HeldBack, h
      <4>3. CausalBroken(h)
        BY <4>1, <4>2 DEF CausalBroken
      <4> QED BY <1>3, <2>3, <3>2, <4>3 DEF h
    <3>3. CASE i # Len(started) + 1
      <4>1. i \in DOMAIN started /\ started'[i] = started[i]
        BY <1>1, <2>3, <3>1, <3>3
      <4>2. started[i].id \in broken
        BY <3>1, <4>1 DEF EarlyAreBroken
      <4> QED BY <1>3, <4>1, <4>2
    <3> QED BY <3>2, <3>3
  <2>8. calls' \subseteq Entries /\ calls' \subseteq c \cup Flying'
    BY <1>3, <2>2 DEF Flying, h
  <2>9. broken' \subseteq Entries /\ broken \subseteq broken'
    BY <1>1, <1>3, <2>2 DEF h
  <2> QED BY <1>3, <2>1, <2>2, <2>3, <2>4, <2>5, <2>6, <2>7, <2>8, <2>9 DEF Moves, DrainStates, h
<1> QED BY <1>2, <1>3 DEF RunDrain

\* kick() after a submission: a drain that is alive keeps what it has in flight.
LEMMA KickMoves ==
    ASSUME TypeOK, InFlightOK, EarlyAreBroken(started, broken),
           NEW q \in Seq(Entry), NEW d \in {drain, Signalled}, Kick(q, d)
    PROVE  /\ Moves(q, calls)
           /\ Awaiting' = Ids(q) \cup Flying
           /\ Flying \subseteq Flying'
<1>1. CASE drain = "idle" /\ RunDrain(q, calls)
  <2>1. Flying = {}
    BY <1>1 DEF InFlightOK, Flying
  <2> QED BY <1>1, <2>1, RunDrainMoves DEF TypeOK
<1>2. CASE /\ drain # "idle" /\ pending' = q /\ drain' = d
           /\ UNCHANGED <<inflight, calls, started, broken>>
  <2>1. d \in DrainStates /\ (d = "sending" <=> drain = "sending")
    BY DEF Signalled, TypeOK, DrainStates
  <2>2. InFlightOK'
    BY <1>2, <2>1 DEF InFlightOK
  <2>3. Flying' = Flying
    BY <1>2 DEF Flying
  <2>4. Moves(q, calls)
    BY <1>2, <2>1, <2>2 DEF Moves, TypeOK, EarlyAreBroken
  <2> QED BY <1>2, <2>3, <2>4 DEF Awaiting, Ids
<1> QED BY <1>1, <1>2 DEF Kick

-----------------------------------------------------------------------------
(* The properties of the line. *)

LineOK ==
    /\ IsOnce(Line) /\ Len(Line) = Len(arrival) /\ Ids(Line) = Submitted
    /\ ReplyBeforeWaiters /\ OvertakesOnlyByFill

\* A step that submits nothing leaves the line as it is, whatever it moves
\* from the queue to the adapter; a waiter it releases may only become broken.
LEMMA SameLine ==
    ASSUME LineOK, Line' = Line, UNCHANGED <<arrival, fills>>, broken \subseteq broken'
    PROVE  LineOK'
<1>1. /\ IsOnce(Line)' /\ (Len(Line) = Len(arrival))' /\ (Ids(Line) = Submitted)'
  BY DEF LineOK, Submitted
<1>2. ReplyBeforeWaiters'
  BY DEF LineOK, ReplyBeforeWaiters
<1>3. OvertakesOnlyByFill'
  BY DEF LineOK, OvertakesOnlyByFill, OvertakenBy
<1> QED BY <1>1, <1>2, <1>3 DEF LineOK

\* The places of the others, when an entry is put in the line.
LEMMA LineElements ==
    ASSUME TypeOK, NEW r \in Entry, NEW p, Placed(Line, Line', p, r)
    PROVE  /\ \A i \in DOMAIN Line : \E j \in DOMAIN Line' :
                 j # p /\ Line'[j] = Line[i] /\ j = IF i < p THEN i ELSE i + 1
           /\ \A j \in DOMAIN Line' : j # p => \E i \in DOMAIN Line :
                 Line'[j] = Line[i] /\ i = IF j < p THEN j ELSE j - 1
<1>1. Line \in Seq(Entry)
  BY DEF Line, TypeOK
<1> QED BY <1>1, PlacedElements

\* A submission: the new entry r is in the line once, at place p.
LEMMA LongerLine ==
    ASSUME TypeOK, LineOK, NEW r \in Entry, NEW p, r.id \notin Submitted,
           Placed(Line, Line', p, r), arrival' = Append(arrival, r)
    PROVE  /\ IsOnce(Line)' /\ (Len(Line) = Len(arrival))' /\ (Ids(Line) = Submitted)'
           /\ Submitted' = Submitted \cup {r.id}
<1>1. Line \in Seq(Entry) /\ arrival \in Seq(Entry)
  BY DEF Line, TypeOK
<1>2. IsOnce(Line')
  BY <1>1, PlacedOnce DEF LineOK
<1>3. Len(Line') = Len(arrival')
  BY <1>1 DEF Placed, LineOK
<1>4. Ids(Line') = Ids(Line) \cup {r.id}
  BY <1>1, PlacedElements
<1>5. Ids(arrival') = Ids(arrival) \cup {r.id}
  BY <1>1, AppendPlaces, PlacedElements
<1> QED BY <1>2, <1>3, <1>4, <1>5 DEF LineOK, Submitted

\* The reply of a filled slot stays in front of its waiters: an entry that is
\* submitted later is no such reply, and if it waits for a slot that has its
\* reply it is at the end of the line.
LEMMA LongerReplies ==
    ASSUME TypeOK, LineOK, FillsKnown, NEW r \in Entry, NEW p, r.id \notin Submitted,
           Placed(Line, Line', p, r), broken \subseteq broken',
           NEW s \in Slots, fills[s] # NoEntry,
           r.after = s => p = Len(Line) + 1
    PROVE  \A i, j \in DOMAIN Line' :
              (Line'[i].id = fills[s] /\ Line'[j].after = s /\ Line'[j].id \notin broken') => i < j
<1>0. /\ \A i \in DOMAIN Line : \E j \in DOMAIN Line' :
            j # p /\ Line'[j] = Line[i] /\ j = IF i < p THEN i ELSE i + 1
      /\ \A j \in DOMAIN Line' : j # p => \E i \in DOMAIN Line :
            Line'[j] = Line[i] /\ i = IF j < p THEN j ELSE j - 1
  BY LineElements
<1>1. Line \in Seq(Entry) /\ DOMAIN Line' = 1 .. Len(Line) + 1 /\ p \in 1 .. Len(Line) + 1
  BY DEF Line, TypeOK, Placed
<1>2. SUFFICES ASSUME NEW i \in DOMAIN Line', NEW j \in DOMAIN Line', Line'[i].id = fills[s],
                      Line'[j].after = s, Line'[j].id \notin broken'
               PROVE  i < j
  OBVIOUS
<1>3. i # p
  <2>1. Line'[p] = r
    BY DEF Placed
  <2> QED BY <1>2, <2>1 DEF FillsKnown
<1>4. PICK a \in DOMAIN Line : Line'[i] = Line[a] /\ a = IF i < p THEN i ELSE i - 1
  BY <1>0, <1>1, <1>3
<1>5. CASE j = p
  <2>1. r.after = s
    BY <1>2, <1>5 DEF Placed
  <2> QED BY <1>1, <1>3, <1>5, <2>1
<1>6. CASE j # p
  <2>1. PICK b \in DOMAIN Line : Line'[j] = Line[b] /\ b = IF j < p THEN j ELSE j - 1
    BY <1>0, <1>1, <1>6
  <2>2. a < b
    BY <1>2, <1>4, <2>1 DEF LineOK, ReplyBeforeWaiters
  <2>3. a \in Nat /\ b \in Nat
    BY <1>1
  <2> QED BY <1>1, <1>3, <1>4, <1>6, <2>1, <2>2, <2>3
<1> QED BY <1>5, <1>6

\* No entry overtakes an older one but the submission itself.
LEMMA LongerOvertakes ==
    ASSUME TypeOK, LineOK, NEW r \in Entry, NEW p, r.id \notin Submitted,
           Placed(Line, Line', p, r), arrival' = Append(arrival, r),
           \A s \in Slots : fills[s] # NoEntry => fills'[s] = fills[s],
           \* what stands behind the new entry, if anything, waits for its slot
           p # Len(Line) + 1 =>
              \E s \in Slots : fills'[s] = r.id /\ Line'[p + 1].after = s
    PROVE  OvertakesOnlyByFill'
<1> USE OutboxAssumption
<1>0. /\ \A i \in DOMAIN Line : \E j \in DOMAIN Line' :
            j # p /\ Line'[j] = Line[i] /\ j = IF i < p THEN i ELSE i + 1
      /\ \A j \in DOMAIN Line' : j # p => \E i \in DOMAIN Line :
            Line'[j] = Line[i] /\ i = IF j < p THEN j ELSE j - 1
  BY LineElements
<1>1. /\ Line \in Seq(Entry) /\ DOMAIN Line' = 1 .. Len(Line) + 1 /\ p \in 1 .. Len(Line) + 1
      /\ DOMAIN Line = 1 .. Len(Line)
  BY DEF Line, TypeOK, Placed
<1>2. arrival \in Seq(Entry) /\ DOMAIN arrival' = 1 .. Len(arrival) + 1
      /\ (\A i \in DOMAIN arrival : arrival'[i] = arrival[i]) /\ arrival'[Len(arrival) + 1] = r
      /\ DOMAIN arrival = 1 .. Len(arrival)
  BY DEF TypeOK
<1>3. SUFFICES ASSUME NEW i \in DOMAIN arrival', NEW j \in DOMAIN arrival', i < j,
                      NEW m \in DOMAIN Line', NEW n \in DOMAIN Line', m < n,
                      Line'[m] = arrival'[j], Line'[n] = arrival'[i]
               PROVE  \E s \in Slots, k, w, l \in DOMAIN Line' :
                          /\ fills'[s] = arrival'[j].id
                          /\ Line'[k] = arrival'[j] /\ Line'[l] = arrival'[i] /\ Line'[w].after = s
                          /\ k < w /\ w <= l
  BY DEF OvertakesOnlyByFill, OvertakenBy
<1>4. i \in DOMAIN arrival /\ arrival'[i] = arrival[i]
  BY <1>2, <1>3
<1>5. \A a \in DOMAIN arrival : arrival[a].id # r.id
  BY DEF Submitted, Ids
<1>6. Line'[p] = r
  BY DEF Placed
<1>7. n # p
  BY <1>3, <1>4, <1>5, <1>6
<1>8. CASE j = Len(arrival) + 1
  <2>1. m = p
    <3>1. SUFFICES ASSUME m # p PROVE FALSE
      OBVIOUS
    <3>2. PICK a \in DOMAIN Line : Line'[m] = Line[a]
      BY <1>0, <1>1, <3>1
    <3>3. Line[a].id \in Submitted
      BY <3>2 DEF LineOK, Ids
    <3> QED BY <1>2, <1>3, <1>8, <3>2, <3>3
  <2>2. p # Len(Line) + 1 /\ p + 1 \in DOMAIN Line' /\ p + 1 <= n
    BY <1>1, <1>3, <2>1
  <2>3. PICK s \in Slots : fills'[s] = r.id /\ Line'[p + 1].after = s
    BY <2>2
  <2> QED BY <1>1, <1>2, <1>3, <1>6, <1>8, <2>1, <2>2, <2>3
<1>9. CASE j # Len(arrival) + 1
  <2>1. j \in DOMAIN arrival /\ arrival'[j] = arrival[j]
    BY <1>2, <1>9
  <2>2. m # p
    BY <1>3, <1>5, <1>6, <2>1
  <2>3. PICK a \in DOMAIN Line : Line'[m] = Line[a] /\ a = IF m < p THEN m ELSE m - 1
    BY <1>0, <1>1, <2>2
  <2>4. PICK b \in DOMAIN Line : Line'[n] = Line[b] /\ b = IF n < p THEN n ELSE n - 1
    BY <1>0, <1>1, <1>7
  <2>5. a < b
    BY <1>1, <1>3, <1>7, <2>2, <2>3, <2>4
  <2>6. OvertakenBy(i, j)
    BY <1>3, <1>4, <2>1, <2>3, <2>4, <2>5 DEF OvertakenBy
  <2>7. PICK s \in Slots, k \in DOMAIN Line, w \in DOMAIN Line, l \in DOMAIN Line :
              /\ fills[s] = arrival[j].id
              /\ Line[k] = arrival[j] /\ Line[l] = arrival[i] /\ Line[w].after = s
              /\ k < w /\ w <= l
    BY <1>3, <1>4, <2>1, <2>6 DEF LineOK, OvertakesOnlyByFill
  <2>8. PICK k2 \in DOMAIN Line' : Line'[k2] = Line[k] /\ k2 = IF k < p THEN k ELSE k + 1
    BY <1>0, <1>1, <2>7
  <2>9. PICK w2 \in DOMAIN Line' : Line'[w2] = Line[w] /\ w2 = IF w < p THEN w ELSE w + 1
    BY <1>0, <1>1, <2>7
  <2>10. PICK l2 \in DOMAIN Line' : Line'[l2] = Line[l] /\ l2 = IF l < p THEN l ELSE l + 1
    BY <1>0, <1>1, <2>7
  <2>11. k2 < w2 /\ w2 <= l2
    BY <1>1, <2>7, <2>8, <2>9, <2>10, SMTT(30)
  <2>12. fills'[s] = arrival'[j].id
    <3>1. arrival[j].id \in Entries
      <4>1. arrival[j] \in Entry
        BY <1>2, <2>1
      <4> QED BY <4>1 DEF Entry
    <3> QED BY <2>1, <2>7, <3>1
  <2> QED BY <1>4, <2>1, <2>7, <2>8, <2>9, <2>10, <2>11, <2>12
<1> QED BY <1>8, <1>9

-----------------------------------------------------------------------------
(* The steps. *)

Settlement ==
    \A e \in Submitted : (result[e] = "unsettled") <=> (e \in Ids(pending) \/ e = inflight)

\* The entries named in a sequence of entries are entries.
LEMMA IdsType == ASSUME NEW q \in Seq(Entry) PROVE Ids(q) \subseteq Entries
<1>1. ASSUME NEW i \in DOMAIN q PROVE q[i].id \in Entries
  <2>1. q[i] \in Entry
    OBVIOUS
  <2> QED BY <2>1 DEF Entry
<1> QED BY <1>1 DEF Ids

\* The entries awaited are the queued ones and the one in flight.
LEMMA AwaitingMeans ==
    ASSUME NEW e \in Entries
    PROVE  /\ e \in Awaiting <=> (e \in Ids(pending) \/ e = inflight)
           /\ (e \in Awaiting)' <=> (e \in Ids(pending)' \/ e = inflight')
BY OutboxAssumption DEF Awaiting, Flying

\* The entry in flight was submitted and is not in the queue.
LEMMA InFlightIsOut ==
    ASSUME IInv, inflight # NoEntry
    PROVE  inflight \in Entries /\ inflight \in Submitted /\ inflight \notin Ids(pending)
<1>1. started \in Seq(Entry) /\ pending \in Seq(Entry) /\ inflight \in Entries
  BY DEF IInv, TypeOK
<1> DEFINE n == Len(started)
<1>2. n \in Nat \ {0} /\ started[n].id = inflight
  BY <1>1 DEF IInv, InFlightOK
<1>3. Line \in Seq(Entry) /\ n \in DOMAIN Line /\ Line[n] = started[n]
  BY <1>1, <1>2 DEF Line
<1>4. inflight \in Submitted
  <2>1. inflight \in Ids(Line)
    BY <1>2, <1>3 DEF Ids
  <2> QED BY <2>1 DEF IInv, NothingLost
<1>5. ASSUME NEW i \in DOMAIN pending, pending[i].id = inflight PROVE FALSE
  <2>1. n + i \in DOMAIN Line /\ Line[n + i] = pending[i] /\ n + i # n
    BY <1>1, <1>2 DEF Line
  <2> QED BY <1>2, <1>3, <1>5, <2>1 DEF IInv, IsOnce
<1> QED BY <1>1, <1>4, <1>5 DEF Ids

\* The settlement, the calls and the early waiters after a submission; what it
\* does to the order of the line depends on the place of the new entry.
LEMMA SubmissionStep ==
    ASSUME IInv, NEW r \in Entry, r.id \notin Submitted,
           NEW q \in Seq(Entry), NEW k, Placed(pending, q, k, r),
           NEW d \in {drain, Signalled}, Kick(q, d),
           arrival' = Append(arrival, r), UNCHANGED result,
           slots' \in [Slots -> SlotStates], fills' \in [Slots -> Entries \cup {NoEntry}],
           \A s \in Slots : slots'[s] \in {"none", "pending"} => slots[s] \in {"none", "pending"}
    PROVE  /\ TypeOK' /\ InFlightOK' /\ FreshUnsettled'
           /\ EarlyAreBroken(started, broken)' /\ Settlement' /\ SerialSends'
           /\ Placed(Line, Line', Len(started) + k, r)
           /\ broken \subseteq broken'
           /\ IsOnce(Line)' /\ (Len(Line) = Len(arrival))' /\ (Ids(Line) = Submitted)'
           /\ Submitted' = Submitted \cup {r.id}
<1> USE OutboxAssumption
<1>1. TypeOK /\ InFlightOK /\ LineOK /\ EarlyAreBroken(started, broken)
  BY DEF IInv, LineOK, NothingLost
<1>2. /\ Moves(q, calls) /\ Awaiting' = Ids(q) \cup Flying /\ Flying \subseteq Flying'
  BY <1>1, KickMoves
<1>3. Line' = started \o q
  BY <1>2 DEF Moves, Line
<1>4. Placed(Line, Line', Len(started) + k, r)
  BY <1>1, <1>3, PlacedInLine DEF TypeOK, Line
<1>5. /\ IsOnce(Line)' /\ (Len(Line) = Len(arrival))' /\ (Ids(Line) = Submitted)'
      /\ Submitted' = Submitted \cup {r.id}
  BY <1>1, <1>4, LongerLine
<1>6. TypeOK'
  <2>1. arrival' \in Seq(Entry)
    BY <1>1 DEF TypeOK
  <2> QED BY <1>1, <1>2, <2>1 DEF TypeOK, Moves
<1>7. Ids(q) = Ids(pending) \cup {r.id}
  BY <1>1, PlacedElements DEF TypeOK
<1>8. r.id \in Entries /\ result[r.id] = "unsettled"
  BY DEF Entry, IInv, FreshUnsettled
<1>9. Settlement'
  <2>1. SUFFICES ASSUME NEW e \in Submitted'
                 PROVE  (result'[e] = "unsettled") <=> (e \in Awaiting)'
    <3>1. Submitted' \subseteq Entries
      BY <1>6, IdsType DEF TypeOK, Submitted
    <3> QED BY <2>1, <3>1, AwaitingMeans DEF Settlement
  <2>2. CASE e = r.id
    BY <1>2, <1>7, <1>8, <2>2
  <2>3. CASE e # r.id
    <3>1. e \in Submitted /\ e \in Entries
      BY <1>1, <1>5, <2>3, IdsType DEF TypeOK, Submitted
    <3>2. (result[e] = "unsettled") <=> e \in Ids(pending) \cup Flying
      BY <3>1, AwaitingMeans DEF IInv, NothingLost, Awaiting
    <3>3. (e \in Awaiting)' <=> e \in Ids(pending) \cup Flying
      BY <1>2, <1>7, <2>3
    <3> QED BY <3>2, <3>3
  <2> QED BY <2>2, <2>3
<1>10. SerialSends'
  <2>1. SUFFICES ASSUME NEW e \in calls' PROVE e = inflight' \/ result'[e] = "timeout"
    BY DEF SerialSends
  <2>2. e \in calls \/ e = inflight'
    BY <1>2, <2>1 DEF Moves, Flying
  <2>3. e \in Entries
    BY <1>2, <2>1 DEF Moves
  <2>4. e = inflight => e = inflight'
    BY <1>2, <2>3 DEF Flying
  <2> QED BY <2>2, <2>4 DEF IInv, SerialSends
<1>11. FreshUnsettled'
  BY <1>5 DEF IInv, FreshUnsettled
<1>12. EarlyAreBroken(started, broken)'
  BY <1>2 DEF Moves, EarlyAreBroken
<1> QED BY <1>2, <1>4, <1>5, <1>6, <1>9, <1>10, <1>11, <1>12 DEF Moves

\* post(): the entry is at the end of the line.
LEMMA PostStep ==
    ASSUME IInv, NEW e \in Entries, NEW s \in Slots \cup {NoSlot}, Post(e, s)
    PROVE  IInv'
<1> USE OutboxAssumption
<1> DEFINE r == [id |-> e, after |-> s]
<1>1. r \in Entry /\ r.id = e /\ r.id \notin Submitted
  BY DEF Post, Entry
<1> HIDE DEF r
<1>2. arrival' = Append(arrival, r) /\ Kick(Append(pending, r), drain) /\ UNCHANGED <<slots, result, fills>>
  BY DEF Post, r
<1>3. TypeOK /\ LineOK /\ FillsKnown
  BY DEF IInv, LineOK, NothingLost
<1>4. Append(pending, r) \in Seq(Entry) /\ Placed(pending, Append(pending, r), Len(pending) + 1, r)
  BY <1>1, <1>3, AppendPlaces DEF TypeOK
<1>5. slots' \in [Slots -> SlotStates] /\ fills' \in [Slots -> Entries \cup {NoEntry}]
  BY <1>2, <1>3 DEF TypeOK
<1>6. /\ TypeOK' /\ InFlightOK' /\ FreshUnsettled'
      /\ EarlyAreBroken(started, broken)' /\ Settlement' /\ SerialSends'
      /\ Placed(Line, Line', Len(started) + (Len(pending) + 1), r)
      /\ broken \subseteq broken'
      /\ IsOnce(Line)' /\ (Len(Line) = Len(arrival))' /\ (Ids(Line) = Submitted)'
      /\ Submitted' = Submitted \cup {r.id}
  BY <1>1, <1>2, <1>4, <1>5, SubmissionStep
<1>7. Len(started) + (Len(pending) + 1) = Len(Line) + 1
  BY <1>3 DEF TypeOK, Line
<1>8. FillsKnown'
  BY <1>2, <1>3, <1>6 DEF FillsKnown
<1>9. ReplyBeforeWaiters'
  BY <1>1, <1>2, <1>3, <1>6, <1>7, LongerReplies DEF ReplyBeforeWaiters
<1>10. OvertakesOnlyByFill'
  BY <1>1, <1>2, <1>3, <1>6, <1>7, LongerOvertakes
<1> QED BY <1>6, <1>8, <1>9, <1>10 DEF IInv, NothingLost, Settlement

\* insertBeforeWaiters(): the place of the reply.
LEMMA InsertionPlace ==
    ASSUME TypeOK, NEW r \in Entry, NEW s \in Slots
    PROVE  \E k \in 1 .. Len(pending) + 1 :
              /\ Placed(pending, InsertBeforeWaiters(r, s), k, r)
              /\ k # Len(pending) + 1 => pending[k].after = s
              /\ \A i \in DOMAIN pending : pending[i].after = s => k <= i
<1> DEFINE waiters == {i \in DOMAIN pending : pending[i].after = s}
<1>1. pending \in Seq(Entry) /\ DOMAIN pending = 1 .. Len(pending)
  BY DEF TypeOK
<1>2. CASE waiters = {}
  BY <1>1, <1>2, AppendPlaces DEF InsertBeforeWaiters
<1>3. CASE waiters # {}
  <2> DEFINE k == CHOOSE i \in waiters : \A j \in waiters : i <= j
  <2>1. \E i \in waiters : \A j \in waiters : i <= j
    <3>1. waiters \in SUBSET Nat
      BY <1>1
    <3> HIDE DEF waiters
    <3> QED BY <3>1, <1>3, NatMin
  <2>2. k \in waiters /\ \A j \in waiters : k <= j
    BY <2>1
  <2>3. k \in 1 .. Len(pending)
    BY <1>1, <2>2
  <2>4. InsertBeforeWaiters(r, s) = InsertAt(pending, k, r)
    BY <1>3 DEF InsertBeforeWaiters
  <2> HIDE DEF k
  <2>5. Placed(pending, InsertBeforeWaiters(r, s), k, r)
    BY <1>1, <2>3, <2>4, InsertPlaces
  <2> QED BY <1>1, <2>2, <2>3, <2>5
<1> QED BY <1>2, <1>3

\* fillSlot(): the reply is put in front of everyone who waits for its slot; who
\* has left the queue before that was released as broken.
LEMMA FillReplies ==
    ASSUME IInv, NEW s \in Slots, slots[s] = "pending", NEW r \in Entry, r.after # s,
           r.id \notin Submitted, NEW k \in 1 .. Len(pending) + 1,
           \A i \in DOMAIN pending : pending[i].after = s => k <= i,
           Placed(Line, Line', Len(started) + k, r), broken \subseteq broken'
    PROVE  \A i, j \in DOMAIN Line' :
              (Line'[i].id = r.id /\ Line'[j].after = s /\ Line'[j].id \notin broken') => i < j
<1> DEFINE p == Len(started) + k
<1>1. /\ started \in Seq(Entry) /\ pending \in Seq(Entry) /\ Line \in Seq(Entry)
      /\ DOMAIN Line' = 1 .. Len(Line) + 1 /\ Len(started) \in Nat /\ DOMAIN Line = 1 .. Len(Line)
      /\ Len(Line) = Len(started) + Len(pending)
  BY DEF Line, IInv, TypeOK, Placed
<1>2. /\ \A i \in DOMAIN Line : \E j \in DOMAIN Line' :
            j # p /\ Line'[j] = Line[i] /\ j = IF i < p THEN i ELSE i + 1
      /\ \A j \in DOMAIN Line' : j # p => \E i \in DOMAIN Line :
            Line'[j] = Line[i] /\ i = IF j < p THEN j ELSE j - 1
  <2>1. Placed(Line, Line', p, r) /\ TypeOK
    BY DEF IInv
  <2> HIDE DEF p
  <2> QED BY <2>1, LineElements
<1>3. SUFFICES ASSUME NEW i \in DOMAIN Line', NEW j \in DOMAIN Line', Line'[i].id = r.id,
                      Line'[j].after = s, Line'[j].id \notin broken'
               PROVE  i < j
  OBVIOUS
<1>4. i = p
  <2>1. SUFFICES ASSUME i # p PROVE FALSE
    OBVIOUS
  <2>2. PICK a \in DOMAIN Line : Line'[i] = Line[a]
    BY <1>2, <2>1
  <2>3. Line[a].id \in Submitted
    BY <2>2 DEF IInv, NothingLost, Ids
  <2> QED BY <1>3, <2>2, <2>3
<1>5. j # p
  BY <1>3 DEF Placed
<1>6. PICK b \in DOMAIN Line : Line'[j] = Line[b] /\ b = IF j < p THEN j ELSE j - 1
  BY <1>2, <1>5
<1>7. b > Len(started)
  <2>1. SUFFICES ASSUME b <= Len(started) PROVE FALSE
    BY <1>1
  <2>2. b \in DOMAIN started /\ Line[b] = started[b]
    BY <1>1, <2>1 DEF Line
  <2>3. started[b].id \in broken
    BY <1>3, <1>6, <2>2 DEF IInv, EarlyAreBroken
  <2> QED BY <1>3, <1>6, <2>2, <2>3
<1>8. k <= b - Len(started)
  <2>1. b - Len(started) \in DOMAIN pending /\ Line[b] = pending[b - Len(started)]
    BY <1>1, <1>7 DEF Line
  <2> QED BY <1>3, <1>6, <2>1
<1> QED BY <1>1, <1>4, <1>5, <1>6, <1>8

\* fillSlot() on a pending slot.
LEMMA FillStep ==
    ASSUME IInv, NEW s \in Slots, NEW e \in Entries, FillSlot(s, e)
    PROVE  IInv'
<1> USE OutboxAssumption
<1> DEFINE r == [id |-> e, after |-> NoSlot]
           q == InsertBeforeWaiters(r, s)
<1>1. r \in Entry /\ r.id = e /\ r.id \notin Submitted /\ r.after # s
  BY DEF FillSlot, Entry
<1>2. arrival' = Append(arrival, r) /\ Kick(q, Signalled) /\ UNCHANGED result
      /\ slots' = [slots EXCEPT ![s] = "filled"] /\ fills' = [fills EXCEPT ![s] = e]
      /\ slots[s] = "pending"
  BY DEF FillSlot
<1> HIDE DEF r
<1>3. TypeOK /\ LineOK /\ FillsKnown
  BY DEF IInv, LineOK, NothingLost
<1>4. PICK k \in 1 .. Len(pending) + 1 :
              /\ Placed(pending, q, k, r)
              /\ k # Len(pending) + 1 => pending[k].after = s
              /\ \A i \in DOMAIN pending : pending[i].after = s => k <= i
  BY <1>1, <1>3, InsertionPlace
<1> HIDE DEF q
<1>5. q \in Seq(Entry)
  BY <1>4 DEF Placed
<1>6. /\ slots' \in [Slots -> SlotStates] /\ fills' \in [Slots -> Entries \cup {NoEntry}]
      /\ \A t \in Slots : slots'[t] \in {"none", "pending"} => slots[t] \in {"none", "pending"}
  BY <1>2, <1>3 DEF TypeOK, SlotStates
<1> DEFINE p == Len(started) + k
<1>7. /\ TypeOK' /\ InFlightOK' /\ FreshUnsettled'
      /\ EarlyAreBroken(started, broken)' /\ Settlement' /\ SerialSends'
      /\ Placed(Line, Line', p, r)
      /\ broken \subseteq broken'
      /\ IsOnce(Line)' /\ (Len(Line) = Len(arrival))' /\ (Ids(Line) = Submitted)'
      /\ Submitted' = Submitted \cup {r.id}
  BY <1>1, <1>2, <1>4, <1>5, <1>6, SubmissionStep
<1>8. fills[s] = NoEntry /\ fills'[s] = e /\ \A t \in Slots \ {s} : fills'[t] = fills[t]
  BY <1>2, <1>3 DEF FillsKnown, TypeOK
<1>9. FillsKnown'
  <2>1. \A t \in Slots : slots'[t] = IF t = s THEN "filled" ELSE slots[t]
    BY <1>2, <1>3 DEF TypeOK
  <2> QED BY <1>1, <1>3, <1>7, <1>8, <2>1 DEF FillsKnown
<1>10. ReplyBeforeWaiters'
  <2>1. SUFFICES ASSUME NEW t \in Slots, fills'[t] # NoEntry
                 PROVE  \A i, j \in DOMAIN Line' :
                           (Line'[i].id = fills'[t] /\ Line'[j].after = t /\ Line'[j].id \notin broken') => i < j
    BY DEF ReplyBeforeWaiters
  <2>2. CASE t = s
    <3>1. \A i, j \in DOMAIN Line' :
              (Line'[i].id = r.id /\ Line'[j].after = s /\ Line'[j].id \notin broken') => i < j
      BY <1>1, <1>2, <1>4, <1>7, FillReplies
    <3> QED BY <1>1, <1>8, <2>2, <3>1
  <2>3. CASE t # s
    <3>1. r.after # t
      BY DEF r
    <3> QED BY <1>1, <1>3, <1>7, <1>8, <2>1, <2>3, <3>1, LongerReplies
  <2> QED BY <2>2, <2>3
<1>11. OvertakesOnlyByFill'
  <2>1. ASSUME p # Len(Line) + 1
        PROVE  fills'[s] = r.id /\ Line'[p + 1].after = s
    <3>1. /\ started \in Seq(Entry) /\ pending \in Seq(Entry) /\ Len(started) \in Nat
          /\ Len(Line) = Len(started) + Len(pending)
      BY <1>3 DEF Line, TypeOK
    <3>2. k # Len(pending) + 1 /\ k \in DOMAIN pending /\ Line[p] = pending[k] /\ p \in p .. Len(Line)
      BY <2>1, <3>1, <1>4 DEF Line
    <3>3. Line'[p + 1] = Line[p]
      BY <1>7, <3>2 DEF Placed
    <3> QED BY <1>1, <1>4, <1>8, <3>2, <3>3
  <2>2. \A t \in Slots : fills[t] # NoEntry => fills'[t] = fills[t]
    BY <1>8
  <2> HIDE DEF p
  <2> QED BY <1>1, <1>2, <1>3, <1>7, <2>1, <2>2, LongerOvertakes
<1> QED BY <1>7, <1>9, <1>10, <1>11 DEF IInv, NothingLost, Settlement

\* The drain goes on, after its wait, its end, or the end of a send; what it
\* had in flight is settled.
LEMMA DrainStep ==
    ASSUME IInv, NEW c \in SUBSET calls, RunDrain(pending, c),
           UNCHANGED <<slots, arrival, fills>>,
           \/ inflight = NoEntry /\ result' = result
           \/ /\ inflight # NoEntry
              /\ \/ result' = [result EXCEPT ![inflight] = "answered"] /\ inflight \notin c
                 \/ result' = [result EXCEPT ![inflight] = "timeout"]
    PROVE  IInv'
<1> USE OutboxAssumption
<1>1. TypeOK /\ InFlightOK /\ LineOK /\ EarlyAreBroken(started, broken) /\ pending \in Seq(Entry)
      /\ c \in SUBSET Entries
  BY DEF IInv, LineOK, NothingLost, TypeOK
<1>2. Moves(pending, c) /\ Awaiting' = Ids(pending)
  BY <1>1, RunDrainMoves
<1>3. Line' = Line /\ broken \subseteq broken'
  BY <1>2 DEF Moves, Line
<1>4. LineOK'
  BY <1>1, <1>3, SameLine
<1>5. /\ result' \in [Entries -> Results]
      /\ \A e \in Entries : e # inflight => result'[e] = result[e]
      /\ inflight # NoEntry => result'[inflight] \in {"answered", "timeout"}
      /\ (inflight # NoEntry /\ inflight \in c) => result'[inflight] = "timeout"
  <2>1. inflight \in Entries \cup {NoEntry} /\ result \in [Entries -> Results]
    BY <1>1 DEF TypeOK
  <2> QED BY <2>1 DEF Results
<1>6. TypeOK'
  BY <1>1, <1>2, <1>5 DEF TypeOK, Moves
<1>7. inflight # NoEntry =>
          inflight \in Entries /\ inflight \in Submitted /\ inflight \notin Ids(pending)
  BY InFlightIsOut
<1>8. Submitted' = Submitted /\ Submitted \subseteq Entries
  BY <1>1, IdsType DEF TypeOK, Submitted
<1>9. Settlement'
  <2>1. SUFFICES ASSUME NEW e \in Submitted
                 PROVE  (result'[e] = "unsettled") <=> e \in Ids(pending)
    BY <1>2, <1>8, AwaitingMeans DEF Settlement
  <2>2. CASE e = inflight
    BY <1>5, <1>7, <1>8, <2>2
  <2>3. CASE e # inflight
    BY <1>5, <1>8, <2>3 DEF IInv, NothingLost
  <2> QED BY <2>2, <2>3
<1>10. SerialSends'
  <2>1. SUFFICES ASSUME NEW e \in calls' PROVE e = inflight' \/ result'[e] = "timeout"
    BY DEF SerialSends
  <2>2. e \in c \/ e = inflight'
    BY <1>2, <2>1 DEF Moves, Flying
  <2>3. CASE e \in c
    <3>1. e \in Entries /\ (e = inflight \/ result[e] = "timeout")
      BY <1>1, <2>3 DEF IInv, SerialSends
    <3> QED BY <1>5, <2>3, <3>1
  <2> QED BY <2>2, <2>3
<1>11. FreshUnsettled'
  BY <1>5, <1>7, <1>8 DEF IInv, FreshUnsettled
<1>12. EarlyAreBroken(started, broken)'
  BY <1>2 DEF Moves, EarlyAreBroken
<1>13. FillsKnown'
  BY <1>8 DEF IInv, FillsKnown
<1>14. InFlightOK'
  BY <1>2 DEF Moves
<1> QED BY <1>4, <1>6, <1>9, <1>10, <1>11, <1>12, <1>13, <1>14 DEF IInv, LineOK, NothingLost, Settlement

\* A step that touches neither the line nor a promise: it closes or opens a
\* slot, wakes or drops a drain, or an abandoned call returns.
LEMMA QuietStep ==
    ASSUME IInv, UNCHANGED <<pending, inflight, result, started, arrival, broken, fills>>,
           drain' \in DrainStates, drain' = "sending" <=> drain = "sending",
           calls' \subseteq calls, slots' \in [Slots -> SlotStates],
           \A s \in Slots : slots'[s] \in {"none", "pending"} => slots[s] \in {"none", "pending"}
    PROVE  IInv'
<1>1. Line' = Line /\ Submitted' = Submitted /\ LineOK
  BY DEF Line, Submitted, IInv, LineOK, NothingLost
<1>2. LineOK'
  BY <1>1, SameLine
<1>3. TypeOK' /\ InFlightOK'
  BY DEF IInv, TypeOK, InFlightOK
<1>4. Settlement' /\ SerialSends' /\ FreshUnsettled'
  BY <1>1 DEF IInv, NothingLost, Settlement, SerialSends, FreshUnsettled
<1>5. EarlyAreBroken(started, broken)' /\ FillsKnown'
  BY <1>1 DEF IInv, EarlyAreBroken, FillsKnown
<1> QED BY <1>2, <1>3, <1>4, <1>5 DEF IInv, LineOK, NothingLost, Settlement

\* A closed slot never opens again.
LEMMA CloseStep ==
    ASSUME IInv, NEW s \in Slots, NEW v \in {"filled", "abandoned", "expired"}, CloseSlot(s, v)
    PROVE  IInv'
<1>1. slots \in [Slots -> SlotStates] /\ drain \in DrainStates
  BY DEF IInv, TypeOK
<1>2. drain' \in DrainStates /\ (drain' = "sending" <=> drain = "sending")
  BY <1>1 DEF CloseSlot, Signalled, DrainStates
<1>3. slots' \in [Slots -> SlotStates]
      /\ \A t \in Slots : slots'[t] \in {"none", "pending"} => slots[t] \in {"none", "pending"}
  BY <1>1 DEF CloseSlot, SlotStates
<1> QED BY <1>2, <1>3, QuietStep DEF CloseSlot

\* Every step of the outbox keeps the invariant.
LEMMA InvStep == ASSUME IInv, [Next]_vars PROVE IInv'
<1> USE OutboxAssumption
<1>0. TypeOK
  BY DEF IInv
<1>1. CASE UNCHANGED vars
  BY <1>0, <1>1, QuietStep DEF vars, TypeOK
<1>2. ASSUME NEW e \in Entries, NEW s \in Slots \cup {NoSlot}, Post(e, s) PROVE IInv'
  BY <1>2, PostStep
<1>3. ASSUME NEW s \in Slots, NEW e \in Entries, FillSlot(s, e) PROVE IInv'
  BY <1>3, FillStep
<1>4. ASSUME NEW s \in Slots, NEW e \in Entries, FillSlotDegraded(s, e) PROVE IInv'
  BY <1>4, PostStep DEF FillSlotDegraded
<1>5. ASSUME NEW s \in Slots, OpenSlot(s) PROVE IInv'
  <2>1. slots' \in [Slots -> SlotStates]
        /\ \A t \in Slots : slots'[t] \in {"none", "pending"} => slots[t] \in {"none", "pending"}
    BY <1>0, <1>5 DEF OpenSlot, TypeOK, SlotStates
  <2> QED BY <1>0, <1>5, <2>1, QuietStep DEF OpenSlot, TypeOK
<1>6. ASSUME NEW s \in Slots, FillSlotEmpty(s) \/ AbandonSlot(s) \/ SlotExpires(s) PROVE IInv'
  BY <1>6, CloseStep DEF FillSlotEmpty, AbandonSlot, SlotExpires
<1>7. CASE SendSettles
  <2>1. inflight # NoEntry
    BY <1>7 DEF SendSettles, IInv, InFlightOK
  <2> QED BY <1>7, <2>1, DrainStep DEF SendSettles
<1>8. CASE SendTimesOut
  <2>1. inflight # NoEntry
    BY <1>8 DEF SendTimesOut, IInv, InFlightOK
  <2> QED BY <1>8, <2>1, DrainStep DEF SendTimesOut
<1>9. CASE DrainWake
  <2>1. inflight = NoEntry
    BY <1>9 DEF DrainWake, IInv, InFlightOK
  <2> QED BY <1>9, <2>1, DrainStep DEF DrainWake
<1>10. CASE DrainFinally
  <2>1. inflight = NoEntry
    BY <1>10 DEF DrainFinally, IInv, InFlightOK
  <2>2. CASE pending # <<>>
    BY <1>10, <2>1, <2>2, DrainStep DEF DrainFinally
  <2>3. CASE pending = <<>>
    <3>1. drain' = "idle" /\ drain = "exited" /\ UNCHANGED <<pending, inflight, calls, started, broken>>
      BY <1>10, <2>3 DEF DrainFinally, RunDrain
    <3> QED BY <1>0, <1>10, <3>1, QuietStep DEF DrainFinally, DrainStates, TypeOK
  <2> QED BY <2>2, <2>3
<1>11. ASSUME NEW e \in Entries, LateReturn(e) PROVE IInv'
  BY <1>0, <1>11, QuietStep DEF LateReturn, TypeOK
<1>12. CASE ReapIdle
  <2>1. slots' \in [Slots -> SlotStates]
        /\ \A t \in Slots : slots'[t] \in {"none", "pending"} => slots[t] \in {"none", "pending"}
    BY <1>0, <1>12 DEF ReapIdle, Opened, TypeOK, SlotStates
  <2>2. drain # "sending" /\ drain' = "idle"
    BY <1>12 DEF ReapIdle, Idle, IInv, InFlightOK
  <2> QED BY <1>12, <2>1, <2>2, QuietStep DEF ReapIdle, DrainStates
<1> QED BY <1>1, <1>2, <1>3, <1>4, <1>5, <1>6, <1>7, <1>8, <1>9, <1>10, <1>11, <1>12 DEF Next

\* A fresh outbox.
LEMMA InvInit == Init => IInv
<1> SUFFICES ASSUME Init PROVE IInv
  OBVIOUS
<1> USE DEF Init
<1>1. Line = <<>> /\ Submitted = {} /\ Ids(pending) = {}
  BY DEF Line, Submitted, Ids
<1>2. TypeOK /\ InFlightOK /\ FreshUnsettled /\ FillsKnown
  BY <1>1 DEF TypeOK, InFlightOK, FreshUnsettled, FillsKnown, SlotStates, DrainStates, Results
<1>3. IsOnce(Line) /\ EarlyAreBroken(started, broken) /\ SerialSends
  BY <1>1 DEF IsOnce, EarlyAreBroken, SerialSends
<1>4. NothingLost
  <2>1. Ids(Line) = Submitted
    BY <1>1 DEF Ids
  <2> QED BY <1>1, <2>1 DEF NothingLost
<1>5. ReplyBeforeWaiters /\ OvertakesOnlyByFill
  BY <1>1 DEF ReplyBeforeWaiters, OvertakesOnlyByFill
<1> QED BY <1>2, <1>3, <1>4, <1>5 DEF IInv

-----------------------------------------------------------------------------
\* The types of the variables of the outbox.
THEOREM OutboxTypes == Spec => []TypeOK
<1>1. IInv => TypeOK
  BY DEF IInv
<1> QED BY <1>1, InvInit, InvStep, PTL DEF Spec

\* INV-5 of outbox.ts: whatever slots do, a submitted entry stands in the line
\* once, and its promise is open exactly while it is queued or in flight.
THEOREM OutboxLosesNothing == Spec => []NothingLost
<1>1. IInv => NothingLost
  BY DEF IInv
<1> QED BY <1>1, InvInit, InvStep, PTL DEF Spec

\* The drain loop has one call in the adapter; the others that have not
\* returned were given up by sendWithTimeout.
THEOREM OutboxSendsSerially == Spec => []SerialSends
<1>1. IInv => SerialSends
  BY DEF IInv
<1> QED BY <1>1, InvInit, InvStep, PTL DEF Spec

\* insertBeforeWaiters: a reply goes out before whatever waited for its slot,
\* unless that was released before the slot was filled.
THEOREM OutboxRepliesFirst == Spec => []ReplyBeforeWaiters
<1>1. IInv => ReplyBeforeWaiters
  BY DEF IInv
<1> QED BY <1>1, InvInit, InvStep, PTL DEF Spec

\* INV-1 of outbox.ts with its one exception, for any number of submissions.
THEOREM OutboxIsFifoButForFills == Spec => []OvertakesOnlyByFill
<1>1. IInv => OvertakesOnlyByFill
  BY DEF IInv
<1> QED BY <1>1, InvInit, InvStep, PTL DEF Spec

-----------------------------------------------------------------------------
(* The pipeline and the outbox together. *)

\* A reply never ranks behind the results of the tasks of its turn.
NoInversion == \A s \in Slots : Rank[Reply[s]] <= Rank[Fire[s]]

Known == Queued \cup Submitted \cup passed

\* Each delivery passes through the queue of the log once.  The reply of a turn
\* is there before the results of its tasks; so a round that visits a result
\* visits the reply as well, unless that was handed over or passed over, and has
\* it first unless the result ranks higher.
QueueOK ==
    /\ turn \in [Slots -> {"before", "running", "committed"}]
    /\ queue \in Seq(Entries)
    /\ round \subseteq Queued
    /\ sending # NoEntry => sending \in Submitted
    /\ \A i \in DOMAIN queue : queue[i] \notin Submitted
    /\ \A i, j \in DOMAIN queue : queue[i] = queue[j] => i = j
    /\ \A s \in Slots : turn[s] = "committed" <=> Reply[s] \in Known
    /\ \A s \in Slots : Fire[s] \in Known => turn[s] = "committed"
    /\ \A s \in Slots, i, j \in DOMAIN queue :
          queue[i] = Fire[s] /\ queue[j] = Reply[s] => j < i
    /\ \A s \in Slots : Fire[s] \in round => Reply[s] \in round \cup Submitted \cup passed
    /\ \A s \in Slots : sending = Fire[s] /\ Reply[s] \in round => Rank[Fire[s]] < Rank[Reply[s]]

InOrder(s) ==
    \E i, j \in DOMAIN Line : i < j /\ Line[i].id = Reply[s] /\ Line[j].id = Fire[s]

OrderOK == \A s \in Slots : Fire[s] \in Submitted => InOrder(s) \/ MayComeFirst(s)

\* What left the queue unbroken, although it named a slot, found its reply there.
ReleasedOK(st, br) ==
    \A i \in DOMAIN st, s \in Slots :
        st[i].after = s /\ st[i].id \notin br => fills[s] = Reply[s]

\* A drain that waits for a slot waits for the one its head names.
WaitOK(d, q) == d = "suspended" => q # <<>> /\ HeldBack(Head(q))

\* What the pipeline has handed to the outbox: one delivery at a time, a reply
\* to the slot of its turn, and the result of a task behind that slot.
HandedOK ==
    /\ \A e \in Submitted : result[e] = "unsettled" => e = sending
    /\ \A s \in Slots : slots[s] = "pending" => Reply[s] \notin Submitted
    /\ \A s \in Slots : slots[s] = "filled" => fills[s] = Reply[s]
    /\ \A i \in DOMAIN Line, s \in Slots : Line[i].after = s <=> Line[i].id = Fire[s]
    /\ ReleasedOK(started, broken)
    /\ WaitOK(drain, pending)

OInv == IInv /\ QueueOK /\ OrderOK /\ HandedOK

\* What the queue of the log is after the delivery at k was taken.
LEMMA TakeDelivery ==
    ASSUME NEW q \in Seq(Entries), NEW k \in DOMAIN q
    PROVE  /\ RemoveAt(q, k) \in Seq(Entries)
           /\ DOMAIN RemoveAt(q, k) = 1 .. Len(q) - 1
           /\ \A i \in 1 .. Len(q) - 1 : RemoveAt(q, k)[i] = q[IF i < k THEN i ELSE i + 1]
<1> DEFINE a == SubSeq(q, 1, k - 1)  b == SubSeq(q, k + 1, Len(q))
<1>0. k \in 1 .. Len(q) /\ Len(q) \in Nat
  OBVIOUS
<1>1. a \in Seq(Entries) /\ Len(a) = k - 1 /\ \A i \in 1 .. k - 1 : a[i] = q[i]
  BY <1>0
<1>2. b \in Seq(Entries) /\ Len(b) = Len(q) - k /\ \A i \in 1 .. Len(q) - k : b[i] = q[i + k]
  BY <1>0
<1> HIDE DEF a, b
<1>3. RemoveAt(q, k) = a \o b
  BY DEF RemoveAt, a, b
<1>4. a \o b \in Seq(Entries) /\ Len(a \o b) = Len(q) - 1
  BY <1>0, <1>1, <1>2
<1>5. \A i \in 1 .. k - 1 : (a \o b)[i] = q[i]
  BY <1>0, <1>1, <1>2
<1>6. \A i \in k .. Len(q) - 1 : (a \o b)[i] = q[i + 1]
  <2>1. TAKE i \in k .. Len(q) - 1
  <2>2. i - (k - 1) \in 1 .. Len(q) - k /\ i - (k - 1) + k = i + 1
    BY <1>0
  <2>3. (a \o b)[i] = b[i - (k - 1)]
    <3>1. i \in 1 .. Len(a) + Len(b) /\ i > Len(a) /\ i - Len(a) = i - (k - 1)
      BY <1>0, <1>1, <1>2
    <3>2. a \in Seq(Entries) /\ b \in Seq(Entries)
      BY <1>1, <1>2
    <3>3. (a \o b)[i] = b[i - Len(a)]
      BY ONLY <3>1, <3>2
    <3> QED BY <3>1, <3>3
  <2> QED BY <1>2, <2>2, <2>3
<1>7. DOMAIN (a \o b) = 1 .. Len(q) - 1
  BY <1>4
<1> DEFINE c == a \o b
<1>8. (\A i \in 1 .. k - 1 : c[i] = q[i]) /\ (\A i \in k .. Len(q) - 1 : c[i] = q[i + 1])
  BY <1>5, <1>6
<1> HIDE DEF c
<1>9. \A i \in 1 .. Len(q) - 1 : c[i] = q[IF i < k THEN i ELSE i + 1]
  BY <1>0, <1>8
<1> QED BY <1>3, <1>4, <1>7, <1>9 DEF c

\* Where a submission puts its entry.
LEMMA SubmissionPlaces ==
    ASSUME IInv, NEW e \in Entries, NEW s \in Slots \cup {NoSlot},
           Post(e, s) \/ (s \in Slots /\ FillSlot(s, e))
    PROVE  \E r \in Entry, p \in Nat :
              /\ r.id = e /\ Placed(Line, Line', p, r)
              /\ Submitted' = Submitted \cup {e} /\ e \notin Submitted
              /\ r.after = IF Post(e, s) THEN s ELSE NoSlot
              /\ Post(e, s) => p = Len(Line) + 1
<1> USE OutboxAssumption
<1>0. TypeOK /\ InFlightOK /\ EarlyAreBroken(started, broken) /\ LineOK
  BY DEF IInv, LineOK, NothingLost
<1>1. ASSUME NEW r \in Entry, r.id = e, NEW q, NEW k, Placed(pending, q, k, r),
             NEW d \in {drain, Signalled}, Kick(q, d), arrival' = Append(arrival, r), e \notin Submitted
      PROVE  /\ Placed(Line, Line', Len(started) + k, r)
             /\ Submitted' = Submitted \cup {e} /\ Len(started) + k \in Nat
  <2>1. q \in Seq(Entry) /\ k \in Nat /\ started \in Seq(Entry)
    BY <1>0, <1>1 DEF Placed, TypeOK
  <2>2. Moves(q, calls)
    BY <1>0, <1>1, <2>1, KickMoves
  <2>3. Line' = started \o q
    BY <2>2 DEF Moves, Line
  <2>4. Placed(Line, Line', Len(started) + k, r)
    BY <1>0, <1>1, <2>3, PlacedInLine DEF TypeOK, Line
  <2>5. Submitted' = Submitted \cup {e}
    BY <1>0, <1>1, <2>4, LongerLine
  <2> QED BY <2>1, <2>4, <2>5
<1>2. CASE Post(e, s)
  <2> DEFINE r == [id |-> e, after |-> s]
  <2>1. r \in Entry /\ r.id = e /\ r.after = s /\ e \notin Submitted
    BY <1>2 DEF Post, Entry
  <2>2. arrival' = Append(arrival, r) /\ Kick(Append(pending, r), drain)
    BY <1>2 DEF Post
  <2> HIDE DEF r
  <2>3. Placed(pending, Append(pending, r), Len(pending) + 1, r)
    BY <1>0, <2>1, AppendPlaces DEF TypeOK
  <2>4. Len(started) + (Len(pending) + 1) = Len(Line) + 1
    BY <1>0 DEF TypeOK, Line
  <2>5. /\ Placed(Line, Line', Len(started) + (Len(pending) + 1), r)
        /\ Submitted' = Submitted \cup {e} /\ Len(started) + (Len(pending) + 1) \in Nat
    BY <1>1, <2>1, <2>2, <2>3
  <2> QED BY <1>2, <2>1, <2>4, <2>5
<1>3. CASE s \in Slots /\ FillSlot(s, e)
  <2> DEFINE r == [id |-> e, after |-> NoSlot]
             q == InsertBeforeWaiters(r, s)
  <2>1. r \in Entry /\ r.id = e /\ r.after = NoSlot /\ e \notin Submitted /\ slots[s] = "pending"
    BY <1>3 DEF FillSlot, Entry
  <2>2. arrival' = Append(arrival, r) /\ Kick(q, Signalled) /\ slots' # slots
    BY <1>0, <1>3 DEF FillSlot, TypeOK
  <2> HIDE DEF r
  <2>3. PICK k \in 1 .. Len(pending) + 1 : Placed(pending, q, k, r)
    BY <1>0, <1>3, <2>1, InsertionPlace
  <2> HIDE DEF q
  <2>4. /\ Placed(Line, Line', Len(started) + k, r)
        /\ Submitted' = Submitted \cup {e} /\ Len(started) + k \in Nat
    BY <1>1, <2>1, <2>2, <2>3
  <2>5. ~Post(e, s)
    BY <2>2 DEF Post
  <2> QED BY <2>1, <2>4, <2>5
<1> QED BY <1>2, <1>3

\* A pair in the line stays in its order when another entry is put there.
LEMMA InOrderStays ==
    ASSUME TypeOK, NEW s \in Slots, InOrder(s), NEW r \in Entry, NEW p \in Nat, Placed(Line, Line', p, r)
    PROVE  InOrder(s)'
<1>1. PICK i \in DOMAIN Line, j \in DOMAIN Line :
          i < j /\ Line[i].id = Reply[s] /\ Line[j].id = Fire[s]
  BY DEF InOrder
<1>2. \A a \in DOMAIN Line : \E b \in DOMAIN Line' :
          b # p /\ Line'[b] = Line[a] /\ b = IF a < p THEN a ELSE a + 1
  BY LineElements
<1>3. PICK a \in DOMAIN Line' : Line'[a] = Line[i] /\ a = IF i < p THEN i ELSE i + 1
  BY <1>1, <1>2
<1>4. PICK b \in DOMAIN Line' : Line'[b] = Line[j] /\ b = IF j < p THEN j ELSE j + 1
  BY <1>1, <1>2
<1>5. DOMAIN Line \subseteq Nat
  BY DEF Line, TypeOK
<1>6. a < b
  BY <1>1, <1>3, <1>4, <1>5
<1> QED BY <1>1, <1>3, <1>4, <1>6 DEF InOrder

\* A step of the outbox that submits nothing leaves the line as it is.
LEMMA OutboxStepKeepsLine ==
    ASSUME IInv, OutboxStep
    PROVE  Line' = Line /\ UNCHANGED <<arrival, turn, queue, round, sending, passed>> /\ [Next]_vars
<1>0. /\ TypeOK /\ EarlyAreBroken(started, broken)
      /\ pending \in Seq(Entry) /\ calls \in SUBSET Entries
  BY DEF IInv, TypeOK
<1>1. ASSUME NEW c \in SUBSET Entries, RunDrain(pending, c) PROVE Line' = Line
  <2>1. Moves(pending, c)
    BY <1>0, <1>1, RunDrainMoves
  <2> QED BY <2>1 DEF Moves, Line
<1>2. CASE DrainWake
  BY <1>0, <1>1, <1>2 DEF DrainWake, OutboxStep, Next
<1>3. CASE DrainFinally
  <2>1. Line' = Line
    BY <1>0, <1>1, <1>3 DEF DrainFinally, Line
  <2> QED BY <1>3, <2>1 DEF DrainFinally, OutboxStep, Next
<1>4. CASE SendSettles
  <2>1. calls \ {inflight} \in SUBSET Entries
    BY <1>0
  <2> QED BY <1>1, <1>4, <2>1 DEF SendSettles, OutboxStep, Next
<1>5. CASE SendTimesOut
  BY <1>0, <1>1, <1>5 DEF SendTimesOut, OutboxStep, Next
<1>6. ASSUME NEW s \in Slots, SlotExpires(s)
      PROVE  Line' = Line /\ UNCHANGED <<arrival, turn, queue, round, sending, passed>> /\ [Next]_vars
  BY <1>6 DEF SlotExpires, CloseSlot, OutboxStep, Next, Line
<1>7. ASSUME NEW e \in Entries, LateReturn(e)
      PROVE  Line' = Line /\ UNCHANGED <<arrival, turn, queue, round, sending, passed>> /\ [Next]_vars
  BY <1>7 DEF LateReturn, OutboxStep, Next, Line
<1>8. CASE ReapIdle
  BY <1>8 DEF ReapIdle, OutboxStep, Next, Line
<1> QED BY <1>2, <1>3, <1>4, <1>5, <1>6, <1>7, <1>8 DEF OutboxStep

\* A step that leaves the line and the arrivals alone keeps the order in the line.
LEMMA OrderStays ==
    ASSUME OrderOK, Line' = Line, UNCHANGED arrival, passed \subseteq passed'
    PROVE  OrderOK' /\ Submitted' = Submitted
<1>1. Submitted' = Submitted
  BY DEF Submitted
<1> QED BY <1>1 DEF OrderOK, InOrder, MayComeFirst

\* A delivery put in the queue of the log: the reply of a turn that commits, or
\* the result of a task whose reply is there already.
LEMMA EnqueueStep ==
    ASSUME QueueOK, NEW d \in Entries, d \notin Known,
           queue' = Append(queue, d), UNCHANGED <<arrival, round, sending, passed>>,
           turn' \in [Slots -> {"before", "running", "committed"}],
           \A s \in Slots : turn'[s] = "committed" <=> turn[s] = "committed" \/ d = Reply[s],
           \A s \in Slots : d = Fire[s] => turn[s] = "committed"
    PROVE  QueueOK'
<1> USE OrderAssumption
<1>1. /\ queue \in Seq(Entries) /\ queue' \in Seq(Entries)
      /\ DOMAIN queue = 1 .. Len(queue) /\ DOMAIN queue' = 1 .. Len(queue) + 1 /\ Len(queue) \in Nat
      /\ queue'[Len(queue) + 1] = d /\ \A i \in 1 .. Len(queue) : queue'[i] = queue[i]
  BY DEF QueueOK
<1>2. Submitted' = Submitted
  BY DEF Submitted
<1>3. Queued' = Queued \cup {d}
  <2>1. \A i \in DOMAIN queue' : queue'[i] \in Queued \cup {d}
    BY <1>1 DEF Queued
  <2>2. \A i \in DOMAIN queue : i \in DOMAIN queue' /\ queue'[i] = queue[i]
    BY <1>1
  <2>3. Len(queue) + 1 \in DOMAIN queue'
    BY <1>1
  <2> QED BY <1>1, <2>1, <2>2, <2>3 DEF Queued
<1>4. Known' = Known \cup {d}
  BY <1>2, <1>3 DEF Known
<1>5. \A k \in DOMAIN queue : queue[k] # d
  BY DEF Queued, Known
<1>6. \A i \in DOMAIN queue' : queue'[i] \notin Submitted'
  BY <1>1, <1>2 DEF QueueOK, Known
<1>7. ASSUME NEW i \in DOMAIN queue', NEW j \in DOMAIN queue', queue'[i] = queue'[j] PROVE i = j
  BY <1>1, <1>5, <1>7 DEF QueueOK
<1>8. \A s \in Slots : turn'[s] = "committed" <=> Reply[s] \in Known'
  BY <1>4 DEF QueueOK
<1>9. \A s \in Slots : Fire[s] \in Known' => turn'[s] = "committed"
  BY <1>4 DEF QueueOK
<1>10. ASSUME NEW s \in Slots, NEW i \in DOMAIN queue', NEW j \in DOMAIN queue',
              queue'[i] = Fire[s], queue'[j] = Reply[s]
       PROVE  j < i
  <2>1. j # Len(queue) + 1
    <3>1. SUFFICES ASSUME j = Len(queue) + 1 PROVE FALSE
      OBVIOUS
    <3>2. d = Reply[s] /\ d # Fire[s]
      BY <1>1, <1>10, <3>1
    <3>3. Fire[s] \in Known
      BY <1>3, <1>10, <3>2 DEF Queued, Known
    <3> QED BY <3>2, <3>3 DEF QueueOK
  <2>2. j \in DOMAIN queue /\ queue[j] = Reply[s]
    BY <1>1, <1>10, <2>1
  <2>3. CASE i = Len(queue) + 1
    BY <1>1, <2>2, <2>3
  <2>4. CASE i # Len(queue) + 1
    <3>1. i \in DOMAIN queue /\ queue[i] = Fire[s]
      BY <1>1, <1>10, <2>4
    <3> QED BY <2>2, <3>1 DEF QueueOK
  <2> QED BY <2>3, <2>4
<1>11. round' \subseteq Queued'
  BY <1>3 DEF QueueOK
<1>12. sending' # NoEntry => sending' \in Submitted'
  BY <1>2 DEF QueueOK
<1>13. \A s \in Slots : Fire[s] \in round' => Reply[s] \in round' \cup Submitted' \cup passed'
  BY <1>2 DEF QueueOK
<1>14. \A s \in Slots : sending' = Fire[s] /\ Reply[s] \in round' => Rank[Fire[s]] < Rank[Reply[s]]
  BY DEF QueueOK
<1> QED BY <1>1, <1>6, <1>7, <1>8, <1>9, <1>10, <1>11, <1>12, <1>13, <1>14 DEF QueueOK

\* Whom #drain can take before the reply of its turn.
LEMMA WhoIsNext ==
    ASSUME QueueOK, NEW k \in DOMAIN queue, IsNext(k), NEW s \in Slots, queue[k] = Fire[s]
    PROVE  /\ Reply[s] \in round => Rank[Fire[s]] < Rank[Reply[s]]
           /\ Reply[s] \in Submitted \/ MayComeFirst(s)
<1> USE OrderAssumption
<1>1. ASSUME Reply[s] \in round PROVE Rank[Fire[s]] < Rank[Reply[s]]
  <2>1. PICK j \in DOMAIN queue : queue[j] = Reply[s]
    BY <1>1 DEF QueueOK, Queued
  <2>2. j < k /\ j \in Nat /\ k \in Nat
    BY <2>1 DEF QueueOK
  <2>3. Rank[Fire[s]] < Rank[Reply[s]] \/ k < j
    BY <1>1, <2>1, <2>2 DEF IsNext
  <2> QED BY <2>2, <2>3
<1>2. Reply[s] \in round \cup Submitted \cup passed
  BY DEF QueueOK, IsNext
<1> QED BY <1>1, <1>2 DEF MayComeFirst

\* The delivery that #drain takes and does not defer leaves the queue: it is
\* submitted, or has failed for good.
LEMMA TakeStep ==
    ASSUME QueueOK, NEW k \in DOMAIN queue, Takes(k),
           queue' = RemoveAt(queue, k), UNCHANGED turn,
           Submitted' \cup passed' = Submitted \cup passed \cup {queue[k]},
           Submitted' \in {Submitted, Submitted \cup {queue[k]}},
           sending' = NoEntry \/ (sending' = queue[k] /\ queue[k] \in Submitted')
    PROVE  QueueOK'
<1> USE OrderAssumption, OutboxAssumption
<1> DEFINE at(i) == IF i < k THEN i ELSE i + 1
<1>1. /\ queue \in Seq(Entries) /\ DOMAIN queue = 1 .. Len(queue) /\ Len(queue) \in Nat
      /\ IsNext(k) /\ round' = round \ {queue[k]}
  BY DEF QueueOK, Takes
<1>2. /\ queue' \in Seq(Entries) /\ DOMAIN queue' = 1 .. Len(queue) - 1
      /\ \A i \in DOMAIN queue' : queue'[i] = queue[at(i)]
  <2>1. /\ RemoveAt(queue, k) \in Seq(Entries)
        /\ DOMAIN RemoveAt(queue, k) = 1 .. Len(queue) - 1
        /\ \A i \in 1 .. Len(queue) - 1 : RemoveAt(queue, k)[i] = queue[IF i < k THEN i ELSE i + 1]
    BY <1>1, TakeDelivery
  <2> QED BY <2>1
<1>3. \A i \in DOMAIN queue' : at(i) \in DOMAIN queue /\ at(i) # k
  BY <1>1, <1>2, SMTT(30)
<1>4. \A j \in DOMAIN queue : j # k => \E i \in DOMAIN queue' : j = at(i)
  <2>1. TAKE j \in DOMAIN queue
  <2>2. CASE j < k
    BY <1>1, <1>2, <2>2
  <2>3. CASE j > k
    <3>1. j - 1 \in DOMAIN queue' /\ j = at(j - 1)
      BY <1>1, <1>2, <2>3, SMTT(30)
    <3> QED BY <3>1
  <2> QED BY <1>1, <2>2, <2>3
<1>5. \A i, j \in DOMAIN queue' : (at(i) = at(j) => i = j) /\ (at(i) < at(j) => i < j)
  <2>1. DOMAIN queue' \subseteq Nat /\ k \in Nat
    BY <1>1, <1>2
  <2> QED BY ONLY <2>1
<1> HIDE DEF at
<1>6. Queued' = Queued \ {queue[k]}
  BY <1>2, <1>3, <1>4, SMTT(30) DEF Queued, QueueOK
<1>7. Known' = Known
  BY <1>6 DEF Queued, Known
<1>8. \A i \in DOMAIN queue' : queue'[i] \notin Submitted'
  BY <1>2, <1>3 DEF QueueOK
<1>9. \A i, j \in DOMAIN queue' : queue'[i] = queue'[j] => i = j
  BY <1>2, <1>3, <1>5 DEF QueueOK
<1>10. ASSUME NEW s \in Slots, NEW i \in DOMAIN queue', NEW j \in DOMAIN queue',
              queue'[i] = Fire[s], queue'[j] = Reply[s]
       PROVE  j < i
  <2>1. at(j) < at(i)
    BY <1>2, <1>3, <1>10 DEF QueueOK
  <2> QED BY <1>5, <2>1
<1>11. \A s \in Slots : turn'[s] = "committed" <=> Reply[s] \in Known'
  BY <1>7 DEF QueueOK
<1>12. \A s \in Slots : Fire[s] \in Known' => turn'[s] = "committed"
  BY <1>7 DEF QueueOK
<1>13. round' \subseteq Queued' /\ turn' \in [Slots -> {"before", "running", "committed"}]
  BY <1>1, <1>6 DEF QueueOK
<1>14. \A s \in Slots : Fire[s] \in round' => Reply[s] \in round' \cup Submitted' \cup passed'
  BY <1>1 DEF QueueOK
<1>15. \A s \in Slots : sending' = Fire[s] /\ Reply[s] \in round' => Rank[Fire[s]] < Rank[Reply[s]]
  BY <1>1, WhoIsNext
<1>16. sending' # NoEntry => sending' \in Submitted'
  OBVIOUS
<1> QED BY <1>2, <1>8, <1>9, <1>10, <1>11, <1>12, <1>13, <1>14, <1>15, <1>16 DEF QueueOK



\* The head of the queue is in the line, and its promise has not settled.
LEMMA HeadIsAwaited ==
    ASSUME IInv, pending # <<>>
    PROVE  /\ Head(pending) \in Entry /\ \E n \in DOMAIN Line : Line[n] = Head(pending)
           /\ Head(pending).id \in Submitted /\ result[Head(pending).id] = "unsettled"
<1>1. /\ started \in Seq(Entry) /\ pending \in Seq(Entry) /\ Line \in Seq(Entry)
      /\ Head(pending) = pending[1] /\ Head(pending) \in Entry /\ 1 \in DOMAIN pending
  BY DEF IInv, TypeOK, Line
<1>2. Len(started) + 1 \in DOMAIN Line /\ Line[Len(started) + 1] = Head(pending)
  BY <1>1 DEF Line
<1>3. Head(pending).id \in Ids(pending) /\ Head(pending).id \in Ids(Line)
  BY <1>1, <1>2 DEF Ids
<1> QED BY <1>1, <1>2, <1>3 DEF IInv, NothingLost
\* drain() from the top of its loop: it waits for the slot its head names, and
\* sends without a causal-broken event only what has no slot or a filled one.
LEMMA RunDrainWaits ==
    ASSUME TypeOK, ReleasedOK(started, broken), \A s \in Slots : slots[s] = "filled" => fills[s] = Reply[s],
           NEW q \in Seq(Entry), NEW c, RunDrain(q, c)
    PROVE  ReleasedOK(started', broken') /\ WaitOK(drain', pending')
<1> USE OutboxAssumption
<1>1. CASE UNCHANGED <<started, broken>> /\ pending' = q
           /\ (drain' = "exited" \/ (drain' = "suspended" /\ q # <<>> /\ HeldBack(Head(q))))
  BY <1>1 DEF ReleasedOK, WaitOK
<1>2. CASE /\ q # <<>> /\ ~HeldBack(Head(q)) /\ drain' = "sending"
           /\ started' = Append(started, Head(q))
           /\ broken' = IF CausalBroken(Head(q)) THEN broken \cup {Head(q).id} ELSE broken
  <2> DEFINE h == Head(q)
  <2>1. started \in Seq(Entry) /\ h \in Entry
    BY <1>2 DEF TypeOK
  <2> HIDE DEF h
  <2>2. /\ DOMAIN started' = 1 .. Len(started) + 1 /\ DOMAIN started = 1 .. Len(started)
        /\ Len(started) \in Nat
        /\ started'[Len(started) + 1] = h /\ \A i \in 1 .. Len(started) : started'[i] = started[i]
    BY <1>2, <2>1 DEF h
  <2>3. ASSUME NEW i \in DOMAIN started', NEW s \in Slots,
               started'[i].after = s, started'[i].id \notin broken'
        PROVE  fills[s] = Reply[s]
    <3>1. CASE i = Len(started) + 1
      <4>1. h.after = s /\ h.id \notin broken' /\ s # NoSlot
        BY <2>2, <2>3, <3>1
      <4>2. slots[s] = "filled"
        BY <1>2, <4>1 DEF HeldBack, CausalBroken, h
      <4> QED BY <4>2
    <3>2. CASE i # Len(started) + 1
      <4>1. i \in DOMAIN started /\ started'[i] = started[i] /\ started[i].id \notin broken
        BY <1>2, <2>2, <2>3, <3>2
      <4> QED BY <2>3, <4>1 DEF ReleasedOK
    <3> QED BY <3>1, <3>2
  <2> QED BY <1>2, <2>3 DEF ReleasedOK, WaitOK
<1> QED BY <1>1, <1>2 DEF RunDrain

\* kick() after a submission that finds no drain waiting for a slot.
LEMMA KickWaits ==
    ASSUME TypeOK, ReleasedOK(started, broken), \A s \in Slots : slots[s] = "filled" => fills[s] = Reply[s],
           NEW q \in Seq(Entry), NEW d, d # "suspended", Kick(q, d)
    PROVE  ReleasedOK(started', broken') /\ WaitOK(drain', pending')
<1>1. CASE drain = "idle" /\ RunDrain(q, calls)
  BY <1>1, RunDrainWaits
<1>2. CASE drain # "idle" /\ pending' = q /\ drain' = d /\ UNCHANGED <<started, broken>>
  BY <1>2 DEF ReleasedOK, WaitOK
<1> QED BY <1>1, <1>2 DEF Kick

\* The steps of the outbox that submit nothing keep what is known of the
\* deliveries handed to it.
LEMMA OutboxStepKeepsHanded ==
    ASSUME IInv, HandedOK, OutboxStep
    PROVE  HandedOK'
<1> USE OutboxAssumption, OrderAssumption
<1>0. /\ TypeOK /\ ReleasedOK(started, broken) /\ WaitOK(drain, pending) /\ pending \in Seq(Entry)
      /\ \A s \in Slots : slots[s] = "filled" => fills[s] = Reply[s]
  BY DEF IInv, HandedOK, TypeOK
<1>1. Line' = Line /\ Submitted' = Submitted /\ sending' = sending
  BY OutboxStepKeepsLine DEF Submitted
<1>2. SUFFICES /\ \A e \in Entries : result'[e] = "unsettled" => result[e] = "unsettled"
               /\ fills' = fills
               /\ \A s \in Slots : slots'[s] \in {"pending", "filled"} => slots'[s] = slots[s]
               /\ ReleasedOK(started', broken')
               /\ WaitOK(drain, pending)'
  <2>1. Submitted \subseteq Entries
    BY <1>0, IdsType DEF Submitted, TypeOK
  <2>2. ReleasedOK(started, broken)' <=> ReleasedOK(started', broken')
    BY <1>2 DEF ReleasedOK
  <2>3. ReleasedOK(started, broken)' /\ WaitOK(drain, pending)'
    BY <1>2, <2>2
  <2>4. \A e \in Submitted' : result'[e] = "unsettled" => e = sending'
    BY <1>1, <1>2, <2>1 DEF HandedOK
  <2>5. \A s \in Slots : slots'[s] = "pending" => Reply[s] \notin Submitted'
    BY <1>1, <1>2 DEF HandedOK
  <2>6. \A s \in Slots : slots'[s] = "filled" => fills'[s] = Reply[s]
    BY <1>2 DEF HandedOK
  <2>7. \A i \in DOMAIN Line', s \in Slots : Line'[i].after = s <=> Line'[i].id = Fire[s]
    BY <1>1 DEF HandedOK
  <2> QED BY <2>3, <2>4, <2>5, <2>6, <2>7 DEF HandedOK
<1>3. ASSUME NEW c, RunDrain(pending, c), UNCHANGED <<slots, fills>>
      PROVE  ReleasedOK(started', broken') /\ WaitOK(drain, pending)'
  <2>1. ReleasedOK(started', broken') /\ WaitOK(drain', pending')
    BY <1>0, <1>3, RunDrainWaits
  <2> QED BY <1>3, <2>1 DEF WaitOK, HeldBack
<1>4. CASE DrainWake
  BY <1>3, <1>4 DEF DrainWake
<1>5. CASE DrainFinally
  <2>1. CASE RunDrain(pending, calls)
    BY <1>3, <1>5, <2>1 DEF DrainFinally
  <2>2. CASE drain' = "idle" /\ UNCHANGED <<started, broken>>
    BY <1>0, <1>5, <2>2 DEF DrainFinally, WaitOK, ReleasedOK
  <2> QED BY <1>5, <2>1, <2>2 DEF DrainFinally
<1>6. CASE SendSettles
  <2>1. \A e \in Entries : result'[e] = "unsettled" => result[e] = "unsettled"
    BY <1>0, <1>6 DEF SendSettles, TypeOK
  <2> QED BY <1>3, <1>6, <2>1 DEF SendSettles
<1>7. CASE SendTimesOut
  <2>1. \A e \in Entries : result'[e] = "unsettled" => result[e] = "unsettled"
    BY <1>0, <1>7 DEF SendTimesOut, TypeOK
  <2> QED BY <1>3, <1>7, <2>1 DEF SendTimesOut
<1>8. ASSUME NEW s \in Slots, SlotExpires(s)
      PROVE  /\ \A e \in Entries : result'[e] = "unsettled" => result[e] = "unsettled"
             /\ fills' = fills
             /\ \A t \in Slots : slots'[t] \in {"pending", "filled"} => slots'[t] = slots[t]
             /\ ReleasedOK(started', broken')
             /\ WaitOK(drain, pending)'
  <2>1. /\ slots' = [slots EXCEPT ![s] = "expired"] /\ drain' = Signalled
        /\ UNCHANGED <<pending, result, started, broken, fills>>
    BY <1>8 DEF SlotExpires, CloseSlot
  <2>2. \A t \in Slots : slots'[t] \in {"pending", "filled"} => slots'[t] = slots[t]
    BY <1>0, <2>1 DEF TypeOK
  <2> QED BY <1>0, <2>1, <2>2 DEF Signalled, WaitOK, ReleasedOK
<1>9. ASSUME NEW e \in Entries, LateReturn(e)
      PROVE  /\ UNCHANGED <<result, fills, slots>>
             /\ ReleasedOK(started', broken')
             /\ WaitOK(drain, pending)'
  BY <1>0, <1>9 DEF LateReturn, WaitOK, HeldBack, ReleasedOK
<1>10. CASE ReapIdle
  <2>1. /\ slots' = [s \in Slots |-> IF Opened(s) THEN "reaped" ELSE slots[s]] /\ drain' = "idle"
        /\ UNCHANGED <<pending, result, started, broken, fills>>
    BY <1>10 DEF ReapIdle
  <2>2. \A t \in Slots : slots'[t] \in {"pending", "filled"} => slots'[t] = slots[t]
    BY <2>1
  <2> QED BY <1>0, <2>1, <2>2 DEF WaitOK, ReleasedOK
<1> QED BY <1>4, <1>5, <1>6, <1>7, <1>8, <1>9, <1>10 DEF OutboxStep

\* send() of the channel effect hands one delivery to an outbox that has settled
\* all the others.
LEMMA SubmissionKeepsHanded ==
    ASSUME IInv, HandedOK, sending = NoEntry, NEW e \in Entries, sending' = e,
           NEW t \in Slots \cup {NoSlot},
           \/ t \in Slots /\ e = Reply[t] /\ FillSlot(t, e)
           \/ t = NoSlot /\ Post(e, t) /\ \E s \in Slots : e = Reply[s] /\ slots[s] # "pending"
           \/ t \in Slots /\ e = Fire[t] /\ Post(e, t)
    PROVE  HandedOK'
<1> USE OutboxAssumption, OrderAssumption
<1>0. /\ TypeOK /\ ReleasedOK(started, broken) /\ WaitOK(drain, pending) /\ pending \in Seq(Entry)
      /\ \A s \in Slots : slots[s] = "filled" => fills[s] = Reply[s]
      /\ Submitted \subseteq Entries /\ slots \in [Slots -> SlotStates] /\ DOMAIN fills = Slots
  BY IdsType DEF IInv, HandedOK, TypeOK, Submitted
<1>1. PICK r \in Entry, p \in Nat :
          /\ r.id = e /\ Placed(Line, Line', p, r)
          /\ Submitted' = Submitted \cup {e} /\ e \notin Submitted
          /\ r.after = IF Post(e, t) THEN t ELSE NoSlot
          /\ Post(e, t) => p = Len(Line) + 1
  BY SubmissionPlaces
<1>2. \A a \in Submitted' : result'[a] = "unsettled" => a = sending'
  <2>1. result' = result
    BY DEF Post, FillSlot
  <2> QED BY <1>0, <1>1, <2>1 DEF HandedOK
<1>3. Post(e, t) => ~ (t \in Slots /\ FillSlot(t, e))
  BY <1>0 DEF Post, FillSlot
<1>4. Line \in Seq(Entry)
  BY <1>0 DEF TypeOK, Line
<1>5. \A i \in DOMAIN Line', s \in Slots : Line'[i].after = s <=> Line'[i].id = Fire[s]
  <2>1. TAKE i \in DOMAIN Line', s \in Slots
  <2>2. CASE i = p
    <3>1. Line'[i] = r
      BY <1>1, <2>2 DEF Placed
    <3>2. CASE Post(e, t)
      <4>1. Line'[i].after = t /\ Line'[i].id = e
        BY <1>1, <3>1, <3>2
      <4>2. CASE t = NoSlot /\ \E u \in Slots : e = Reply[u]
        BY <4>1, <4>2
      <4>3. CASE t \in Slots /\ e = Fire[t]
        BY <4>1, <4>3
      <4> QED BY <1>3, <3>2, <4>2, <4>3
    <3>3. CASE ~Post(e, t)
      BY <1>1, <3>1, <3>3
    <3> QED BY <3>2, <3>3
  <2>3. CASE i # p
    <3>1. PICK j \in DOMAIN Line : Line'[i] = Line[j]
      BY <1>1, <1>4, <2>3, PlacedElements
    <3> QED BY <3>1 DEF HandedOK
  <2> QED BY <2>2, <2>3
<1>6. pending = <<>>
  BY <1>0, HeadIsAwaited DEF HandedOK
<1>7. CASE Post(e, t)
  <2>1. UNCHANGED <<slots, fills>> /\ Kick(Append(pending, [id |-> e, after |-> t]), drain)
    BY <1>7 DEF Post
  <2> DEFINE n == [id |-> e, after |-> t]
  <2>2. n \in Entry
    BY DEF Entry
  <2> HIDE DEF n
  <2>3. Append(pending, n) \in Seq(Entry) /\ drain # "suspended"
    BY <1>0, <1>6, <2>2 DEF WaitOK
  <2>4. Kick(Append(pending, n), drain)
    BY <2>1 DEF n
  <2>5. ReleasedOK(started', broken') /\ WaitOK(drain', pending')
    BY <1>0, <2>2, <2>3, <2>4, KickWaits
  <2>6. ReleasedOK(started, broken)' /\ WaitOK(drain, pending)'
    BY <2>1, <2>5 DEF ReleasedOK, WaitOK, HeldBack
  <2>7. \A s \in Slots : slots'[s] = "pending" => Reply[s] \notin Submitted'
    <3>1. ~ (t \in Slots /\ FillSlot(t, e))
      BY <1>0, <2>1 DEF FillSlot
    <3>2. \A s \in Slots : slots[s] = "pending" => e # Reply[s]
      BY <3>1
    <3> QED BY <1>1, <2>1, <3>2 DEF HandedOK
  <2>8. \A s \in Slots : slots'[s] = "filled" => fills'[s] = Reply[s]
    BY <1>0, <2>1
  <2> QED BY <1>2, <1>5, <2>6, <2>7, <2>8 DEF HandedOK
<1>8. CASE t \in Slots /\ e = Reply[t] /\ FillSlot(t, e)
  <2> DEFINE n == [id |-> e, after |-> NoSlot]
             q == InsertBeforeWaiters(n, t)
  <2>1. /\ slots[t] = "pending" /\ slots' = [slots EXCEPT ![t] = "filled"]
        /\ fills' = [fills EXCEPT ![t] = e] /\ Kick(q, Signalled)
    BY <1>8 DEF FillSlot
  <2>2. n \in Entry
    BY DEF Entry
  <2> HIDE DEF n
  <2>3. PICK k \in 1 .. Len(pending) + 1 : Placed(pending, q, k, n)
    BY <1>0, <1>8, <2>2, InsertionPlace
  <2> HIDE DEF q
  <2>4. q \in Seq(Entry) /\ Signalled # "suspended"
    BY <2>3 DEF Placed, Signalled
  <2>5. ReleasedOK(started', broken') /\ WaitOK(drain', pending')
    BY <1>0, <2>1, <2>4, KickWaits
  <2>6. \A s \in Slots : fills'[s] = IF s = t THEN Reply[t] ELSE fills[s]
    BY <1>0, <1>8, <2>1
  <2>7. \A s \in Slots : slots'[s] = IF s = t THEN "filled" ELSE slots[s]
    BY <1>0, <1>8, <2>1
  <2>8. ReleasedOK(started, broken)'
    BY <2>5, <2>6 DEF ReleasedOK
  <2>9. WaitOK(drain, pending)'
    <3>1. drain' # "suspended"
      <4>0. Len(q) = 1 /\ q[1] = n
        BY <1>6, <2>3 DEF Placed
      <4>1. q # <<>> /\ Head(q) = n
        <5>1. ASSUME q = <<>> PROVE FALSE
          BY <4>0, <5>1
        <5>2. Head(q) = q[1]
          BY <2>4, <5>1
        <5> QED BY <4>0, <5>1, <5>2
      <4>2. n.after = NoSlot
        BY DEF n
      <4>3. ~HeldBack(Head(q))
        BY <4>1, <4>2 DEF HeldBack
      <4> QED BY <2>1, <2>4, <4>1, <4>3 DEF Kick, RunDrain
    <3> QED BY <3>1 DEF WaitOK
  <2>10. \A s \in Slots : slots'[s] = "pending" => Reply[s] \notin Submitted'
    BY <1>1, <1>8, <2>7 DEF HandedOK
  <2>11. \A s \in Slots : slots'[s] = "filled" => fills'[s] = Reply[s]
    BY <1>0, <2>6, <2>7
  <2> QED BY <1>2, <1>5, <2>8, <2>9, <2>10, <2>11 DEF HandedOK
<1> QED BY <1>7, <1>8

\* #process claims a delivery and hands it over.
LEMMA SendStep ==
    ASSUME OInv, NEW k \in DOMAIN queue, PipelineSends(k)
    PROVE  OInv' /\ [Next]_vars
<1> USE OutboxAssumption, OrderAssumption
<1> DEFINE e == queue[k]
<1>1. IInv /\ TypeOK /\ QueueOK /\ HandedOK /\ OrderOK /\ e \in Entries /\ LineOK
  BY DEF OInv, IInv, QueueOK, LineOK, NothingLost
<1>2. /\ Takes(k) /\ IsNext(k) /\ sending = NoEntry
      /\ queue' = RemoveAt(queue, k) /\ sending' = e /\ UNCHANGED <<turn, passed>>
  BY DEF PipelineSends, Takes
<1>3. PICK t \in Slots \cup {NoSlot} :
          \/ t \in Slots /\ e = Reply[t] /\ FillSlot(t, e)
          \/ t = NoSlot /\ Post(e, t) /\ \E s \in Slots : e = Reply[s] /\ slots[s] # "pending"
          \/ t \in Slots /\ e = Fire[t] /\ Post(e, t)
  <2>1. PICK s \in Slots : \/ e = Reply[s] /\ (FillSlot(s, e) \/ FillSlotDegraded(s, e))
                           \/ e = Fire[s] /\ Post(e, s)
    BY DEF PipelineSends
  <2> HIDE DEF e
  <2> QED BY <2>1 DEF FillSlotDegraded
<1>4. [Next]_vars
  <2> HIDE DEF e
  <2> QED BY <1>1, <1>3 DEF Next
<1>5. IInv'
  BY <1>1, <1>4, InvStep
<1>6. PICK r \in Entry, p \in Nat :
              /\ r.id = e /\ Placed(Line, Line', p, r)
              /\ Submitted' = Submitted \cup {e} /\ e \notin Submitted
              /\ Post(e, t) => p = Len(Line) + 1
  <2> HIDE DEF e
  <2> QED BY <1>1, <1>3, SubmissionPlaces
<1>7. QueueOK'
  BY <1>1, <1>2, <1>6, TakeStep
<1>8. HandedOK'
  <2> HIDE DEF e
  <2> QED BY <1>1, <1>2, <1>3, SubmissionKeepsHanded
<1>9. ASSUME NEW u \in Slots, Fire[u] \in Submitted' PROVE InOrder(u)' \/ MayComeFirst(u)'
  <2>1. CASE MayComeFirst(u)
    BY <1>2, <2>1 DEF MayComeFirst
  <2>2. CASE ~MayComeFirst(u) /\ Fire[u] \in Submitted
    BY <1>1, <1>6, <2>2, InOrderStays DEF OrderOK
  <2>3. CASE ~MayComeFirst(u) /\ Fire[u] \notin Submitted
    <3>1. e = Fire[u]
      BY <1>6, <1>9, <2>3
    <3>2. p = Len(Line) + 1
      <4> HIDE DEF e
      <4> QED BY <1>3, <1>6, <3>1
    <3>3. Reply[u] \in Submitted
      BY <1>1, <1>2, <2>3, <3>1, WhoIsNext
    <3>4. PICK i \in DOMAIN Line : Line[i].id = Reply[u]
      <4>1. Reply[u] \in Ids(Line)
        BY <1>1, <3>3 DEF LineOK
      <4> QED BY <4>1 DEF Ids
    <3>5. Line \in Seq(Entry) /\ i \in 1 .. Len(Line)
      BY <1>1 DEF Line, TypeOK
    <3>6. p \in DOMAIN Line' /\ i \in DOMAIN Line' /\ i < p /\ Line'[i] = Line[i] /\ Line'[p] = r
      BY <1>6, <3>2, <3>5 DEF Placed
    <3> QED BY <1>6, <3>1, <3>4, <3>6 DEF InOrder
  <2> QED BY <2>1, <2>2, <2>3
<1>10. OInv'
  BY <1>5, <1>7, <1>8, <1>9 DEF OInv, OrderOK
<1> QED BY <1>4, <1>10

\* The outbox rests: what the invariant says of it stays.
LEMMA OutboxRests ==
    ASSUME OInv, UNCHANGED vars, passed \subseteq passed'
    PROVE  /\ IInv' /\ OrderOK' /\ [Next]_vars /\ Submitted' = Submitted
           /\ sending' = sending => HandedOK'
<1>1. Line' = Line /\ UNCHANGED <<arrival, result, slots, fills, started, broken, drain, pending>>
      /\ [Next]_vars
  BY DEF vars, Line
<1>2. IInv' /\ OrderOK' /\ Submitted' = Submitted
  BY <1>1, InvStep, OrderStays DEF OInv
<1>3. ReleasedOK(started, broken)' /\ WaitOK(drain, pending)'
  BY <1>1 DEF OInv, HandedOK, ReleasedOK, WaitOK, HeldBack
<1>4. ASSUME sending' = sending PROVE HandedOK'
  BY <1>1, <1>2, <1>3, <1>4 DEF OInv, HandedOK
<1> QED BY <1>1, <1>2, <1>4

\* Every step of pipeline and outbox together is a step of the outbox, or none.
LEMMA OrderStep ==
    ASSUME OInv, [ONext]_ovars
    PROVE  OInv' /\ [Next]_vars
<1> USE OutboxAssumption, OrderAssumption
<1>0. IInv /\ QueueOK /\ HandedOK /\ OrderOK
  BY DEF OInv
<1>1. CASE UNCHANGED ovars
  <2>1. UNCHANGED vars /\ UNCHANGED <<turn, queue, round, sending, passed>>
    BY <1>1 DEF ovars
  <2>2. IInv' /\ OrderOK' /\ [Next]_vars /\ Submitted' = Submitted /\ HandedOK'
    BY <2>1, OutboxRests
  <2>3. QueueOK'
    BY <1>0, <2>1, <2>2 DEF QueueOK, Queued, Known
  <2> QED BY <2>2, <2>3 DEF OInv
<1>2. ASSUME NEW s \in Slots, TurnStarts(s) PROVE OInv' /\ [Next]_vars
  <2>1. /\ turn[s] = "before" /\ turn' = [turn EXCEPT ![s] = "running"]
        /\ slots[s] = "none" /\ slots' = [slots EXCEPT ![s] = "pending"]
        /\ UNCHANGED <<pending, drain, result, started, arrival, broken, fills>>
        /\ UNCHANGED <<queue, round, sending, passed>>
    BY <1>2 DEF TurnStarts, OpenSlot
  <2>2. Line' = Line /\ [Next]_vars
    BY <1>2, <2>1 DEF TurnStarts, Line, Next
  <2>3. IInv' /\ OrderOK' /\ Submitted' = Submitted
    BY <1>0, <2>1, <2>2, InvStep, OrderStays
  <2>4. /\ turn' \in [Slots -> {"before", "running", "committed"}]
        /\ \A t \in Slots : turn'[t] = "committed" <=> turn[t] = "committed"
    BY <1>0, <2>1 DEF QueueOK
  <2>5. Queued' = Queued /\ Known' = Known
    BY <2>1, <2>3 DEF Queued, Known
  <2>6. QueueOK'
    BY <1>0, <2>1, <2>3, <2>4, <2>5 DEF QueueOK
  <2>7. \A t \in Slots : slots'[t] = IF t = s THEN "pending" ELSE slots[t]
    BY <1>0, <2>1 DEF IInv, TypeOK
  <2>8. Reply[s] \notin Submitted
    BY <1>0, <2>1 DEF QueueOK, Known
  <2>9. ReleasedOK(started, broken)'
    BY <1>0, <2>1 DEF HandedOK, ReleasedOK
  <2>10. WaitOK(drain, pending)'
    <3>1. SUFFICES ASSUME drain = "suspended" PROVE HeldBack(Head(pending))' /\ pending # <<>>
      BY <2>1 DEF WaitOK
    <3>2. pending # <<>> /\ HeldBack(Head(pending)) /\ Head(pending) \in Entry
      BY <1>0, <3>1, HeadIsAwaited DEF HandedOK, WaitOK
    <3>3. Head(pending).after \in Slots
      BY <3>2 DEF HeldBack, Entry
    <3> QED BY <2>1, <2>7, <3>2, <3>3 DEF HeldBack
  <2>11. HandedOK'
    BY <1>0, <2>1, <2>2, <2>3, <2>7, <2>8, <2>9, <2>10 DEF HandedOK
  <2> QED BY <2>2, <2>3, <2>6, <2>11 DEF OInv
<1>3. ASSUME NEW d \in Entries, d \notin Known,
             queue' = Append(queue, d), UNCHANGED <<vars, round, sending, passed>>,
             turn' \in [Slots -> {"before", "running", "committed"}],
             \A s \in Slots : turn'[s] = "committed" <=> turn[s] = "committed" \/ d = Reply[s],
             \A s \in Slots : d = Fire[s] => turn[s] = "committed"
      PROVE  OInv' /\ [Next]_vars
  <2>1. IInv' /\ OrderOK' /\ [Next]_vars /\ HandedOK'
    BY <1>3, OutboxRests
  <2>2. UNCHANGED arrival
    BY <1>3 DEF vars
  <2>3. QueueOK'
    BY <1>0, <1>3, <2>2, EnqueueStep
  <2> QED BY <2>1, <2>3 DEF OInv
<1>4. ASSUME NEW s \in Slots, TurnCommits(s) PROVE OInv' /\ [Next]_vars
  <2>1. turn' = [turn EXCEPT ![s] = "committed"] /\ turn[s] = "running"
        /\ queue' = Append(queue, Reply[s]) /\ UNCHANGED <<vars, round, sending, passed>>
    BY <1>4 DEF TurnCommits
  <2>2. Reply[s] \in Entries /\ Reply[s] \notin Known
    BY <1>0, <2>1 DEF QueueOK
  <2>3. turn' \in [Slots -> {"before", "running", "committed"}]
    BY <1>0, <2>1 DEF QueueOK
  <2>4. \A t \in Slots : turn'[t] = "committed" <=> turn[t] = "committed" \/ Reply[s] = Reply[t]
    BY <1>0, <2>1 DEF QueueOK
  <2>5. \A t \in Slots : Reply[s] # Fire[t]
    OBVIOUS
  <2> QED BY <1>3, <2>1, <2>2, <2>3, <2>4, <2>5
<1>5. ASSUME NEW s \in Slots, TaskFires(s) PROVE OInv' /\ [Next]_vars
  <2>1. turn' = turn /\ turn[s] = "committed" /\ Fire[s] \notin Known
        /\ queue' = Append(queue, Fire[s]) /\ UNCHANGED <<vars, round, sending, passed>>
    BY <1>5 DEF TaskFires, Known
  <2>2. Fire[s] \in Entries /\ turn' \in [Slots -> {"before", "running", "committed"}]
    BY <1>0, <2>1 DEF QueueOK
  <2>3. \A t \in Slots : Fire[s] # Reply[t] /\ (Fire[s] = Fire[t] => turn[t] = "committed")
    BY <2>1
  <2> QED BY <1>3, <2>1, <2>2, <2>3
<1>6. CASE DrainStarts \/ DrainStops
  <2>1. /\ UNCHANGED vars /\ UNCHANGED <<turn, queue, sending, passed>>
        /\ sending = NoEntry /\ round' \in {Queued, {}}
    BY <1>6 DEF DrainStarts, DrainStops
  <2>2. IInv' /\ OrderOK' /\ [Next]_vars /\ HandedOK' /\ Submitted' = Submitted
    BY <2>1, OutboxRests
  <2>3. Queued' = Queued /\ Known' = Known
    BY <2>1, <2>2 DEF Queued, Known
  <2>4. \A s \in Slots : Fire[s] \in round' => Reply[s] \in round' \cup Submitted' \cup passed'
    BY <1>0, <2>1, <2>2, <2>3 DEF QueueOK, Known
  <2>5. QueueOK'
    BY <1>0, <2>1, <2>2, <2>3, <2>4 DEF QueueOK
  <2> QED BY <2>2, <2>5 DEF OInv
<1>7. ASSUME NEW k \in DOMAIN queue, PipelineDefers(k) PROVE OInv' /\ [Next]_vars
  <2>1. /\ UNCHANGED vars /\ UNCHANGED <<turn, queue, sending>> /\ sending = NoEntry
        /\ round' = round \ {queue[k]} /\ passed' = passed \cup {queue[k]}
    BY <1>7 DEF PipelineDefers, Takes
  <2>2. IInv' /\ OrderOK' /\ [Next]_vars /\ HandedOK' /\ Submitted' = Submitted
    BY <2>1, OutboxRests
  <2>3. Queued' = Queued /\ Known' = Known
    BY <2>1, <2>2 DEF Queued, Known
  <2>4. \A s \in Slots : Fire[s] \in round' => Reply[s] \in round' \cup Submitted' \cup passed'
    BY <1>0, <2>1, <2>2 DEF QueueOK
  <2>5. QueueOK'
    BY <1>0, <2>1, <2>2, <2>3, <2>4 DEF QueueOK
  <2> QED BY <2>2, <2>5 DEF OInv
<1>8. ASSUME NEW k \in DOMAIN queue, PipelineFailsPreflight(k) PROVE OInv' /\ [Next]_vars
  <2>1. /\ UNCHANGED vars /\ UNCHANGED <<turn, sending>> /\ sending = NoEntry /\ Takes(k)
        /\ queue' = RemoveAt(queue, k) /\ passed' = passed \cup {queue[k]}
    BY <1>8 DEF PipelineFailsPreflight, Takes
  <2>2. IInv' /\ OrderOK' /\ [Next]_vars /\ HandedOK' /\ Submitted' = Submitted
    BY <2>1, OutboxRests
  <2>3. QueueOK'
    BY <1>0, <2>1, <2>2, TakeStep
  <2> QED BY <2>2, <2>3 DEF OInv
<1>9. ASSUME NEW k \in DOMAIN queue, PipelineSends(k) PROVE OInv' /\ [Next]_vars
  BY <1>9, SendStep
<1>10. CASE PipelineReturns
  <2>1. /\ UNCHANGED vars /\ UNCHANGED <<turn, queue, round, passed>> /\ sending' = NoEntry
        /\ result[sending] # "unsettled"
    BY <1>10 DEF PipelineReturns
  <2>2. IInv' /\ OrderOK' /\ [Next]_vars /\ Submitted' = Submitted
    BY <2>1, OutboxRests
  <2>3. Line' = Line /\ UNCHANGED <<result, slots, fills, started, broken, drain, pending>>
    BY <2>1 DEF vars, Line
  <2>4. ReleasedOK(started, broken)' /\ WaitOK(drain, pending)'
    BY <1>0, <2>3 DEF HandedOK, ReleasedOK, WaitOK, HeldBack
  <2>5. HandedOK'
    BY <1>0, <2>1, <2>2, <2>3, <2>4 DEF HandedOK
  <2>6. Queued' = Queued /\ Known' = Known
    BY <2>1, <2>2 DEF Queued, Known
  <2>7. QueueOK'
    BY <1>0, <2>1, <2>2, <2>6 DEF QueueOK
  <2> QED BY <2>2, <2>5, <2>7 DEF OInv
<1>11. CASE OutboxStep
  <2>1. Line' = Line /\ UNCHANGED <<arrival, turn, queue, round, sending, passed>> /\ [Next]_vars
    BY <1>0, <1>11, OutboxStepKeepsLine
  <2>2. IInv' /\ OrderOK' /\ Submitted' = Submitted
    BY <1>0, <2>1, InvStep, OrderStays
  <2>3. QueueOK'
    BY <1>0, <2>1, <2>2 DEF QueueOK, Queued, Known
  <2>4. HandedOK'
    BY <1>0, <1>11, OutboxStepKeepsHanded
  <2> QED BY <2>1, <2>2, <2>3, <2>4 DEF OInv
<1> QED BY <1>1, <1>2, <1>4, <1>5, <1>6, <1>7, <1>8, <1>9, <1>10, <1>11 DEF ONext

\* Before the first turn.
LEMMA OrderInit == OInit => OInv /\ Init
<1> USE OutboxAssumption, OrderAssumption
<1> SUFFICES ASSUME OInit PROVE OInv
  BY DEF OInit
<1>1. /\ Init /\ queue = <<>> /\ round = {} /\ sending = NoEntry /\ passed = {}
      /\ turn = [s \in Slots |-> "before"]
  BY DEF OInit
<1>2. IInv /\ Submitted = {} /\ Queued = {} /\ Known = {}
  BY <1>1, InvInit DEF Init, Submitted, Ids, Queued, Known
<1>3. QueueOK
  BY <1>1, <1>2 DEF QueueOK
<1>4. Line = <<>> /\ started = <<>> /\ drain = "idle" /\ slots = [s \in Slots |-> "none"]
  BY <1>1 DEF Init, Line
<1>5. HandedOK
  BY <1>2, <1>4 DEF HandedOK, ReleasedOK, WaitOK
<1>6. OrderOK
  BY <1>2 DEF OrderOK
<1> QED BY <1>2, <1>3, <1>5, <1>6 DEF OInv

\* A result that begins its send unbroken found the reply in the slot, and the
\* reply is in the line before it.
LEMMA ReplyFirstMeans == OInv => FireFirstOnlyWhenReleased
<1> USE OutboxAssumption, OrderAssumption
<1> SUFFICES ASSUME OInv, NEW s \in Slots, Fire[s] \in Ids(started)
             PROVE  \/ \E i, j \in DOMAIN started :
                          i < j /\ started[i].id = Reply[s] /\ started[j].id = Fire[s]
                    \/ MayComeFirst(s) /\ Fire[s] \in broken
  BY DEF FireFirstOnlyWhenReleased
<1>0. /\ TypeOK /\ IsOnce(Line) /\ Ids(Line) = Submitted /\ HandedOK /\ OrderOK
      /\ FillsKnown /\ ReplyBeforeWaiters
  BY DEF OInv, IInv, NothingLost
<1>1. /\ started \in Seq(Entry) /\ pending \in Seq(Entry) /\ Line \in Seq(Entry)
      /\ DOMAIN started = 1 .. Len(started) /\ DOMAIN Line = 1 .. Len(Line)
      /\ Len(Line) = Len(started) + Len(pending) /\ Len(started) \in Nat /\ Len(pending) \in Nat
      /\ \A i \in DOMAIN started : i \in DOMAIN Line /\ Line[i] = started[i]
  BY <1>0 DEF TypeOK, Line
<1>2. PICK n \in DOMAIN started : started[n].id = Fire[s]
  BY DEF Ids
<1>3. Line[n].id = Fire[s] /\ n \in DOMAIN Line /\ Line[n].after = s /\ Fire[s] \in Submitted
  BY <1>0, <1>1, <1>2 DEF HandedOK, Ids
<1>4. ASSUME NEW i \in DOMAIN Line, i < n, Line[i].id = Reply[s]
      PROVE  \E a, b \in DOMAIN started :
                a < b /\ started[a].id = Reply[s] /\ started[b].id = Fire[s]
  <2>1. i \in DOMAIN started
    BY <1>1, <1>4
  <2> QED BY <1>1, <1>2, <1>4, <2>1
<1>5. CASE InOrder(s)
  <2>1. PICK i \in DOMAIN Line, j \in DOMAIN Line :
            i < j /\ Line[i].id = Reply[s] /\ Line[j].id = Fire[s]
    BY <1>5 DEF InOrder
  <2>2. j = n
    BY <1>0, <1>3, <2>1 DEF IsOnce
  <2> QED BY <1>4, <2>1, <2>2
<1>6. CASE Fire[s] \notin broken
  <2>1. fills[s] = Reply[s] /\ fills[s] # NoEntry
    <3>1. ReleasedOK(started, broken)
      BY <1>0 DEF HandedOK
    <3>2. started[n].after = s /\ started[n].id \notin broken
      BY <1>1, <1>2, <1>3, <1>6
    <3>3. fills[s] = Reply[s]
      BY <3>1, <3>2 DEF ReleasedOK
    <3> QED BY <3>3
  <2>2. Reply[s] \in Ids(Line)
    BY <1>0, <2>1 DEF FillsKnown
  <2>3. PICK i \in DOMAIN Line : Line[i].id = Reply[s]
    BY <2>2 DEF Ids
  <2>4. i < n
    BY <1>0, <1>3, <1>6, <2>1, <2>3 DEF ReplyBeforeWaiters
  <2> QED BY <1>4, <2>3, <2>4
<1> QED BY <1>0, <1>3, <1>5, <1>6 DEF OrderOK

\* The head of a waiting drain is the one delivery the pipeline waits for.
LEMMA WaitMeans == OInv => WaitsOnlyForPassedReply
<1> USE OutboxAssumption, OrderAssumption
<1> SUFFICES ASSUME OInv, drain = "suspended"
             PROVE  \E s \in Slots : sending = Fire[s] /\ MayComeFirst(s) /\ Reply[s] \notin Submitted
  BY DEF WaitsOnlyForPassedReply
<1>0. IInv /\ HandedOK /\ OrderOK /\ Ids(Line) = Submitted
  BY DEF OInv, IInv, NothingLost
<1> DEFINE h == Head(pending)
<1>1. pending # <<>> /\ HeldBack(h)
  BY <1>0 DEF HandedOK, WaitOK
<1>2. /\ h \in Entry /\ h.id \in Submitted /\ result[h.id] = "unsettled"
      /\ \E n \in DOMAIN Line : Line[n] = h
  BY <1>0, <1>1, HeadIsAwaited
<1> HIDE DEF h
<1>3. PICK s \in Slots : h.after = s /\ slots[s] = "pending"
  BY <1>1, <1>2 DEF HeldBack, Entry
<1>4. h.id = Fire[s]
  BY <1>0, <1>2, <1>3 DEF HandedOK
<1>5. sending = Fire[s] /\ Fire[s] \in Submitted /\ Reply[s] \notin Submitted
  BY <1>0, <1>2, <1>3, <1>4 DEF HandedOK
<1>6. ~InOrder(s)
  BY <1>0, <1>5 DEF InOrder, Ids
<1> QED BY <1>0, <1>5, <1>6 DEF OrderOK

\* The composition implements the outbox: whatever the priorities, the pipeline
\* drives it only through its operations.
THEOREM PipelineUsesOutbox == OSpec => Spec
<1>1. OInit => Init
  BY DEF OInit
<1> QED BY <1>1, OrderInit, OrderStep, PTL DEF OSpec, Spec

\* Whatever the priorities, and whatever the pipeline defers or fails on the
\* way: the result of a task begins its send before the reply of its turn only
\* if it came up first and was released with a causal-broken event.
THEOREM ReplyGoesFirst == OSpec => []FireFirstOnlyWhenReleased
BY OrderInit, OrderStep, ReplyFirstMeans, PTL DEF OSpec

\* The outbox makes the pipeline wait for a slot only when the result of a task
\* came up before its reply, and never once that reply has been handed over.
THEOREM WaitsOnlyForReplies == OSpec => []WaitsOnlyForPassedReply
BY OrderInit, OrderStep, WaitMeans, PTL DEF OSpec

\* The priorities are what makes a drain wait for a reply that it would come to
\* later: if no reply ranks behind the results of its turn's tasks, it does not.
\* (A reply that this drain has passed over can still be waited for.)
THEOREM NoSelfBlocking == ASSUME NoInversion PROVE OSpec => []NoHeadOfLineWait
<1>1. OInv => NoHeadOfLineWait
  <2> SUFFICES ASSUME OInv, NEW s \in Slots, sending = Fire[s], Reply[s] \in round PROVE FALSE
    BY DEF NoHeadOfLineWait
  <2>1. Rank[Fire[s]] < Rank[Reply[s]]
    BY DEF OInv, QueueOK
  <2>2. Rank[Fire[s]] \in Nat /\ Rank[Reply[s]] \in Nat /\ Rank[Reply[s]] <= Rank[Fire[s]]
    BY OrderAssumption DEF NoInversion
  <2> QED BY <2>1, <2>2
<1> QED BY <1>1, OrderInit, OrderStep, PTL DEF OSpec
=============================================================================
