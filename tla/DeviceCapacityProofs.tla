------------------------- MODULE DeviceCapacityProofs --------------------------
(***************************************************************************)
(* What the device capacity arbiter promises, for any requests, budgets,   *)
(* policy and schedule of service classes.                                 *)
(*                                                                         *)
(* Conservation is a statement about sums over all permits; the sums are   *)
(* folds over sets, and the first lemmas say how a sum changes with one of *)
(* its terms.  That a worker has a slot rests on the loans (BorrowOK): a   *)
(* borrower never waits beyond its own acquire (WaitOK), so a loan ends    *)
(* with the permit or the refusal it was made for.  Bounded overtaking     *)
(* rests on a distance: every grant that passes a head that fits moves the *)
(* cursor nearer to its class (TurnOK).                                    *)
(***************************************************************************)
EXTENDS DeviceCapacity, FiniteSetTheorems, TLAPS

\* What a request holds it holds by a permit; a step stays within what was granted;
\* a permit that was released and not returned is a workload whose slot another holds.
PermitOK(r) ==
    /\ ~ Holding(r) => got[r] = NoOccupancy /\ remaining[r] = 0 /\ ~ Stepping(r)
    /\ Holding(r) => got[r].slots >= Atomic[r].slots
    /\ Stepping(r) => used[r] <= bound[r] /\ remaining[r] + bound[r] <= Quanta
    /\ r \in released => /\ r \in Lenders /\ ~ Stepping(r)
                         /\ \E c \in Requests : lender[c] = r /\ Holding(c)

\* A request without a slot of its own has one on loan for as long as it is not
\* free, from a workload that holds its permit and lends to nobody else.
BorrowOK(r) ==
    /\ lender[r] # None =>
           /\ lender[r] \in Lenders /\ Holding(lender[r])
           /\ phase[r] # "free" /\ Atomic[r].slots = 0
           /\ \A q \in Requests : lender[q] = lender[r] => q = r
    /\ phase[r] # "free" /\ Atomic[r].slots = 0 => lender[r] # None

\* Who does not wait is in a queue only while its own acquire drains.
WaitOK(r) == Waiting(r) /\ r \notin Patient => draining /\ asking = r

\* A request is passed no more often than the cursor has come nearer to its class.
TurnOK(r) ==
    \E d \in 0 .. Len(Schedule) - 1 : At(d) = Class[r] /\ passed[r] + d < Len(Schedule)

\* The queues hold the waiting requests, each once and in the queue of its class.
QueueOK ==
    /\ queue \in [Classes -> Seq(Requests)]
    /\ \A c \in Classes : \A i, j \in 1 .. Len(queue[c]) : queue[c][i] = queue[c][j] => i = j
    /\ \A r \in Requests : Waiting(r) <=> \E i \in 1 .. Len(queue[Class[r]]) : queue[Class[r]][i] = r
    /\ \A c \in Classes : \A i \in 1 .. Len(queue[c]) : Class[queue[c][i]] = c

\* The types of everything else.
Types ==
    /\ pressure \in Samples
    /\ elapsed \in Nat /\ quanta \in 0 .. Quanta /\ credit \in Nat
    /\ inUse \in [slots : Nat, space : Nat]
    /\ cursor \in 0 .. Len(Schedule) - 1
    /\ timer \in BOOLEAN /\ draining \in BOOLEAN /\ asking \in Requests \cup {None}
    /\ phase \in [Requests -> {"free", "waiting", "held"}]
    /\ got \in [Requests -> [slots : Nat, space : Nat]]
    /\ remaining \in [Requests -> 0 .. Quanta]
    /\ bound \in [Requests -> 0 .. Quanta \cup {NoStep}] /\ used \in [Requests -> 0 .. Quanta]
    /\ released \subseteq Requests /\ violated \subseteq Requests
    /\ lender \in [Requests -> Requests \cup {None}]
    /\ passed \in [Requests -> 0 .. Len(Schedule)]

\* What is true of every permit and its loan.
PermitsOK == \A r \in Requests : PermitOK(r) /\ BorrowOK(r)
WaitsOK   == \A r \in Requests : WaitOK(r)
TurnsOK   == \A r \in Requests : TurnOK(r)

IInv ==
    /\ Types /\ QueueOK /\ OccupancyConserved /\ QuantaBacked
    /\ PermitsOK /\ WaitsOK /\ TurnsOK

-----------------------------------------------------------------------------
(* Sums over finite sets. *)

\* Induction on numbers, for the set of the numbers that have the property.
LEMMA SetInduction ==
    ASSUME NEW P, 0 \in P, \A n \in Nat : n \in P => n + 1 \in P
    PROVE  Nat \subseteq P
<1> DEFINE T == Nat \ P
<1> SUFFICES ASSUME T # {} PROVE FALSE
  OBVIOUS
<1>1. IsWellFoundedOn({p \in Nat \X Nat : p[1] < p[2]}, Nat)
  BY NatLessThanWellFounded DEF OpToRel
<1>2. PICK n \in T : \A m \in T : ~ (<<m, n>> \in {p \in Nat \X Nat : p[1] < p[2]})
  BY <1>1, WFMin
<1>3. \A m \in T : ~ (m < n)
  BY <1>2
<1>4. n \in Nat /\ n # 0
  BY <1>2
<1>5. n - 1 \in Nat /\ n - 1 < n /\ (n - 1) + 1 = n
  BY <1>4
<1>6. n - 1 \in P
  BY <1>3, <1>5
<1> QED BY <1>2, <1>5, <1>6

\* The element a fold takes out next.
Any(s) == CHOOSE x \in s : TRUE

\* Induction on the subsets of a finite set, for the set of those that have the
\* property.
LEMMA SubsetInduction ==
    ASSUME NEW S, IsFiniteSet(S), NEW P, {} \in P,
           \A s \in SUBSET S : s # {} /\ s \ {Any(s)} \in P => s \in P
    PROVE  SUBSET S \subseteq P
<1> DEFINE N == {n \in Nat : \A s \in SUBSET S : Cardinality(s) = n => s \in P}
<1>1. 0 \in N
  <2>1. ASSUME NEW s \in SUBSET S, Cardinality(s) = 0  PROVE s = {}
    BY <2>1, FS_Subset, FS_EmptySet
  <2> QED BY <2>1
<1>2. ASSUME NEW n \in Nat, n \in N  PROVE n + 1 \in N
  <2> SUFFICES ASSUME NEW s \in SUBSET S, Cardinality(s) = n + 1  PROVE s \in P
    OBVIOUS
  <2>1. IsFiniteSet(s)
    BY FS_Subset
  <2>2. s # {}
    BY <2>1, FS_EmptySet
  <2>3. Any(s) \in s
    BY <2>2 DEF Any
  <2>4. Cardinality(s \ {Any(s)}) = Cardinality(s) - 1
    BY <2>1, <2>3, FS_RemoveElement
  <2>5. s \ {Any(s)} \in P
    BY <1>2, <2>4
  <2> QED BY <2>2, <2>5
<1> HIDE DEF N
<1>3. Nat \subseteq N
  BY <1>1, <1>2, SetInduction
<1>4. ASSUME NEW s \in SUBSET S  PROVE s \in P
  <2>1. Cardinality(s) \in Nat
    BY FS_Subset, FS_CardinalityType
  <2> QED BY <1>3, <2>1 DEF N
<1> QED BY <1>4

\* g sums f over every set of the family F.
Sums(f, F, g) == g = [s \in F |-> IF s = {} THEN 0 ELSE f[Any(s)] + g[s \ {Any(s)}]]

\* The recursion of Total has a solution.
LEMMA SumsExist ==
    ASSUME NEW S, IsFiniteSet(S), NEW f
    PROVE  \E g : Sums(f, SUBSET S, g)
<1> DEFINE F(n) == {s \in SUBSET S : Cardinality(s) <= n}
           N == {n \in Nat : \E g : Sums(f, F(n), g)}
<1>0. \A s \in SUBSET S : IsFiniteSet(s) /\ Cardinality(s) \in Nat /\ Cardinality(s) <= Cardinality(S)
  BY FS_Subset, FS_CardinalityType
<1>1. 0 \in N
  <2>1. \A s \in F(0) : s = {}
    BY <1>0, FS_EmptySet
  <2>2. Sums(f, F(0), [s \in F(0) |-> 0])
    BY <2>1 DEF Sums
  <2> QED BY <2>2
<1>2. ASSUME NEW n \in Nat, n \in N  PROVE n + 1 \in N
  <2>1. PICK g : Sums(f, F(n), g)
    BY <1>2
  <2> DEFINE h == [s \in F(n + 1) |->
                     IF s \in F(n) THEN g[s] ELSE f[Any(s)] + g[s \ {Any(s)}]]
  <2>2. F(n) \subseteq F(n + 1)
    BY <1>0
  <2>3. \A s \in F(n) : h[s] = g[s]
    BY <2>2
  <2>4. \A s \in F(n) : g[s] = IF s = {} THEN 0 ELSE f[Any(s)] + g[s \ {Any(s)}]
    BY <2>1 DEF Sums
  <2>5. ASSUME NEW s \in F(n + 1), s # {}  PROVE s \ {Any(s)} \in F(n)
    <3>1. Any(s) \in s
      BY <2>5 DEF Any
    <3>2. Cardinality(s \ {Any(s)}) = Cardinality(s) - 1
      BY <1>0, <3>1, FS_RemoveElement
    <3> QED BY <1>0, <3>2
  <2>6. {} \in F(n)
    BY FS_EmptySet
  <2>7. ASSUME NEW s \in F(n + 1)
        PROVE  h[s] = IF s = {} THEN 0 ELSE f[Any(s)] + h[s \ {Any(s)}]
    <3>1. CASE s = {}
      BY <2>3, <2>4, <2>6, <3>1
    <3>2. CASE s # {}
      <4>1. h[s \ {Any(s)}] = g[s \ {Any(s)}]
        BY <2>3, <2>5, <3>2
      <4>2. CASE s \in F(n)
        BY <2>3, <2>4, <3>2, <4>1, <4>2
      <4>3. CASE s \notin F(n)
        BY <3>2, <4>1, <4>3
      <4> QED BY <4>2, <4>3
    <3> QED BY <3>1, <3>2
  <2>8. h = [s \in F(n + 1) |-> h[s]]
    OBVIOUS
  <2> HIDE DEF h, F
  <2>9. Sums(f, F(n + 1), h)
    BY <2>7, <2>8 DEF Sums
  <2> QED BY <2>9
<1>3. F(Cardinality(S)) = SUBSET S
  BY <1>0
<1>4. Cardinality(S) \in Nat
  BY FS_CardinalityType
<1> HIDE DEF N, F
<1>5. Nat \subseteq N
  BY <1>1, <1>2, SetInduction
<1>6. \E g : Sums(f, F(Cardinality(S)), g)
  BY <1>4, <1>5 DEF N
<1> QED BY <1>3, <1>6

\* g[s] is the sum of f over s, one element after another.
Unfolds(f, S, g) ==
    \A s \in SUBSET S : g[s] = IF s = {} THEN 0 ELSE f[Any(s)] + g[s \ {Any(s)}]

\* Total unfolds as it is written.
LEMMA TotalUnfolds ==
    ASSUME NEW S, IsFiniteSet(S), NEW f
    PROVE  \E g : Total(f, S) = g[S] /\ Unfolds(f, S, g)
<1> DEFINE g == CHOOSE h : Sums(f, SUBSET S, h)
<1>1. Total(f, S) = g[S]
  BY DEF Total, MapThenSumSet, MapThenFoldSet, Sums, Any
<1>2. Sums(f, SUBSET S, g)
  BY SumsExist
<1> HIDE DEF g
<1>3. Unfolds(f, S, g)
  BY <1>2 DEF Sums, Unfolds
<1> QED BY <1>1, <1>3

\* A sum changes with one of its terms, and by as much.
LEMMA TotalChange ==
    ASSUME NEW S, IsFiniteSet(S), NEW f \in [S -> Int], NEW h \in [S -> Int], NEW e \in S,
           \A x \in S : x # e => h[x] = f[x]
    PROVE  /\ Total(f, S) \in Int /\ Total(h, S) \in Int
           /\ Total(h, S) = Total(f, S) + h[e] - f[e]
<1>1. PICK a : Total(f, S) = a[S] /\ Unfolds(f, S, a)
  BY TotalUnfolds
<1>2. PICK b : Total(h, S) = b[S] /\ Unfolds(h, S, b)
  BY TotalUnfolds
<1> DEFINE Step(s) == /\ a[s] \in Int /\ b[s] \in Int
                      /\ b[s] = a[s] + IF e \in s THEN h[e] - f[e] ELSE 0
           P == {s \in SUBSET S : Step(s)}
<1>3. {} \in P
  <2>1. a[{}] = 0 /\ b[{}] = 0
    BY <1>1, <1>2 DEF Unfolds
  <2> QED BY <2>1
<1>4. ASSUME NEW s \in SUBSET S, s # {}, Step(s \ {Any(s)})  PROVE Step(s)
  <2>1. Any(s) \in s
    BY <1>4 DEF Any
  <2>2. a[s] = f[Any(s)] + a[s \ {Any(s)}] /\ b[s] = h[Any(s)] + b[s \ {Any(s)}]
    BY <1>1, <1>2, <1>4 DEF Unfolds
  <2>3. f[Any(s)] \in Int /\ h[Any(s)] \in Int /\ f[e] \in Int /\ h[e] \in Int
    BY <2>1
  <2>4. CASE Any(s) = e
    <3>1. e \in s /\ e \notin s \ {Any(s)}
      BY <2>1, <2>4
    <3> QED BY <1>4, <2>2, <2>3, <2>4, <3>1
  <2>5. CASE Any(s) # e
    <3>1. h[Any(s)] = f[Any(s)] /\ (e \in s <=> e \in s \ {Any(s)})
      BY <2>1, <2>5
    <3>2. CASE e \in s
      BY <1>4, <2>2, <2>3, <3>1, <3>2
    <3>3. CASE e \notin s
      BY <1>4, <2>2, <2>3, <3>1, <3>3
    <3> QED BY <3>2, <3>3
  <2> QED BY <2>4, <2>5
<1>5. SUBSET S \subseteq P
  <2>1. \A s \in SUBSET S : s # {} /\ s \ {Any(s)} \in P => s \in P
    BY <1>4
  <2> HIDE DEF P
  <2> QED BY <1>3, <2>1, SubsetInduction
<1> QED BY <1>1, <1>2, <1>5

\* A sum of naturals is one, and none of its terms exceeds it.
LEMMA TotalNat ==
    ASSUME NEW S, IsFiniteSet(S), NEW f \in [S -> Nat]
    PROVE  /\ Total(f, S) \in Nat
           /\ \A e \in S : f[e] <= Total(f, S)
<1>1. ASSUME NEW h \in [S -> Nat]  PROVE Total(h, S) \in Nat
  <2>1. PICK a : Total(h, S) = a[S] /\ Unfolds(h, S, a)
    BY TotalUnfolds
  <2> DEFINE P == {s \in SUBSET S : a[s] \in Nat}
  <2>2. {} \in P
    BY <2>1, SMTT(30) DEF Unfolds
  <2>3. ASSUME NEW s \in SUBSET S, s # {}, s \ {Any(s)} \in P  PROVE s \in P
    <3>1. Any(s) \in s
      BY <2>3 DEF Any
    <3>2. h[Any(s)] \in Nat
      BY <3>1
    <3>3. a[s] = h[Any(s)] + a[s \ {Any(s)}]
      BY <2>1, <2>3 DEF Unfolds
    <3> QED BY <2>3, <3>2, <3>3
  <2> HIDE DEF P
  <2>4. SUBSET S \subseteq P
    BY <2>2, <2>3, SubsetInduction
  <2> QED BY <2>1, <2>4 DEF P
<1>2. ASSUME NEW e \in S  PROVE f[e] <= Total(f, S)
  <2> DEFINE h == [f EXCEPT ![e] = 0]
  <2>1. h \in [S -> Nat] /\ h[e] = 0 /\ \A x \in S : x # e => h[x] = f[x]
    OBVIOUS
  <2>2. f \in [S -> Int] /\ h \in [S -> Int]
    BY <2>1
  <2> HIDE DEF h
  <2>3. Total(h, S) = Total(f, S) + h[e] - f[e] /\ Total(f, S) \in Int
    BY <2>1, <2>2, TotalChange
  <2>4. Total(h, S) \in Nat
    BY <1>1, <2>1
  <2>5. f[e] \in Nat
    OBVIOUS
  <2> QED BY <2>1, <2>3, <2>4, <2>5
<1> QED BY <1>1, <1>2

\* The sum of zeros is zero.
LEMMA TotalZero ==
    ASSUME NEW S, IsFiniteSet(S), NEW f, \A x \in S : f[x] = 0
    PROVE  Total(f, S) = 0
<1>1. PICK a : Total(f, S) = a[S] /\ Unfolds(f, S, a)
  BY TotalUnfolds
<1> DEFINE P == {s \in SUBSET S : a[s] = 0}
<1>2. {} \in P
  BY <1>1 DEF Unfolds
<1>3. ASSUME NEW s \in SUBSET S, s # {}, s \ {Any(s)} \in P  PROVE s \in P
  <2>1. Any(s) \in s
    BY <1>3 DEF Any
  <2>2. a[s] = f[Any(s)] + a[s \ {Any(s)}]
    BY <1>1, <1>3 DEF Unfolds
  <2> QED BY <1>3, <2>1, <2>2
<1> HIDE DEF P
<1>4. SUBSET S \subseteq P
  BY <1>2, <1>3, SubsetInduction
<1> QED BY <1>1, <1>4 DEF P

\* The sums over nothing and over one.
LEMMA TotalOne ==
    ASSUME NEW f, NEW x, f[x] \in Int
    PROVE  Total(f, {}) = 0 /\ Total(f, {x}) = f[x]
<1>0. IsFiniteSet({}) /\ IsFiniteSet({x})
  BY FS_EmptySet, FS_Singleton
<1>1. Total(f, {}) = 0
  BY <1>0, TotalZero
<1>2. Any({x}) = x
  BY DEF Any
<1>3. Total(f, {x}) = f[x]
  <2>1. PICK a : Total(f, {x}) = a[{x}] /\ Unfolds(f, {x}, a)
    BY <1>0, TotalUnfolds
  <2>2. a[{x}] = f[Any({x})] + a[{x} \ {Any({x})}]
    BY <2>1 DEF Unfolds
  <2>3. {x} \ {Any({x})} = {}
    BY <1>2
  <2>4. a[{}] = 0
    BY <2>1 DEF Unfolds
  <2>5. a[{x}] = f[x] + 0
    BY <1>2, <2>2, <2>3, <2>4
  <2> QED BY <2>1, <2>5
<1> QED BY <1>1, <1>3

\* The sum over two.
LEMMA TotalTwo ==
    ASSUME NEW f, NEW x, NEW y, x # y, f[x] \in Int, f[y] \in Int
    PROVE  Total(f, {x, y}) = f[x] + f[y]
<1>0. IsFiniteSet({x, y})
  <2>1. IsFiniteSet({x} \cup {y})
    BY FS_Singleton, FS_AddElement
  <2>2. {x} \cup {y} = {x, y}
    OBVIOUS
  <2> QED BY <2>1, <2>2
<1>3. \A z : Any({z}) = z
  BY DEF Any
<1>4. Total(f, {x, y}) = f[x] + f[y]
  <2>1. PICK a : Total(f, {x, y}) = a[{x, y}] /\ Unfolds(f, {x, y}, a)
    BY <1>0, TotalUnfolds
  <2>2. a[{}] = 0
    BY <2>1 DEF Unfolds
  <2>3. ASSUME NEW z \in {x, y}  PROVE a[{z}] = f[z]
    <3>1. {z} \in SUBSET {x, y} /\ {z} # {} /\ {z} \ {Any({z})} = {}
      BY <1>3
    <3>2. a[{z}] = f[Any({z})] + a[{z} \ {Any({z})}]
      BY <2>1, <3>1 DEF Unfolds
    <3>3. f[z] \in Int
      OBVIOUS
    <3>4. a[{z}] = f[z] + 0
      BY <1>3, <2>2, <3>1, <3>2
    <3> QED BY <3>3, <3>4
  <2>4. Any({x, y}) \in {x, y}
    BY DEF Any
  <2>5. a[{x, y}] = f[Any({x, y})] + a[{x, y} \ {Any({x, y})}]
    BY <2>1 DEF Unfolds
  <2>6. CASE Any({x, y}) = x
    <3>1. {x, y} \ {x} = {y}
      OBVIOUS
    <3> QED BY <2>1, <2>3, <2>5, <2>6, <3>1
  <2>7. CASE Any({x, y}) = y
    <3>1. {x, y} \ {y} = {x}
      OBVIOUS
    <3>2. a[{x, y}] = f[y] + f[x]
      BY <2>3, <2>5, <2>7, <3>1
    <3> QED BY <2>1, <3>2
  <2> QED BY <2>4, <2>6, <2>7
<1> QED BY <1>4

-----------------------------------------------------------------------------
(* The constants and the round robin. *)

\* There are finitely many callers.
LEMMA Finite == IsFiniteSet(Requests)
BY CapacityAssumption

\* A sum over the requests changes with two of its terms.
LEMMA TotalChangeTwo ==
    ASSUME NEW f \in [Requests -> Int], NEW h \in [Requests -> Int],
           NEW e \in Requests, NEW d \in Requests \ {e},
           \A x \in Requests \ {e, d} : h[x] = f[x]
    PROVE  Total(h, Requests) = Total(f, Requests) + h[e] - f[e] + h[d] - f[d]
<1> DEFINE m == [f EXCEPT ![e] = h[e]]
<1>1. m \in [Requests -> Int] /\ m[e] = h[e] /\ m[d] = f[d] /\ \A x \in Requests : x # e => m[x] = f[x]
  OBVIOUS
<1>2. \A x \in Requests : x # d => h[x] = m[x]
  BY <1>1
<1> HIDE DEF m
<1>3. /\ Total(f, Requests) \in Int /\ Total(m, Requests) \in Int
      /\ Total(m, Requests) = Total(f, Requests) + m[e] - f[e]
  BY <1>1, Finite, TotalChange
<1>4. /\ Total(h, Requests) \in Int
      /\ Total(h, Requests) = Total(m, Requests) + h[d] - m[d]
  BY <1>1, <1>2, Finite, TotalChange
<1>5. h[e] \in Int /\ f[e] \in Int /\ h[d] \in Int /\ f[d] \in Int
  OBVIOUS
<1> QED BY <1>1, <1>3, <1>4, <1>5

\* The policy, the schedule and the budgets of a request are numbers.
LEMMA Constants ==
    /\ Slots \in Nat /\ Space \in Nat /\ Quanta \in Nat
    /\ Len(Schedule) \in Nat \ {0}
    /\ \A r \in Requests :
          /\ Class[r] \in Classes
          /\ Atomic[r].slots \in Nat /\ Atomic[r].space \in Nat /\ Atomic[r].quanta \in Nat
          /\ Preferred[r].slots \in Nat /\ Preferred[r].space \in Nat /\ Preferred[r].quanta \in Nat
          /\ Atomic[r].slots <= Preferred[r].slots
<1>1. Len(Schedule) \in Nat \ {0}
  BY CapacityAssumption
<1>2. ASSUME NEW r \in Requests
      PROVE  /\ Class[r] \in Classes
             /\ Atomic[r].slots \in Nat /\ Atomic[r].space \in Nat /\ Atomic[r].quanta \in Nat
             /\ Preferred[r].slots \in Nat /\ Preferred[r].space \in Nat /\ Preferred[r].quanta \in Nat
             /\ Atomic[r].slots <= Preferred[r].slots
  <2>1. Atomic[r] \in Budgets /\ Preferred[r] \in Budgets /\ Class[r] \in Classes
    BY CapacityAssumption
  <2>2. Atomic[r].slots <= Preferred[r].slots
    BY CapacityAssumption
  <2> QED BY <2>1, <2>2 DEF Budgets
<1> QED BY <1>1, <1>2, CapacityAssumption

\* The place that is d places after the cursor c.
Place(c, d) == ((c + d) % Len(Schedule)) + 1

\* Going round the schedule.
LEMMA Round ==
    ASSUME NEW c \in 0 .. Len(Schedule) - 1, NEW d \in 0 .. Len(Schedule) - 1
    PROVE  /\ Place(c, d) \in 1 .. Len(Schedule)
           /\ Place(c, d) = IF c + d < Len(Schedule) THEN c + d + 1 ELSE c + d + 1 - Len(Schedule)
<1> DEFINE n == Len(Schedule)
<1>0. n \in Nat \ {0}
  BY Constants
<1> HIDE DEF n
<1>1. c \in Nat /\ d \in Nat /\ c < n /\ d < n
  BY <1>0 DEF n
<1>2. (c + d) % n = IF c + d < n THEN c + d ELSE c + d - n
  BY <1>0, <1>1
<1>3. Place(c, d) = ((c + d) % n) + 1
  BY DEF Place, n
<1>4. /\ Place(c, d) \in 1 .. n
      /\ Place(c, d) = IF c + d < n THEN c + d + 1 ELSE c + d + 1 - n
  BY <1>0, <1>1, <1>2, <1>3
<1> QED BY <1>4 DEF n

\* From wherever the cursor is, every class has its place on the way round.
LEMMA EveryClassHasAPlace ==
    ASSUME NEW c \in 0 .. Len(Schedule) - 1, NEW k \in Classes
    PROVE  \E d \in 0 .. Len(Schedule) - 1 : Schedule[Place(c, d)] = k
<1>0. Len(Schedule) \in Nat \ {0}
  BY Constants
<1>1. PICK i \in 1 .. Len(Schedule) : Schedule[i] = k
  BY DEF Classes
<1>2. CASE c < i
  <2>1. i - 1 - c \in 0 .. Len(Schedule) - 1
    BY <1>0, <1>2
  <2>2. Place(c, i - 1 - c) = i
    BY <1>0, <1>2, <2>1, Round, SMTT(30)
  <2> QED BY <1>1, <2>1, <2>2
<1>3. CASE ~ (c < i)
  <2> DEFINE d == i - 1 - c + Len(Schedule)
  <2>1. d \in 0 .. Len(Schedule) - 1 /\ c + d = i - 1 + Len(Schedule) /\ ~ (c + d < Len(Schedule))
    BY <1>0, <1>3
  <2> HIDE DEF d
  <2>2. Place(c, d) = i
    BY <1>0, <2>1, Round
  <2> QED BY <1>1, <2>1, <2>2
<1> QED BY <1>2, <1>3

\* After a grant at the k-th place the cursor is k + 1 places nearer to the rest.
LEMMA Nearer ==
    ASSUME NEW c \in 0 .. Len(Schedule) - 1, NEW d \in 0 .. Len(Schedule) - 1, NEW k \in 0 .. d - 1
    PROVE  LET c2 == (c + k + 1) % Len(Schedule)
           IN  /\ c2 \in 0 .. Len(Schedule) - 1
               /\ d - k - 1 \in 0 .. Len(Schedule) - 1
               /\ Place(c2, d - k - 1) = Place(c, d)
<1> DEFINE n == Len(Schedule)
           c2 == (c + k + 1) % n
<1>0. n \in Nat \ {0}
  BY Constants
<1>a. c \in 0 .. n - 1 /\ d \in 0 .. n - 1
  OBVIOUS
<1> HIDE DEF n
<1>1. c \in Nat /\ d \in Nat /\ k \in Nat /\ c < n /\ d < n /\ k < d
  BY <1>0, <1>a
<1>2. c2 = IF c + k + 1 < n THEN c + k + 1 ELSE c + k + 1 - n
  BY <1>0, <1>1
<1> HIDE DEF c2
<1>3. c2 \in 0 .. n - 1 /\ d - k - 1 \in 0 .. n - 1
  BY <1>0, <1>1, <1>2
<1>4. Place(c2, d - k - 1) = IF c2 + (d - k - 1) < n THEN c2 + (d - k - 1) + 1 ELSE c2 + (d - k - 1) + 1 - n
  BY <1>3, Round DEF n
<1>5. Place(c, d) = IF c + d < n THEN c + d + 1 ELSE c + d + 1 - n
  BY <1>a, Round DEF n
<1>6. Place(c2, d - k - 1) = Place(c, d)
  BY <1>0, <1>1, <1>2, <1>3, <1>4, <1>5
<1> QED BY <1>3, <1>6 DEF n, c2

-----------------------------------------------------------------------------
(* What a step that leaves something alone keeps. *)

\* The types and the queues together are the type invariant.
LEMMA TypeSplit == Types /\ QueueOK => TypeOK
BY DEF Types, QueueOK, TypeOK

\* The permits and the loans are those of before.
LEMMA PermitsKept ==
    ASSUME PermitsOK, UNCHANGED <<phase, got, remaining, bound, used, released, lender>>
    PROVE  PermitsOK'
BY DEF PermitsOK, PermitOK, BorrowOK, Holding, Stepping, Lent

\* The queues are those of before.
LEMMA QueueKept == ASSUME QueueOK, UNCHANGED <<queue, phase>> PROVE QueueOK'
BY DEF QueueOK, Waiting

\* The counts of what is in use are those of before.
LEMMA OccupancyKept == ASSUME OccupancyConserved, UNCHANGED <<inUse, got>> PROVE OccupancyConserved'
BY DEF OccupancyConserved

\* The round robin is where it was, and nobody was passed.
LEMMA TurnsKept ==
    ASSUME Types, Types', TurnsOK, UNCHANGED cursor,
           \A r \in Requests : passed'[r] = passed[r] \/ passed'[r] = 0
    PROVE  TurnsOK'
<1> SUFFICES ASSUME NEW r \in Requests  PROVE TurnOK(r)'
  BY DEF TurnsOK
<1>1. CASE passed'[r] = passed[r]
  BY <1>1 DEF TurnsOK, TurnOK, At
<1>2. CASE passed'[r] = 0
  <2>1. PICK d \in 0 .. Len(Schedule) - 1 : Schedule[Place(cursor', d)] = Class[r]
    BY Constants, EveryClassHasAPlace, ZenonT(60) DEF Types
  <2>2. passed'[r] + d < Len(Schedule)
    BY <1>2, Constants
  <2> QED BY <2>1, <2>2 DEF TurnOK, At, Place
<1> QED BY <1>1, <1>2

\* While nothing drains only the patient wait; so it stays if nobody else begins to.
LEMMA WaitsKept ==
    ASSUME WaitsOK, ~ draining, \A r \in Requests : Waiting(r)' => Waiting(r)
    PROVE  WaitsOK'
BY DEF WaitsOK, WaitOK

\* What a permit and its step may still spend.
Open(r)     == remaining[r] + Unused(r)
Outstanding == Total([r \in Requests |-> Open(r)], Requests)

OpenNat ==
    /\ \A r \in Requests : Unused(r) \in Nat /\ Open(r) \in Nat /\ remaining[r] \in Nat
    /\ Outstanding \in Nat

\* It is a natural number.
LEMMA OpenType == Types /\ PermitsOK => OpenNat
<1> SUFFICES ASSUME Types, PermitsOK  PROVE OpenNat
  OBVIOUS
<1>1. ASSUME NEW r \in Requests  PROVE Unused(r) \in Nat /\ Open(r) \in Nat /\ remaining[r] \in Nat
  <2>1. remaining[r] \in Nat
    BY Constants DEF Types
  <2>2. ASSUME Stepping(r)  PROVE bound[r] \in Nat /\ used[r] \in Nat /\ used[r] <= bound[r]
    <3>1. bound[r] \in 0 .. Quanta /\ used[r] \in 0 .. Quanta
      BY <2>2 DEF Types, Stepping
    <3>2. used[r] <= bound[r]
      BY <2>2 DEF PermitsOK, PermitOK
    <3> QED BY <3>1, <3>2, Constants
  <2>3. Unused(r) \in Nat
    BY <2>2 DEF Unused
  <2> QED BY <2>1, <2>3 DEF Open
<1>2. [r \in Requests |-> Open(r)] \in [Requests -> Nat]
  BY <1>1
<1>3. Outstanding \in Nat
  BY <1>2, TotalNat, Finite DEF Outstanding
<1> QED BY <1>1, <1>3 DEF OpenNat

\* And so it is after a step.
LEMMA OpenTypeNext == Types' /\ PermitsOK' => OpenNat'
BY OpenType, PTL

\* It changes with one of the permits.
LEMMA OutstandingChange ==
    ASSUME Types, PermitsOK, Types', PermitsOK', NEW e \in Requests,
           \A r \in Requests : r # e => Open(r)' = Open(r)
    PROVE  Outstanding' = Outstanding + Open(e)' - Open(e)
<1> DEFINE f == [r \in Requests |-> Open(r)]
           h == [r \in Requests |-> Open(r)']
<1>1. f \in [Requests -> Int] /\ Outstanding = Total(f, Requests)
  BY OpenType DEF Outstanding, OpenNat
<1>2. \A r \in Requests : Open(r)' \in Nat
  BY OpenTypeNext DEF OpenNat
<1>3. h \in [Requests -> Int] /\ Outstanding' = Total(h, Requests)
  BY <1>2 DEF Outstanding
<1>4. \A r \in Requests : r # e => h[r] = f[r]
  OBVIOUS
<1>5. f[e] = Open(e) /\ h[e] = Open(e)'
  OBVIOUS
<1> HIDE DEF f, h
<1>6. Total(h, Requests) = Total(f, Requests) + h[e] - f[e]
  <2>1. f \in [Requests -> Int] /\ h \in [Requests -> Int]
    BY <1>1, <1>3
  <2> QED BY <1>4, <2>1, Finite, TotalChange
<1> QED BY <1>1, <1>3, <1>5, <1>6

\* It stays when no permit changes.
LEMMA OutstandingKept ==
    ASSUME \A r \in Requests : Open(r)' = Open(r)
    PROVE  Outstanding' = Outstanding
<1>1. [r \in Requests |-> Open(r)'] = [r \in Requests |-> Open(r)]
  OBVIOUS
<1> QED BY <1>1 DEF Outstanding

\* I/O is paid for, in these words.
LEMMA Backed == QuantaBacked <=> quanta + elapsed + Outstanding <= credit
BY DEF QuantaBacked, Outstanding, Open

\* And after a step.
LEMMA BackedNext == QuantaBacked' <=> quanta' + elapsed' + Outstanding' <= credit'
BY DEF QuantaBacked, Outstanding, Open

\* A refill takes nothing that time has not brought or that was not put back.
LEMMA RefillEffect ==
    ASSUME Types, NEW back \in Nat, Refill(back)
    PROVE  /\ quanta' \in 0 .. Quanta /\ elapsed' = 0
           /\ quanta' <= quanta + back + elapsed
           /\ UNCHANGED <<pressure, credit>>
BY Constants DEF Types, Refill, Least

\* The accounts are natural numbers.
LEMMA Accounts ==
    ASSUME Types, PermitsOK
    PROVE  Outstanding \in Nat /\ quanta \in Nat /\ elapsed \in Nat /\ credit \in Nat
BY OpenType, Constants, SMTT(30) DEF Types, OpenNat

\* So what is put back, as long as the permits spend that much less, is paid for.
LEMMA RefillBacked ==
    ASSUME Types, PermitsOK, QuantaBacked, Types', PermitsOK',
           NEW back \in Nat, Refill(back), Outstanding' + back <= Outstanding
    PROVE  QuantaBacked'
<1>1. quanta' \in 0 .. Quanta /\ quanta' <= quanta + back + elapsed
  BY RefillEffect
<1>2. elapsed' = 0 /\ credit' = credit
  BY RefillEffect
<1>3. Outstanding \in Nat /\ quanta \in Nat /\ elapsed \in Nat /\ credit \in Nat
  BY Accounts
<1>4. quanta + elapsed + Outstanding <= credit
  BY Backed
<1>5. PICK n \in Nat : n = quanta'
  BY <1>1, Constants
<1>6. PICK m \in Nat : m = Outstanding'
  BY OpenTypeNext DEF OpenNat
<1>7. n <= quanta + back + elapsed /\ m + back <= Outstanding
  BY <1>1, <1>5, <1>6
<1>8. n + 0 + m <= credit
  BY <1>3, <1>4, <1>7
<1> QED BY <1>2, <1>5, <1>6, <1>8, BackedNext

-----------------------------------------------------------------------------
\* The steps that only refill the bucket, or start a drain.
LEMMA RefillStep ==
    ASSUME IInv, Snapshot \/ TimerFires \/ \E r \in Requests : AcquireRefused(r)
    PROVE  IInv'
<1>0. Types /\ QueueOK /\ OccupancyConserved /\ QuantaBacked /\ PermitsOK /\ WaitsOK /\ TurnsOK
  BY DEF IInv
<1>1. /\ Refill(0) /\ ~ draining
      /\ UNCHANGED <<inUse, queue, cursor, asking, phase, permits, lender, passed>>
      /\ timer' \in BOOLEAN /\ draining' \in BOOLEAN
  BY <1>0 DEF AcquireRefused, Snapshot, TimerFires, Types
<1>a. UNCHANGED <<got, remaining, bound, used, released, violated>>
  BY <1>1 DEF permits, step
<1>2. /\ quanta' \in 0 .. Quanta /\ elapsed' = 0
      /\ quanta' <= quanta + 0 + elapsed
      /\ UNCHANGED <<pressure, credit>>
  BY <1>0, <1>1, RefillEffect
<1>3. Types'
  BY <1>0, <1>1, <1>a, <1>2 DEF Types
<1>4. QueueOK' /\ OccupancyConserved'
  BY <1>0, <1>1, <1>a, QueueKept, OccupancyKept
<1>5. PermitsOK'
  BY <1>0, <1>1, <1>a, PermitsKept
<1>6. WaitsOK'
  BY <1>0, <1>1, WaitsKept DEF Waiting
<1>7. TurnsOK'
  BY <1>0, <1>1, <1>3, TurnsKept
<1>8. QuantaBacked'
  <2>1. Outstanding' = Outstanding
    BY <1>a, OutstandingKept DEF Open, Unused, Stepping
  <2>2. Outstanding \in Nat
    BY <1>0, OpenType DEF OpenNat
  <2>3. Outstanding' + 0 <= Outstanding
    BY <2>1, <2>2
  <2> QED BY <1>0, <1>1, <1>3, <1>5, <2>3, RefillBacked
<1> QED BY <1>3, <1>4, <1>5, <1>6, <1>7, <1>8 DEF IInv

\* Time and pressure.
LEMMA DeviceStep ==
    ASSUME IInv, Tick \/ PressureChanges
    PROVE  IInv'
<1>0. Types /\ QueueOK /\ OccupancyConserved /\ QuantaBacked /\ PermitsOK /\ WaitsOK /\ TurnsOK
  BY DEF IInv
<1>1. ~ draining /\ UNCHANGED <<quanta, inUse, queue, cursor, timer, draining, asking, phase, got,
                                remaining, bound, used, released, violated, lender, passed>>
  BY DEF Tick, PressureChanges, arbiter, permits, step
<1>b. /\ pressure' \in Samples
      /\ \E n \in {0, 1} : elapsed' = elapsed + n /\ credit' = credit + n
  <2>1. CASE Tick
    BY <1>0, <2>1 DEF Tick, Types
  <2>2. CASE PressureChanges
    BY <1>0, <2>2 DEF PressureChanges, Types
  <2> QED BY <2>1, <2>2
<1>2. Types'
  BY <1>0, <1>1, <1>b DEF Types
<1>3. QueueOK' /\ OccupancyConserved'
  BY <1>0, <1>1, QueueKept, OccupancyKept
<1>4. PermitsOK'
  BY <1>0, <1>1, PermitsKept
<1>5. WaitsOK'
  BY <1>0, <1>1, WaitsKept DEF Waiting
<1>6. TurnsOK'
  BY <1>0, <1>1, <1>2, TurnsKept
<1>7. QuantaBacked'
  <2>1. Outstanding' = Outstanding
    BY <1>1, OutstandingKept DEF Open, Unused, Stepping
  <2>2. Outstanding \in Nat /\ quanta \in Nat /\ elapsed \in Nat /\ credit \in Nat
    BY <1>0, OpenType, Constants, SMTT(30) DEF Types, OpenNat
  <2>4. quanta + elapsed + Outstanding <= credit
    BY <1>0, Backed
  <2>5. quanta' + elapsed' + Outstanding' <= credit'
    BY <1>1, <1>b, <2>1, <2>2, <2>4
  <2> QED BY <2>5, BackedNext
<1> QED BY <1>2, <1>3, <1>4, <1>5, <1>6, <1>7 DEF IInv

-----------------------------------------------------------------------------
\* A step by which one holder changes its own permit, and spends no more than it has.
LEMMA OwnPermitStep ==
    ASSUME IInv, NEW r \in Requests, ~ draining,
           UNCHANGED <<quanta, elapsed, inUse, queue, cursor, draining, asking, phase, got, lender, passed>>,
           \A q \in Requests : q # r =>
               /\ remaining'[q] = remaining[q] /\ bound'[q] = bound[q] /\ used'[q] = used[q]
               /\ (q \in released' <=> q \in released) /\ (q \in violated' <=> q \in violated),
           Types', PermitOK(r)', NEW n \in Nat, credit' = credit - n, Open(r)' + n <= Open(r)
    PROVE  IInv'
<1>0. Types /\ QueueOK /\ OccupancyConserved /\ QuantaBacked /\ PermitsOK /\ WaitsOK /\ TurnsOK
  BY DEF IInv
<1>1. QueueOK' /\ OccupancyConserved'
  BY <1>0, QueueKept, OccupancyKept
<1>2. PermitsOK'
  <2> SUFFICES ASSUME NEW q \in Requests  PROVE PermitOK(q)' /\ BorrowOK(q)'
    BY DEF PermitsOK
  <2>0. PermitOK(q) /\ BorrowOK(q)
    BY <1>0 DEF PermitsOK
  <2>1. BorrowOK(q)'
    BY <2>0 DEF BorrowOK, Holding
  <2>2. CASE q # r
    BY <2>0, <2>1, <2>2 DEF PermitOK, Holding, Stepping, Lent
  <2> QED BY <2>1, <2>2
<1>3. WaitsOK'
  BY <1>0, WaitsKept DEF Waiting
<1>4. TurnsOK'
  BY <1>0, TurnsKept
<1>5. QuantaBacked'
  <2>1. \A q \in Requests : q # r => Open(q)' = Open(q)
    BY DEF Open, Unused, Stepping
  <2>2. Outstanding' = Outstanding + Open(r)' - Open(r)
    BY <1>0, <1>2, <2>1, OutstandingChange
  <2>3. Outstanding \in Nat /\ Open(r) \in Nat /\ quanta \in Nat /\ elapsed \in Nat /\ credit \in Nat
    BY <1>0, OpenType, Constants, SMTT(30) DEF Types, OpenNat
  <2>4. quanta + elapsed + Outstanding <= credit
    BY <1>0, Backed
  <2>5. PICK m \in Nat : m = Open(r)'
    BY <1>2, OpenTypeNext DEF OpenNat
  <2>6. quanta + elapsed + (Outstanding + m - Open(r)) <= credit - n
    BY <2>3, <2>4, <2>5
  <2> QED BY <2>2, <2>5, <2>6, BackedNext
<1> QED BY <1>1, <1>2, <1>3, <1>4, <1>5 DEF IInv

\* The numbers of a permit.
LEMMA PermitNumbers ==
    ASSUME Types, PermitsOK, NEW r \in Requests
    PROVE  /\ remaining[r] \in Nat /\ remaining[r] <= Quanta /\ Open(r) \in Nat
           /\ Stepping(r) => /\ bound[r] \in Nat /\ used[r] \in Nat /\ used[r] <= bound[r]
                             /\ remaining[r] + bound[r] <= Quanta
           /\ ~ Stepping(r) => bound[r] = -1
           /\ Stepping(r) => Holding(r)
           /\ r \in released => ~ Stepping(r)
<1>1. remaining[r] \in 0 .. Quanta /\ bound[r] \in 0 .. Quanta \cup {-1} /\ used[r] \in 0 .. Quanta
  BY DEF Types, NoStep
<1>2. PermitOK(r)
  BY DEF PermitsOK
<1>3. Open(r) \in Nat
  BY OpenType DEF OpenNat
<1>4. Stepping(r) <=> bound[r] # -1
  BY DEF Stepping, NoStep
<1> QED BY <1>1, <1>2, <1>3, <1>4, Constants DEF PermitOK

\* tryBegin.
LEMMA TryBeginStep ==
    ASSUME IInv, NEW r \in Requests, NEW b \in 0 .. Quanta, TryBegin(r, b)
    PROVE  IInv'
<1>0. Types /\ PermitsOK /\ PermitOK(r)
  BY DEF IInv, PermitsOK
<1>1. /\ ~ draining /\ Holding(r) /\ r \notin released /\ r \notin violated
      /\ UNCHANGED <<pressure, quanta, elapsed, inUse, queue, cursor, timer, draining, asking, phase, got,
                     released, lender, passed>>
      /\ credit' = credit - 0
  BY <1>0 DEF TryBegin, device, arbiter, Types
<1>2. CASE Stepping(r) \/ b > Atomic[r].quanta \/ b > remaining[r]
  <2>1. violated' = violated \cup {r} /\ UNCHANGED <<bound, used, remaining>>
    BY <1>2 DEF TryBegin, step
  <2>2. Types'
    <3>1. violated' \subseteq Requests
      BY <1>0, <2>1 DEF Types
    <3>2. credit' = credit
      BY <1>0, <1>1 DEF Types
    <3> QED BY <1>0, <1>1, <2>1, <3>1, <3>2 DEF Types
  <2>3. PermitOK(r)'
    BY <1>0, <1>1, <2>1 DEF PermitOK, Holding, Stepping, Lent
  <2>4. Open(r)' + 0 <= Open(r)
    <3>1. Unused(r)' = 0
      BY <2>1 DEF Unused
    <3>2. Open(r)' = remaining[r] + 0
      BY <2>1, <3>1 DEF Open
    <3>3. Unused(r) \in Nat /\ remaining[r] \in Nat
      BY <1>0, OpenType DEF OpenNat
    <3> QED BY <3>2, <3>3 DEF Open
  <2> QED BY <1>1, <2>1, <2>2, <2>3, <2>4, OwnPermitStep
<1>3. CASE ~ (Stepping(r) \/ b > Atomic[r].quanta \/ b > remaining[r])
  <2>0. b \in Nat /\ b <= remaining[r] /\ ~ Stepping(r)
    BY <1>3, <1>0, PermitNumbers, Constants
  <2>1. /\ bound' = [bound EXCEPT ![r] = b] /\ used' = [used EXCEPT ![r] = 0]
        /\ remaining' = [remaining EXCEPT ![r] = @ - b] /\ UNCHANGED violated
    BY <1>3 DEF TryBegin
  <2>a. remaining[r] \in Nat /\ remaining[r] <= Quanta /\ remaining[r] - b \in 0 .. Quanta
    BY <1>0, <2>0, PermitNumbers, Constants
  <2>c. /\ remaining' \in [Requests -> 0 .. Quanta] /\ used' \in [Requests -> 0 .. Quanta]
        /\ bound' \in [Requests -> 0 .. Quanta \cup {NoStep}]
    BY <1>0, <2>1, <2>a, Constants, SMTT(30) DEF Types
  <2>d. credit' \in Nat
    BY <1>0, <1>1 DEF Types
  <2>2. Types'
    BY <1>0, <1>1, <2>1, <2>c, <2>d DEF Types
  <2>b. bound'[r] = b /\ used'[r] = 0 /\ remaining'[r] = remaining[r] - b /\ b # -1
    BY <1>0, <2>0, <2>1 DEF Types
  <2>3. PermitOK(r)'
    BY <1>0, <1>1, <2>0, <2>a, <2>b DEF PermitOK, Holding, Stepping, Lent, NoStep
  <2>4. Open(r)' + 0 <= Open(r)
    <3>1. Unused(r)' = b - 0
      BY <1>1, <2>1, <2>b DEF Unused, Stepping, NoStep
    <3>2. Open(r)' = remaining[r] - b + (b - 0)
      BY <2>b, <3>1 DEF Open
    <3>3. Unused(r) \in Nat
      BY <1>0, OpenType DEF OpenNat
    <3> QED BY <2>0, <2>a, <3>2, <3>3 DEF Open
  <2> QED BY <1>0, <1>1, <2>1, <2>2, <2>3, <2>4, OwnPermitStep DEF Types
<1> QED BY <1>2, <1>3

\* claim, and a claim that is refused.
LEMMA ClaimStep ==
    ASSUME IInv, NEW r \in Requests, Claim(r) \/ Overclaim(r)
    PROVE  IInv'
<1>0. Types /\ PermitsOK /\ PermitOK(r) /\ QuantaBacked
  BY DEF IInv, PermitsOK
<1>1. /\ ~ draining /\ Stepping(r) /\ r \notin violated
      /\ UNCHANGED <<pressure, quanta, elapsed, inUse, queue, cursor, timer, draining, asking, phase, got,
                     remaining, bound, released, lender, passed>>
  BY DEF Claim, Overclaim, device, arbiter, step
<1>2. bound[r] \in Nat /\ used[r] \in Nat /\ used[r] <= bound[r] /\ bound[r] <= Quanta /\ remaining[r] \in Nat
  BY <1>0, <1>1, PermitNumbers, Constants
<1>3. Unused(r) = bound[r] - used[r]
  BY <1>1 DEF Unused
<1>4. CASE Claim(r)
  <2>1. used' = [used EXCEPT ![r] = @ + 1] /\ credit' = credit - 1 /\ used[r] < bound[r] /\ UNCHANGED violated
    BY <1>4 DEF Claim
  <2>2. credit - 1 \in Nat
    <3>1. [q \in Requests |-> Open(q)] \in [Requests -> Nat]
      BY <1>0, OpenType DEF OpenNat
    <3>2. [q \in Requests |-> Open(q)][r] <= Outstanding
      BY <3>1, TotalNat, Finite DEF Outstanding
    <3>3. Open(r) <= Outstanding /\ Outstanding \in Nat
      BY <1>0, <3>2, OpenType DEF OpenNat
    <3>4. 1 <= Open(r)
      BY <1>2, <1>3, <2>1 DEF Open
    <3>5. Open(r) \in Nat /\ quanta \in Nat /\ elapsed \in Nat /\ credit \in Nat
      BY <1>0, OpenType, Constants DEF Types, OpenNat
    <3>6. quanta + elapsed + Outstanding <= credit
      BY <1>0, Backed
    <3> QED BY <3>3, <3>4, <3>5, <3>6
  <2>3. used[r] + 1 \in 0 .. Quanta
    BY <1>2, <2>1, Constants
  <2>4. Types'
    BY <1>0, <1>1, <2>1, <2>2, <2>3 DEF Types
  <2>5. used'[r] = used[r] + 1
    BY <1>0, <2>1 DEF Types
  <2>6. PermitOK(r)'
    BY <1>0, <1>1, <1>2, <2>1, <2>5 DEF PermitOK, Holding, Stepping, Lent
  <2>7. Open(r)' + 1 <= Open(r)
    <3>1. Unused(r)' = bound[r] - (used[r] + 1)
      BY <1>1, <2>1, <2>5 DEF Unused, Stepping
    <3>2. Open(r)' = remaining[r] + (bound[r] - (used[r] + 1))
      BY <1>1, <3>1 DEF Open
    <3> QED BY <1>2, <1>3, <3>2 DEF Open
  <2> QED BY <1>0, <1>1, <2>1, <2>4, <2>6, <2>7, OwnPermitStep DEF Types
<1>5. CASE Overclaim(r)
  <2>1. violated' = violated \cup {r} /\ UNCHANGED <<used, credit>>
    BY <1>5 DEF Overclaim, step, device
  <2>2. Types'
    BY <1>0, <1>1, <2>1 DEF Types
  <2>3. PermitOK(r)'
    BY <1>0, <1>1, <2>1 DEF PermitOK, Holding, Stepping, Lent
  <2>4. Open(r)' + 0 <= Open(r)
    <3>1. Unused(r)' = 0
      BY <2>1 DEF Unused
    <3>2. Open(r)' = remaining[r] + 0
      BY <1>1, <3>1 DEF Open
    <3> QED BY <1>2, <1>3, <3>2 DEF Open
  <2>5. credit' = credit - 0
    BY <1>0, <2>1 DEF Types
  <2> QED BY <1>1, <2>1, <2>2, <2>3, <2>4, <2>5, OwnPermitStep
<1> QED BY <1>4, <1>5

\* complete, and the end of a workload whose slot is lent: what the step leaves goes
\* back to the permit.
LEMMA CompleteStep ==
    ASSUME IInv, NEW r \in Requests, Complete(r) \/ EndLentWorkload(r)
    PROVE  IInv'
<1>0. Types /\ PermitsOK /\ PermitOK(r) /\ WaitsOK
  BY DEF IInv, PermitsOK
<1>1. /\ ~ draining /\ Stepping(r)
      /\ UNCHANGED <<pressure, quanta, elapsed, inUse, queue, cursor, timer, draining, asking, phase, got,
                     violated, lender, passed>>
      /\ remaining' = [remaining EXCEPT ![r] = @ + Unused(r)]
      /\ bound' = [bound EXCEPT ![r] = NoStep] /\ used' = [used EXCEPT ![r] = 0]
      /\ credit' = credit
  BY DEF Complete, EndLentWorkload, device, arbiter
<1>a. credit' = credit - 0
  BY <1>0, <1>1 DEF Types
<1>2. \/ released' = released
      \/ /\ released' = released \cup {r} /\ r \in Lenders
         /\ \E c \in Requests : lender[c] = r /\ Holding(c)
  <2>1. CASE Complete(r)
    BY <2>1 DEF Complete
  <2>2. CASE EndLentWorkload(r)
    <3>1. released' = released \cup {r} /\ r \in Lenders /\ Lent(r)
      BY <2>2 DEF EndLentWorkload
    <3>2. PICK c \in Requests : lender[c] = r
      BY <3>1 DEF Lent
    <3>3. phase[c] # "free" /\ Atomic[c].slots = 0
      BY <1>0, <3>2, CapacityAssumption DEF PermitsOK, BorrowOK
    <3>4. ~ Waiting(c)
      BY <1>0, <1>1, <3>3, CapacityAssumption DEF WaitsOK, WaitOK
    <3>5. Holding(c)
      BY <1>0, <3>3, <3>4 DEF Types, Waiting, Holding
    <3> QED BY <3>1, <3>2, <3>5
  <2> QED BY <2>1, <2>2
<1>3. /\ bound[r] \in Nat /\ used[r] \in Nat /\ used[r] <= bound[r] /\ remaining[r] \in Nat
      /\ remaining[r] + bound[r] <= Quanta /\ Unused(r) \in Nat
  BY <1>0, <1>1, PermitNumbers, OpenType DEF OpenNat
<1>4. Unused(r) <= bound[r]
  BY <1>3 DEF Unused
<1>5. remaining[r] + Unused(r) \in 0 .. Quanta
  BY <1>3, <1>4, Constants
<1>6. Types'
  <2>1. released' \subseteq Requests
    BY <1>0, <1>2 DEF Types
  <2>2. /\ remaining' \in [Requests -> 0 .. Quanta] /\ used' \in [Requests -> 0 .. Quanta]
        /\ bound' \in [Requests -> 0 .. Quanta \cup {NoStep}]
    BY <1>0, <1>1, <1>5, Constants, SMTT(30) DEF Types
  <2> QED BY <1>0, <1>1, <2>1, <2>2 DEF Types
<1>7. bound'[r] = NoStep /\ used'[r] = 0 /\ remaining'[r] = remaining[r] + Unused(r)
  BY <1>0, <1>1 DEF Types
<1>8. PermitOK(r)'
  BY <1>0, <1>1, <1>2, <1>7, PermitNumbers DEF PermitOK, Holding, Stepping, Lent
<1>9. Open(r)' + 0 <= Open(r)
  <2>1. Unused(r)' = 0
    BY <1>7 DEF Unused, Stepping
  <2>2. Open(r)' = remaining[r] + Unused(r) + 0
    BY <1>7, <2>1 DEF Open
  <2> QED BY <1>3, <2>2 DEF Open
<1> QED BY <1>0, <1>1, <1>2, <1>a, <1>6, <1>8, <1>9, OwnPermitStep DEF Types

-----------------------------------------------------------------------------
(* The queues. *)

\* A request that begins to wait is appended to the queue of its class.
LEMMA QueueAppends ==
    ASSUME QueueOK, NEW r \in Requests, ~ Waiting(r), Waiting(r)',
           queue' = [queue EXCEPT ![Class[r]] = Append(@, r)],
           \A q \in Requests : q # r => (Waiting(q)' <=> Waiting(q))
    PROVE  QueueOK'
<1> DEFINE k == Class[r]
           s == queue[k]
           t == Append(s, r)
<1>0. k \in Classes /\ s \in Seq(Requests) /\ Len(s) \in Nat
  BY Constants DEF QueueOK
<1>1. \A i \in 1 .. Len(s) : s[i] # r
  BY DEF QueueOK
<1>2. /\ t \in Seq(Requests) /\ Len(t) = Len(s) + 1 /\ t[Len(s) + 1] = r
      /\ \A i \in 1 .. Len(s) : t[i] = s[i]
  BY <1>0
<1>3. queue' \in [Classes -> Seq(Requests)] /\ queue'[k] = t /\ \A c \in Classes : c # k => queue'[c] = queue[c]
  BY <1>0, <1>2 DEF QueueOK
<1>4. \A i \in 1 .. Len(t) : i \in 1 .. Len(s) \/ i = Len(s) + 1
  BY <1>0, <1>2
<1>5. \A i, j \in 1 .. Len(s) : s[i] = s[j] => i = j
  BY <1>0 DEF QueueOK
<1>a. \A i \in 1 .. Len(s) : Class[s[i]] = k
  BY <1>0 DEF QueueOK
<1> HIDE DEF t, s, k
<1>6. \A i, j \in 1 .. Len(t) : t[i] = t[j] => i = j
  BY <1>1, <1>2, <1>4, <1>5
<1>7. \A i \in 1 .. Len(t) : Class[t[i]] = k
  BY <1>2, <1>4, <1>a DEF k
<1>8. ASSUME NEW c \in Classes
      PROVE  /\ \A i, j \in 1 .. Len(queue'[c]) : queue'[c][i] = queue'[c][j] => i = j
             /\ \A i \in 1 .. Len(queue'[c]) : Class[queue'[c][i]] = c
  <2>1. CASE c = k
    <3>1. queue'[c] = t
      BY <1>3, <2>1
    <3>2. \A i, j \in 1 .. Len(queue'[c]) : queue'[c][i] = queue'[c][j] => i = j
      BY <1>6, <3>1
    <3>3. \A i \in 1 .. Len(queue'[c]) : Class[queue'[c][i]] = c
      BY <1>7, <2>1, <3>1
    <3> QED BY <3>2, <3>3
  <2>2. CASE c # k
    BY <1>3, <2>2 DEF QueueOK
  <2> QED BY <2>1, <2>2
<1>9. ASSUME NEW q \in Requests
      PROVE  Waiting(q)' <=> \E i \in 1 .. Len(queue'[Class[q]]) : queue'[Class[q]][i] = q
  <2>0. Class[q] \in Classes
    BY Constants
  <2>1. CASE Class[q] # k
    BY <1>3, <2>0, <2>1 DEF QueueOK, k
  <2>2. CASE q = r
    <3>1. Len(s) + 1 \in 1 .. Len(t)
      BY <1>0, <1>2
    <3> QED BY <1>2, <1>3, <2>2, <3>1 DEF k
  <2>3. CASE Class[q] = k /\ q # r
    <3>1. Waiting(q) <=> \E i \in 1 .. Len(s) : s[i] = q
      BY <2>3 DEF QueueOK, s
    <3>2. ASSUME NEW i \in 1 .. Len(s)  PROVE i \in 1 .. Len(t)
      BY <1>0, <1>2
    <3>3. (\E i \in 1 .. Len(t) : t[i] = q) <=> \E i \in 1 .. Len(s) : s[i] = q
      BY <1>2, <1>4, <2>3, <3>2
    <3> QED BY <1>3, <2>3, <3>1, <3>3
  <2> QED BY <2>1, <2>2, <2>3
<1> QED BY <1>3, <1>8, <1>9 DEF QueueOK

\* s without its i-th element.
IsWithout(t, s, i) ==
    /\ t \in Seq(Requests) /\ Len(t) = Len(s) - 1
    /\ \A j \in 1 .. Len(t) : t[j] = IF j < i THEN s[j] ELSE s[j + 1]

\* A request that no longer waits leaves its place in the queue.
LEMMA QueueRemoves ==
    ASSUME QueueOK, NEW r \in Requests, ~ Waiting(r)',
           NEW i \in 1 .. Len(queue[Class[r]]), queue[Class[r]][i] = r,
           NEW t, IsWithout(t, queue[Class[r]], i), queue' = [queue EXCEPT ![Class[r]] = t],
           \A q \in Requests : q # r => (Waiting(q)' <=> Waiting(q))
    PROVE  QueueOK'
<1> DEFINE k == Class[r]
           s == queue[k]
<1>0. k \in Classes /\ s \in Seq(Requests) /\ Len(s) \in Nat /\ i \in 1 .. Len(s) /\ s[i] = r
  BY Constants DEF QueueOK
<1>1. \A j, l \in 1 .. Len(s) : s[j] = s[l] => j = l
  BY <1>0 DEF QueueOK
<1>a. \A j \in 1 .. Len(s) : Class[s[j]] = k
  BY <1>0 DEF QueueOK
<1>2. IsWithout(t, s, i)
  OBVIOUS
<1>3. queue' \in [Classes -> Seq(Requests)] /\ queue'[k] = t /\ \A c \in Classes : c # k => queue'[c] = queue[c]
  BY <1>0, <1>2 DEF QueueOK, IsWithout
<1> HIDE DEF s, k
<1> DEFINE at(j) == IF j < i THEN j ELSE j + 1
<1>4. \A j \in 1 .. Len(t) : at(j) \in 1 .. Len(s) /\ at(j) # i /\ t[j] = s[at(j)]
  BY <1>0, <1>2 DEF IsWithout
<1>5. \A j, l \in 1 .. Len(t) : at(j) = at(l) => j = l
  BY <1>0, <1>2 DEF IsWithout
<1>6. ASSUME NEW j \in 1 .. Len(s), j # i  PROVE \E l \in 1 .. Len(t) : t[l] = s[j]
  <2>1. CASE j < i
    <3>1. j \in 1 .. Len(t)
      BY <1>0, <1>2, <2>1 DEF IsWithout
    <3>2. t[j] = s[j]
      BY <1>2, <2>1, <3>1 DEF IsWithout
    <3> QED BY <3>1, <3>2
  <2>2. CASE ~ (j < i)
    <3>1. j - 1 \in 1 .. Len(t) /\ ~ (j - 1 < i) /\ (j - 1) + 1 = j
      BY <1>0, <1>2, <1>6, <2>2 DEF IsWithout
    <3>2. t[j - 1] = s[(j - 1) + 1]
      BY <1>2, <3>1 DEF IsWithout
    <3> QED BY <3>1, <3>2
  <2> QED BY <2>1, <2>2
<1> HIDE DEF at
<1>7. \A j, l \in 1 .. Len(t) : t[j] = t[l] => j = l
  BY <1>1, <1>4, <1>5, SMTT(30)
<1>8. \A j \in 1 .. Len(t) : Class[t[j]] = k /\ t[j] # r
  BY <1>0, <1>1, <1>4, <1>a
<1>9. ASSUME NEW c \in Classes
      PROVE  /\ \A j, l \in 1 .. Len(queue'[c]) : queue'[c][j] = queue'[c][l] => j = l
             /\ \A j \in 1 .. Len(queue'[c]) : Class[queue'[c][j]] = c
  <2>1. CASE c = k
    BY <1>3, <1>7, <1>8, <2>1
  <2>2. CASE c # k
    BY <1>3, <2>2 DEF QueueOK
  <2> QED BY <2>1, <2>2
<1>10. ASSUME NEW q \in Requests
       PROVE  Waiting(q)' <=> \E j \in 1 .. Len(queue'[Class[q]]) : queue'[Class[q]][j] = q
  <2>0. Class[q] \in Classes
    BY Constants
  <2>1. CASE Class[q] # k
    BY <1>3, <2>0, <2>1 DEF QueueOK, k
  <2>2. CASE q = r
    BY <1>3, <1>8, <2>2 DEF k
  <2>3. CASE Class[q] = k /\ q # r
    <3>1. Waiting(q) <=> \E j \in 1 .. Len(s) : s[j] = q
      BY <2>3 DEF QueueOK, s
    <3>2. (\E j \in 1 .. Len(t) : t[j] = q) <=> \E j \in 1 .. Len(s) : s[j] = q
      BY <1>0, <1>4, <1>6, <2>3
    <3> QED BY <1>3, <2>3, <3>1, <3>2
  <2> QED BY <2>1, <2>2, <2>3
<1> QED BY <1>3, <1>9, <1>10 DEF QueueOK

\* Remove() takes out one element and keeps the others in order.
LEMMA RemoveEffect ==
    ASSUME QueueOK, NEW r \in Requests, Remove(r), ~ Waiting(r)',
           \A q \in Requests : q # r => (Waiting(q)' <=> Waiting(q))
    PROVE  QueueOK'
<1> DEFINE s == queue[Class[r]]
<1>0. s \in Seq(Requests) /\ Len(s) \in Nat
  BY Constants DEF QueueOK
<1>1. PICK i \in 1 .. Len(s) :
         s[i] = r /\ queue' = [queue EXCEPT ![Class[r]] = SubSeq(s, 1, i - 1) \o SubSeq(s, i + 1, Len(s))]
  BY DEF Remove
<1> DEFINE a == SubSeq(s, 1, i - 1)
           b == SubSeq(s, i + 1, Len(s))
           t == a \o b
<1>2. IsWithout(t, s, i)
  <2> HIDE DEF s
  <2>1. a \in Seq(Requests) /\ Len(a) = i - 1 /\ \A j \in 1 .. i - 1 : a[j] = s[j]
    BY <1>0
  <2>2. b \in Seq(Requests) /\ Len(b) = Len(s) - i /\ \A j \in 1 .. Len(s) - i : b[j] = s[j + i]
    BY <1>0
  <2> HIDE DEF a, b
  <2>b. a \in Seq(Requests) /\ b \in Seq(Requests)
    BY <2>1, <2>2
  <2>c. t \in Seq(Requests)
    BY <2>b
  <2>d. Len(t) = Len(a) + Len(b)
    BY <2>b
  <2>a. t \in Seq(Requests) /\ Len(t) = Len(a) + Len(b)
    BY <2>c, <2>d
  <2>3. t \in Seq(Requests) /\ Len(t) = Len(s) - 1
    BY <1>0, <2>1, <2>2, <2>a
  <2>4. ASSUME NEW j \in 1 .. Len(t)  PROVE t[j] = IF j < i THEN s[j] ELSE s[j + 1]
    <3>1. CASE j < i
      <4>1. j \in 1 .. Len(a)
        BY <1>0, <2>1, <2>3, <3>1
      <4> QED BY <2>1, <2>2, <3>1, <4>1
    <3>2. CASE ~ (j < i)
      <4>1. j - Len(a) \in 1 .. Len(b) /\ ~ (j \in 1 .. Len(a)) /\ j \in 1 .. Len(a) + Len(b)
        BY <1>0, <2>1, <2>2, <2>3, <3>2
      <4>2. t[j] = b[j - Len(a)]
        BY <2>1, <2>2, <4>1, SMTT(30)
      <4>3. (j - Len(a)) + i = j + 1
        BY <1>0, <2>1, <2>3
      <4> QED BY <2>2, <3>2, <4>1, <4>2, <4>3
    <3> QED BY <3>1, <3>2
  <2> QED BY <2>3, <2>4 DEF IsWithout
<1> QED BY <1>1, <1>2, QueueRemoves

-----------------------------------------------------------------------------
\* acquire.
LEMMA AcquireStep ==
    ASSUME IInv, NEW r \in Requests, NEW p \in Requests \cup {None}, Acquire(r, p)
    PROVE  IInv'
<1>0. Types /\ QueueOK /\ OccupancyConserved /\ QuantaBacked /\ PermitsOK /\ WaitsOK /\ TurnsOK
  BY DEF IInv
<1>1. /\ Refill(0) /\ ~ draining /\ phase[r] = "free" /\ draining' = TRUE /\ asking' = r
      /\ phase' = [phase EXCEPT ![r] = "waiting"] /\ lender' = [lender EXCEPT ![r] = p]
      /\ UNCHANGED <<inUse, cursor, timer, got, remaining, bound, used, released, violated, passed>>
  BY DEF Acquire, permits, step
<1>2. /\ quanta' \in 0 .. Quanta /\ elapsed' = 0
      /\ quanta' <= quanta + 0 + elapsed
      /\ UNCHANGED <<pressure, credit>>
  BY <1>0, <1>1, RefillEffect
<1>3. Types'
  <2>1. phase' \in [Requests -> {"free", "waiting", "held"}] /\ lender' \in [Requests -> Requests \cup {None}]
    BY <1>0, <1>1 DEF Types
  <2> QED BY <1>0, <1>1, <1>2, <2>1 DEF Types
<1>4. phase'[r] = "waiting" /\ \A q \in Requests : q # r => phase'[q] = phase[q]
  BY <1>0, <1>1 DEF Types
<1>5. lender'[r] = p /\ \A q \in Requests : q # r => lender'[q] = lender[q]
  BY <1>0, <1>1 DEF Types
<1>6. QueueOK'
  <2>1. queue' = [queue EXCEPT ![Class[r]] = Append(@, r)]
    BY DEF Acquire
  <2>2. ~ Waiting(r) /\ Waiting(r)' /\ \A q \in Requests : q # r => (Waiting(q)' <=> Waiting(q))
    BY <1>1, <1>4 DEF Waiting
  <2> QED BY <1>0, <2>1, <2>2, QueueAppends
<1>7. OccupancyConserved'
  BY <1>0, <1>1, OccupancyKept
<1>8. lender[r] = None
  BY <1>0, <1>1 DEF PermitsOK, BorrowOK
<1>9. PermitsOK'
  <2> SUFFICES ASSUME NEW q \in Requests  PROVE PermitOK(q)' /\ BorrowOK(q)'
    BY DEF PermitsOK
  <2>0. PermitOK(q) /\ BorrowOK(q)
    BY <1>0 DEF PermitsOK
  <2>1. \A c \in Requests : Holding(c)' <=> Holding(c)
    BY <1>1, <1>4 DEF Holding
  <2>2. PermitOK(q)'
    <3>1. ASSUME q \in released  PROVE \E c \in Requests : lender'[c] = q /\ Holding(c)'
      <4>1. PICK c \in Requests : lender[c] = q /\ Holding(c)
        BY <2>0, <3>1 DEF PermitOK
      <4>2. c # r
        BY <1>1, <4>1 DEF Holding
      <4> QED BY <1>5, <2>1, <4>1, <4>2
    <3> QED BY <1>1, <2>0, <2>1, <3>1 DEF PermitOK, Stepping
  <2>3. CASE Atomic[r].slots # 0
    <3>1. p = None
      BY <2>3 DEF Acquire
    <3>2. lender' = lender
      BY <1>0, <1>1, <1>8, <3>1 DEF Types
    <3>3. BorrowOK(q)'
      <4>1. lender[q] # None => lender[q] \in Requests /\ Holding(lender[q])
        BY <1>0, <2>0 DEF BorrowOK, Types
      <4>2. lender'[q] # None => phase'[lender'[q]] = "held"
        BY <2>1, <3>2, <4>1 DEF Holding
      <4> QED BY <1>4, <2>0, <2>3, <3>2, <4>2 DEF BorrowOK, Holding
    <3> QED BY <2>2, <3>3
  <2>4. CASE Atomic[r].slots = 0
    <3>1. p # None /\ Lends(p, r) /\ SlotFree(p)
      BY <2>4 DEF Acquire
    <3>2. p \in Requests /\ p \in Lenders /\ Stepping(p) /\ \A c \in Requests : lender[c] # p
      BY <3>1 DEF Lends, SlotFree, Lent
    <3>3. Holding(p)
      BY <1>0, <3>2, PermitNumbers
    <3>4. \A c, d \in Requests : lender'[c] = lender'[d] /\ lender'[d] # None => c = d \/ (c # r /\ d # r)
      BY <1>5, <3>2
    <3>5. CASE q = r
      <4>1. \A c \in Requests : lender'[c] = p => c = r
        BY <1>5, <3>2
      <4> QED BY <1>4, <1>5, <2>1, <2>2, <2>4, <3>1, <3>2, <3>3, <3>5, <4>1 DEF BorrowOK
    <3>6. CASE q # r
      <4>1. lender'[q] = lender[q] /\ phase'[q] = phase[q]
        BY <1>4, <1>5, <3>6
      <4>2. lender[q] # None => \A c \in Requests : lender'[c] = lender'[q] => c = q
        BY <1>5, <2>0, <3>4, <4>1 DEF BorrowOK
      <4>a. lender[q] # None => lender[q] \in Requests /\ Holding(lender[q])
        BY <1>0, <2>0 DEF BorrowOK, Types
      <4>3. lender[q] # None => phase'[lender[q]] = "held"
        BY <2>1, <4>a DEF Holding
      <4>4. BorrowOK(q)'
        BY <2>0, <4>1, <4>2, <4>3 DEF BorrowOK, Holding
      <4> QED BY <2>2, <4>4
    <3> QED BY <3>5, <3>6
  <2> QED BY <2>3, <2>4
<1>10. WaitsOK'
  BY <1>0, <1>1, <1>4 DEF WaitsOK, WaitOK, Waiting
<1>11. TurnsOK'
  BY <1>0, <1>1, <1>3, TurnsKept
<1>12. QuantaBacked'
  <2>1. Outstanding' = Outstanding
    BY <1>1, OutstandingKept DEF Open, Unused, Stepping
  <2>2. Outstanding \in Nat
    BY <1>0, OpenType DEF OpenNat
  <2>3. Outstanding' + 0 <= Outstanding
    BY <2>1, <2>2
  <2> QED BY <1>0, <1>1, <1>3, <1>9, <2>3, RefillBacked
<1> QED BY <1>3, <1>6, <1>7, <1>9, <1>10, <1>11, <1>12 DEF IInv

\* A waiting request is told to come again, or gives up: it leaves its queue, and
\* the slot that was kept for it is free.
LEMMA LeaveStep ==
    ASSUME IInv, NEW r \in Requests, Waiting(r), Remove(r),
           phase' = [phase EXCEPT ![r] = "free"], passed' = [passed EXCEPT ![r] = 0],
           lender' = [lender EXCEPT ![r] = None], timer' \in BOOLEAN, draining' \in BOOLEAN,
           asking' \in {asking, None},
           UNCHANGED <<device, quanta, inUse, cursor, permits>>,
           \A q \in Requests \ {r} : WaitOK(q)'
    PROVE  IInv'
<1>0. Types /\ QueueOK /\ OccupancyConserved /\ QuantaBacked /\ PermitsOK /\ WaitsOK /\ TurnsOK
  BY DEF IInv
<1>1. UNCHANGED <<pressure, elapsed, credit, quanta, inUse, cursor, got, remaining, bound, used, released, violated>>
  BY DEF device, permits, step
<1>2. /\ phase' \in [Requests -> {"free", "waiting", "held"}] /\ lender' \in [Requests -> Requests \cup {None}]
      /\ passed' \in [Requests -> 0 .. Len(Schedule)]
  BY <1>0, Constants, SMTT(30) DEF Types
<1>3. Types'
  BY <1>0, <1>1, <1>2 DEF Types
<1>4. /\ phase'[r] = "free" /\ lender'[r] = None
      /\ \A q \in Requests : q # r => phase'[q] = phase[q] /\ lender'[q] = lender[q]
      /\ \A q \in Requests : passed'[q] = passed[q] \/ passed'[q] = 0
  BY <1>0 DEF Types
<1>5. QueueOK'
  <2>1. ~ Waiting(r)' /\ \A q \in Requests : q # r => (Waiting(q)' <=> Waiting(q))
    BY <1>4 DEF Waiting
  <2> QED BY <1>0, <2>1, RemoveEffect
<1>6. OccupancyConserved'
  BY <1>0, <1>1, OccupancyKept
<1>7. PermitsOK'
  <2> SUFFICES ASSUME NEW q \in Requests  PROVE PermitOK(q)' /\ BorrowOK(q)'
    BY DEF PermitsOK
  <2>0. PermitOK(q) /\ BorrowOK(q)
    BY <1>0 DEF PermitsOK
  <2>1. \A c \in Requests : Holding(c)' <=> Holding(c)
    BY <1>4 DEF Holding, Waiting
  <2>2. PermitOK(q)'
    <3>1. ASSUME q \in released  PROVE \E c \in Requests : lender'[c] = q /\ Holding(c)'
      <4>1. PICK c \in Requests : lender[c] = q /\ Holding(c)
        BY <2>0, <3>1 DEF PermitOK
      <4>2. c # r
        BY <4>1 DEF Holding, Waiting
      <4> QED BY <1>4, <2>1, <4>1, <4>2
    <3> QED BY <1>1, <2>0, <2>1, <3>1 DEF PermitOK, Stepping
  <2>3. CASE q = r
    BY <1>4, <2>2, <2>3 DEF BorrowOK
  <2>4. CASE q # r
    <3>1. lender'[q] = lender[q] /\ phase'[q] = phase[q]
      BY <1>4, <2>4
    <3>2. lender[q] # None => \A c \in Requests : lender'[c] = lender'[q] => c = q
      BY <1>4, <2>0, <3>1 DEF BorrowOK
    <3>a. lender[q] # None => lender[q] \in Requests /\ Holding(lender[q])
      BY <1>0, <2>0 DEF BorrowOK, Types
    <3>3. lender[q] # None => phase'[lender[q]] = "held"
      BY <2>1, <3>a DEF Holding
    <3>4. BorrowOK(q)'
      BY <2>0, <3>1, <3>2, <3>3 DEF BorrowOK, Holding
    <3> QED BY <2>2, <3>4
  <2> QED BY <2>3, <2>4
<1>8. WaitsOK'
  BY <1>4 DEF WaitsOK, WaitOK, Waiting
<1>9. TurnsOK'
  BY <1>0, <1>1, <1>3, <1>4, TurnsKept
<1>10. QuantaBacked'
  <2>1. Outstanding' = Outstanding
    BY <1>1, OutstandingKept DEF Open, Unused, Stepping
  <2> QED BY <1>0, <1>1, <2>1, Backed, BackedNext
<1> QED BY <1>3, <1>5, <1>6, <1>7, <1>8, <1>9, <1>10 DEF IInv

\* The wait limit: only the patient wait, who borrow nothing.
LEMMA SettleStep == ASSUME IInv, NEW r \in Requests, Settle(r) PROVE IInv'
<1>0. Types /\ PermitsOK /\ WaitsOK
  BY DEF IInv
<1>1. ~ draining /\ Waiting(r) /\ UNCHANGED <<timer, draining, asking, lender>>
  BY DEF Settle
<1>2. Atomic[r].slots # 0
  BY <1>0, <1>1, CapacityAssumption DEF WaitsOK, WaitOK
<1>3. lender[r] = None
  BY <1>0, <1>2 DEF PermitsOK, BorrowOK
<1>4. lender' = [lender EXCEPT ![r] = None]
  BY <1>0, <1>1, <1>3 DEF Types
<1>5. \A q \in Requests \ {r} : WaitOK(q)'
  BY <1>0, <1>1 DEF Settle, WaitsOK, WaitOK, Waiting, Types
<1>6. /\ phase' = [phase EXCEPT ![r] = "free"] /\ passed' = [passed EXCEPT ![r] = 0] /\ Remove(r)
      /\ UNCHANGED <<device, quanta, inUse, cursor, permits>> /\ timer' \in BOOLEAN /\ draining' \in BOOLEAN
      /\ asking' \in {asking, None}
  BY <1>0, <1>1 DEF Settle, Types
<1> QED BY <1>1, <1>4, <1>5, <1>6, LeaveStep

\* The end of a drain: who asked and does not wait is not in a queue any more.
LEMMA DrainEndsStep == ASSUME IInv, DrainEnds PROVE IInv'
<1>0. Types /\ QueueOK /\ OccupancyConserved /\ QuantaBacked /\ PermitsOK /\ WaitsOK /\ TurnsOK
  BY DEF IInv
<1>1. /\ draining' = FALSE /\ asking' = None
      /\ UNCHANGED <<device, quanta, inUse, cursor, permits>>
  BY DEF DrainEnds
<1>2. timer' \in BOOLEAN
  BY <1>0 DEF DrainEnds, ScheduleDrain, HasPending, Types
<1>3. CASE asking # None /\ Waiting(asking) /\ asking \notin Patient
  <2>1. asking \in Requests
    BY <1>0, <1>3 DEF Types
  <2>2. /\ Remove(asking) /\ phase' = [phase EXCEPT ![asking] = "free"]
        /\ lender' = [lender EXCEPT ![asking] = None] /\ passed' = [passed EXCEPT ![asking] = 0]
    BY <1>3 DEF DrainEnds
  <2>3. \A q \in Requests \ {asking} : WaitOK(q)'
    BY <1>0, <2>1, <2>2 DEF WaitsOK, WaitOK, Waiting, Types
  <2> QED BY <1>1, <1>2, <1>3, <2>1, <2>2, <2>3, LeaveStep
<1>4. CASE ~ (asking # None /\ Waiting(asking) /\ asking \notin Patient)
  <2>1. UNCHANGED <<pressure, elapsed, credit, quanta, inUse, queue, cursor, phase, got, remaining, bound, used,
                    released, violated, lender, passed>>
    BY <1>1, <1>4 DEF DrainEnds, device, permits, step
  <2>2. Types'
    BY <1>0, <1>1, <1>2, <2>1 DEF Types
  <2>3. QueueOK' /\ OccupancyConserved'
    BY <1>0, <2>1, QueueKept, OccupancyKept
  <2>4. PermitsOK'
    BY <1>0, <2>1, PermitsKept
  <2>5. WaitsOK'
    BY <1>0, <1>4, <2>1, CapacityAssumption DEF WaitsOK, WaitOK, Waiting
  <2>6. TurnsOK'
    BY <1>0, <2>1, <2>2, TurnsKept
  <2>7. QuantaBacked'
    <3>1. Outstanding' = Outstanding
      BY <2>1, OutstandingKept DEF Open, Unused, Stepping
    <3> QED BY <1>0, <2>1, <3>1, Backed, BackedNext
  <2> QED BY <2>2, <2>3, <2>4, <2>5, <2>6, <2>7 DEF IInv
<1> QED BY <1>3, <1>4

-----------------------------------------------------------------------------
(* Grants and returns. *)

SlotsHeld == Total([r \in Requests |-> got[r].slots], Requests)
SpaceHeld == Total([r \in Requests |-> got[r].space], Requests)

\* What is in use, in these words.
LEMMA Conserved ==
    OccupancyConserved <=> /\ inUse.slots = SlotsHeld /\ inUse.space = SpaceHeld
                           /\ 0 <= inUse.slots /\ inUse.slots <= Slots
                           /\ 0 <= inUse.space /\ inUse.space <= Space
BY DEF OccupancyConserved, SlotsHeld, SpaceHeld

\* And after a step.
LEMMA ConservedNext ==
    OccupancyConserved' <=> /\ inUse'.slots = SlotsHeld' /\ inUse'.space = SpaceHeld'
                            /\ 0 <= inUse'.slots /\ inUse'.slots <= Slots
                            /\ 0 <= inUse'.space /\ inUse'.space <= Space
BY DEF OccupancyConserved, SlotsHeld, SpaceHeld

\* The sums of what is held, over two assignments of budgets that differ in one place
\* or in two.
LEMMA HeldChange ==
    ASSUME NEW g \in [Requests -> [slots : Nat, space : Nat]],
           NEW h \in [Requests -> [slots : Nat, space : Nat]],
           NEW e \in Requests, NEW d \in Requests, \A q \in Requests : q # e /\ q # d => h[q] = g[q]
    PROVE  LET S(x) == Total([r \in Requests |-> x[r].slots], Requests)
               M(x) == Total([r \in Requests |-> x[r].space], Requests)
           IN  /\ S(g) \in Nat /\ S(h) \in Nat /\ M(g) \in Nat /\ M(h) \in Nat
               /\ e = d => /\ S(h) = S(g) + h[e].slots - g[e].slots
                           /\ M(h) = M(g) + h[e].space - g[e].space
               /\ e # d => /\ S(h) = S(g) + h[e].slots - g[e].slots + h[d].slots - g[d].slots
                           /\ M(h) = M(g) + h[e].space - g[e].space + h[d].space - g[d].space
<1> DEFINE gs == [r \in Requests |-> g[r].slots]
           hs == [r \in Requests |-> h[r].slots]
           gm == [r \in Requests |-> g[r].space]
           hm == [r \in Requests |-> h[r].space]
<1>1. /\ gs \in [Requests -> Nat] /\ hs \in [Requests -> Nat]
      /\ gm \in [Requests -> Nat] /\ hm \in [Requests -> Nat]
  OBVIOUS
<1>2. /\ gs \in [Requests -> Int] /\ hs \in [Requests -> Int]
      /\ gm \in [Requests -> Int] /\ hm \in [Requests -> Int]
  BY <1>1
<1>3. \A q \in Requests : q # e /\ q # d => hs[q] = gs[q] /\ hm[q] = gm[q]
  OBVIOUS
<1>4. /\ gs[e] = g[e].slots /\ hs[e] = h[e].slots /\ gm[e] = g[e].space /\ hm[e] = h[e].space
      /\ gs[d] = g[d].slots /\ hs[d] = h[d].slots /\ gm[d] = g[d].space /\ hm[d] = h[d].space
  OBVIOUS
<1> HIDE DEF gs, hs, gm, hm
<1>5. /\ Total(gs, Requests) \in Nat /\ Total(hs, Requests) \in Nat
      /\ Total(gm, Requests) \in Nat /\ Total(hm, Requests) \in Nat
  BY <1>1, Finite, TotalNat
<1>6. ASSUME e = d
      PROVE  /\ Total(hs, Requests) = Total(gs, Requests) + hs[e] - gs[e]
             /\ Total(hm, Requests) = Total(gm, Requests) + hm[e] - gm[e]
  <2>1. \A q \in Requests : q # e => hs[q] = gs[q] /\ hm[q] = gm[q]
    BY <1>3, <1>6
  <2>2. Total(hs, Requests) = Total(gs, Requests) + hs[e] - gs[e]
    BY <1>2, <2>1, Finite, TotalChange, SMTT(30)
  <2>3. Total(hm, Requests) = Total(gm, Requests) + hm[e] - gm[e]
    BY <1>2, <2>1, Finite, TotalChange, SMTT(30)
  <2> QED BY <2>2, <2>3
<1>7. ASSUME e # d
      PROVE  /\ Total(hs, Requests) = Total(gs, Requests) + hs[e] - gs[e] + hs[d] - gs[d]
             /\ Total(hm, Requests) = Total(gm, Requests) + hm[e] - gm[e] + hm[d] - gm[d]
  <2>1. gs \in [Requests -> Int] /\ hs \in [Requests -> Int]
    BY <1>2
  <2>2. gm \in [Requests -> Int] /\ hm \in [Requests -> Int]
    BY <1>2
  <2>3. \A q \in Requests \ {e, d} : hs[q] = gs[q]
    BY <1>3
  <2>4. \A q \in Requests \ {e, d} : hm[q] = gm[q]
    BY <1>3
  <2>5. Total(hs, Requests) = Total(gs, Requests) + hs[e] - gs[e] + hs[d] - gs[d]
    BY <1>7, <2>1, <2>3, TotalChangeTwo
  <2>6. Total(hm, Requests) = Total(gm, Requests) + hm[e] - gm[e] + hm[d] - gm[d]
    BY <1>7, <2>2, <2>4, TotalChangeTwo
  <2> QED BY <2>5, <2>6
<1> QED BY <1>4, <1>5, <1>6, <1>7 DEF gs, hs, gm, hm

\* The head of a queue is a waiting request of its class.
LEMMA HeadWaits ==
    ASSUME QueueOK, NEW c \in Classes, queue[c] # << >>
    PROVE  LET r == Head(queue[c])
           IN  /\ r \in Requests /\ Class[r] = c /\ Waiting(r)
               /\ 1 \in 1 .. Len(queue[c]) /\ queue[c][1] = r
               /\ IsWithout(Tail(queue[c]), queue[c], 1)
<1> DEFINE s == queue[c]
<1>1. s \in Seq(Requests) /\ s # << >>
  BY DEF QueueOK
<1>2. 1 \in 1 .. Len(s) /\ s[1] = Head(s) /\ Head(s) \in Requests
  BY <1>1
<1>3. Class[s[1]] = c
  BY <1>2 DEF QueueOK
<1>4. Waiting(Head(s))
  BY <1>2, <1>3 DEF QueueOK
<1>5. IsWithout(Tail(s), s, 1)
  <2>1. Tail(s) \in Seq(Requests) /\ Len(Tail(s)) = Len(s) - 1
    BY <1>1
  <2>2. \A j \in 1 .. Len(Tail(s)) : ~ (j < 1) /\ Tail(s)[j] = s[j + 1]
    BY <1>1
  <2> QED BY <2>1, <2>2 DEF IsWithout
<1> QED BY <1>2, <1>3, <1>4, <1>5

\* What is granted is at least what the request cannot do without, and fits.
LEMMA GrantedFits ==
    ASSUME Types, OccupancyConserved, NEW r \in Requests, Fits(r)
    PROVE  /\ Granted(r) \in [slots : Nat, space : Nat]
           /\ Granted(r).slots >= Atomic[r].slots
           /\ inUse.slots + Granted(r).slots <= Slots
           /\ inUse.space + Granted(r).space <= Space
<1>0. /\ inUse.slots \in Nat /\ inUse.space \in Nat
      /\ inUse.slots <= Slots /\ inUse.space <= Space
  BY DEF Types, OccupancyConserved
<1>1. pressure.space \in 0 .. Space \cup {-1}
  <2>1. pressure \in Samples /\ pressure.up
    BY DEF Types, Fits
  <2>2. CASE pressure = Down
    BY <2>1, <2>2 DEF Down
  <2>3. CASE pressure \in [up : {TRUE}, space : 0 .. Space \cup {Unknown}]
    BY <2>3 DEF Unknown
  <2> QED BY <2>1, <2>2, <2>3 DEF Samples
<1> DEFINE slots == Least(Preferred[r].slots, Slots - inUse.slots)
           space == IF pressure.space = Unknown THEN 0
                    ELSE Least(Preferred[r].space, SpaceCapacity - inUse.space)
<1>2. Granted(r).slots = slots /\ Granted(r).space = space /\ Granted(r) = [slots |-> slots, space |-> space]
  BY DEF Granted
<1>3. slots \in Nat /\ slots >= Atomic[r].slots /\ inUse.slots + slots <= Slots
  <2>1. Slots - inUse.slots >= Atomic[r].slots
    BY DEF Fits
  <2> QED BY <1>0, <2>1, Constants DEF Least
<1>4. space \in Nat /\ inUse.space + space <= Space
  <2>1. CASE pressure.space = Unknown
    BY <1>0, <2>1
  <2>2. CASE pressure.space # Unknown
    <3>1. SpaceCapacity - inUse.space >= Atomic[r].space
      BY <2>2 DEF Fits
    <3>2. pressure.space \in Nat
      BY <1>1, <2>2, Constants DEF Unknown
    <3>3. SpaceCapacity \in Nat /\ SpaceCapacity <= Space
      BY <3>2, Constants DEF SpaceCapacity, Least
    <3>4. space = Least(Preferred[r].space, SpaceCapacity - inUse.space)
      BY <2>2
    <3> HIDE DEF space
    <3> QED BY <1>0, <3>1, <3>3, <3>4, Constants DEF Least
  <2> QED BY <2>1, <2>2
<1> HIDE DEF slots, space
<1> QED BY <1>2, <1>3, <1>4

\* A turn of the drain.
LEMMA GrantStep ==
    ASSUME IInv, NEW k \in 0 .. Len(Schedule) - 1, Grant(k)
    PROVE  IInv'
<1>0. Types /\ QueueOK /\ OccupancyConserved /\ QuantaBacked /\ PermitsOK /\ WaitsOK /\ TurnsOK
  BY DEF IInv
<1>1. PICK c \in Classes : c = At(k)
  <2>1. Place(cursor, k) \in 1 .. Len(Schedule)
    BY <1>0, Round DEF Types
  <2> QED BY <2>1 DEF At, Place, Classes
<1>2. queue[c] # << >> /\ Fits(Head(queue[c])) /\ \A j \in 0 .. k - 1 : ~ Eligible(j)
  BY <1>1 DEF Grant, Eligible
<1>3. PICK r \in Requests :
          /\ r = Head(queue[c]) /\ Class[r] = c /\ Waiting(r) /\ 1 \in 1 .. Len(queue[c]) /\ queue[c][1] = r
          /\ IsWithout(Tail(queue[c]), queue[c], 1)
  BY <1>0, <1>2, HeadWaits
<1>5. PICK n \in 0 .. Quanta : n = Least(Preferred[r].quanta, quanta) /\ n <= quanta /\ quanta - n \in 0 .. Quanta
  <2>1. quanta \in 0 .. Quanta
    BY <1>0 DEF Types
  <2>2. Preferred[r].quanta \in Nat /\ Quanta \in Nat
    BY Constants
  <2> QED BY <2>1, <2>2 DEF Least
<1>4. /\ queue' = [queue EXCEPT ![c] = Tail(queue[c])]
      /\ phase' = [phase EXCEPT ![r] = "held"]
      /\ got' = [got EXCEPT ![r] = Granted(r)]
      /\ inUse' = [slots |-> inUse.slots + Granted(r).slots, space |-> inUse.space + Granted(r).space]
      /\ remaining' = [remaining EXCEPT ![r] = n] /\ quanta' = quanta - n
      /\ passed' = Passed(r) /\ cursor' = CursorAfter(k)
      /\ UNCHANGED <<pressure, elapsed, credit, timer, draining, asking, bound, used, released, violated, lender>>
      /\ draining
  BY <1>1, <1>3, <1>5 DEF Grant, device, step
<1>6. PermitOK(r) /\ BorrowOK(r) /\ ~ Holding(r)
  BY <1>0, <1>3 DEF PermitsOK, Waiting, Holding
<1>7. got[r] = NoOccupancy /\ remaining[r] = 0 /\ ~ Stepping(r)
  BY <1>6 DEF PermitOK
<1>8. /\ Granted(r) \in [slots : Nat, space : Nat] /\ Granted(r).slots >= Atomic[r].slots
      /\ inUse.slots + Granted(r).slots <= Slots /\ inUse.space + Granted(r).space <= Space
  BY <1>0, <1>2, <1>3, GrantedFits
<1>9. inUse.slots \in Nat /\ inUse.space \in Nat
  BY <1>0 DEF Types
<1>10. /\ phase' \in [Requests -> {"free", "waiting", "held"}]
       /\ got' \in [Requests -> [slots : Nat, space : Nat]]
       /\ remaining' \in [Requests -> 0 .. Quanta]
  BY <1>0, <1>3, <1>4, <1>5, <1>8 DEF Types
<1>11. inUse' \in [slots : Nat, space : Nat]
  BY <1>4, <1>8, <1>9, SMTT(30)
<1>12. cursor' \in 0 .. Len(Schedule) - 1
  <2>1. cursor \in 0 .. Len(Schedule) - 1
    BY <1>0 DEF Types
  <2>2. cursor' = (cursor + k + 1) % Len(Schedule)
    BY <1>4 DEF CursorAfter
  <2>3. (cursor + k + 1) % Len(Schedule) \in 0 .. Len(Schedule) - 1
    BY <2>1, Constants
  <2> QED BY <2>2, <2>3
<1>13. passed' \in [Requests -> 0 .. Len(Schedule)]
  <2>1. ASSUME NEW q \in Requests  PROVE Least(passed[q] + 1, Len(Schedule)) \in 0 .. Len(Schedule)
    <3>1. passed[q] \in 0 .. Len(Schedule)
      BY <1>0 DEF Types
    <3> QED BY <3>1, Constants DEF Least
  <2>2. 0 \in 0 .. Len(Schedule)
    BY Constants
  <2> QED BY <1>4, <2>1, <2>2 DEF Passed
<1>14. Types'
  BY <1>0, <1>4, <1>5, <1>10, <1>11, <1>12, <1>13 DEF Types
<1>15. /\ phase'[r] = "held" /\ got'[r] = Granted(r) /\ remaining'[r] = n
       /\ \A q \in Requests : q # r => phase'[q] = phase[q] /\ got'[q] = got[q] /\ remaining'[q] = remaining[q]
  BY <1>0, <1>3, <1>4 DEF Types
<1>16. QueueOK'
  <2>1. ~ Waiting(r)' /\ \A q \in Requests : q # r => (Waiting(q)' <=> Waiting(q))
    BY <1>15 DEF Waiting
  <2> QED BY <1>0, <1>3, <1>4, <2>1, QueueRemoves
<1>17. OccupancyConserved'
  <2>0. got \in [Requests -> [slots : Nat, space : Nat]]
    BY <1>0 DEF Types
  <2>1. /\ SlotsHeld' = SlotsHeld + got'[r].slots - got[r].slots
        /\ SpaceHeld' = SpaceHeld + got'[r].space - got[r].space
    BY <1>3, <1>10, <1>15, <2>0, HeldChange, ZenonT(60) DEF SlotsHeld, SpaceHeld
  <2>2. inUse.slots = SlotsHeld /\ inUse.space = SpaceHeld
    BY <1>0, Conserved
  <2>3. /\ Granted(r).slots \in Nat /\ Granted(r).space \in Nat
        /\ got'[r] = Granted(r) /\ got[r].slots = 0 /\ got[r].space = 0
    BY <1>7, <1>8, <1>15 DEF NoOccupancy
  <2>4. /\ SlotsHeld' = inUse.slots + Granted(r).slots - 0
        /\ SpaceHeld' = inUse.space + Granted(r).space - 0
    BY <2>1, <2>2, <2>3
  <2>5. inUse'.slots = inUse.slots + Granted(r).slots /\ inUse'.space = inUse.space + Granted(r).space
    BY <1>4
  <2>6. /\ inUse.slots + Granted(r).slots - 0 = inUse.slots + Granted(r).slots
        /\ inUse.space + Granted(r).space - 0 = inUse.space + Granted(r).space
        /\ 0 <= inUse.slots + Granted(r).slots /\ 0 <= inUse.space + Granted(r).space
    BY <1>9, <2>3, SMTT(30)
  <2> QED BY <1>8, <2>4, <2>5, <2>6, ConservedNext
<1>18. PermitsOK'
  <2> SUFFICES ASSUME NEW q \in Requests  PROVE PermitOK(q)' /\ BorrowOK(q)'
    BY DEF PermitsOK
  <2>0. PermitOK(q) /\ BorrowOK(q)
    BY <1>0 DEF PermitsOK
  <2>1. \A d \in Requests : Holding(d) => Holding(d)'
    BY <1>15 DEF Holding
  <2>2. lender[q] # None => phase'[lender[q]] = "held"
    BY <1>0, <2>0, <2>1 DEF BorrowOK, Holding, Types
  <2>3. BorrowOK(q)'
    BY <1>3, <1>4, <1>15, <2>0, <2>2 DEF BorrowOK, Holding, Waiting
  <2>4. q \in released => \E d \in Requests : lender[d] = q /\ Holding(d)'
    BY <2>0, <2>1 DEF PermitOK
  <2>5. CASE q = r
    BY <1>4, <1>6, <1>7, <1>8, <1>15, <2>0, <2>3, <2>4, <2>5 DEF PermitOK, Holding, Stepping
  <2>6. CASE q # r
    BY <1>4, <1>15, <2>0, <2>3, <2>4, <2>6 DEF PermitOK, Holding, Stepping
  <2> QED BY <2>5, <2>6
<1>19. WaitsOK'
  BY <1>0, <1>4, <1>15 DEF WaitsOK, WaitOK, Waiting
<1>20. TurnsOK'
  <2> SUFFICES ASSUME NEW q \in Requests  PROVE TurnOK(q)'
    BY DEF TurnsOK
  <2>1. CASE q # r /\ First(q) /\ Fits(q)
    <3>1. passed'[q] = Least(passed[q] + 1, Len(Schedule))
      BY <1>4, <2>1 DEF Passed
    <3>2. PICK d \in 0 .. Len(Schedule) - 1 : At(d) = Class[q] /\ passed[q] + d < Len(Schedule)
      BY <1>0 DEF TurnsOK, TurnOK
    <3>3. Eligible(d)
      <4>1. queue[Class[q]] \in Seq(Requests)
        BY <1>0, Constants DEF QueueOK
      <4>2. Waiting(q) /\ Head(queue[Class[q]]) = q
        BY <2>1 DEF First
      <4>3. \E i \in 1 .. Len(queue[Class[q]]) : queue[Class[q]][i] = q
        BY <1>0, <4>2 DEF QueueOK
      <4>4. queue[Class[q]] # << >>
        BY <4>1, <4>3
      <4> QED BY <2>1, <3>2, <4>2, <4>4 DEF Eligible
    <3>4. d # k
      BY <1>1, <1>3, <2>1, <3>2 DEF First
    <3>5. ~ (d < k)
      BY <1>2, <3>3, Constants
    <3>6. k \in 0 .. d - 1
      BY <3>4, <3>5, Constants
    <3>7. /\ d - k - 1 \in 0 .. Len(Schedule) - 1
          /\ Place(cursor', d - k - 1) = Place(cursor, d)
      BY <1>0, <1>4, <3>6, Nearer DEF CursorAfter, Types
    <3>8. Schedule[Place(cursor', d - k - 1)] = Class[q]
      BY <3>2, <3>7 DEF At, Place
    <3>9. Least(passed[q] + 1, Len(Schedule)) + (d - k - 1) < Len(Schedule)
      <4>1. passed[q] \in Nat
        BY <1>0, Constants DEF Types
      <4> QED BY <3>2, <3>6, <4>1, Constants DEF Least
    <3> QED BY <3>1, <3>7, <3>8, <3>9 DEF TurnOK, At, Place
  <2>2. CASE ~ (q # r /\ First(q) /\ Fits(q))
    <3>1. passed'[q] = 0
      BY <1>4, <2>2 DEF Passed
    <3>2. PICK d \in 0 .. Len(Schedule) - 1 : Schedule[Place(cursor', d)] = Class[q]
      BY <1>12, Constants, EveryClassHasAPlace
    <3>3. 0 + d < Len(Schedule)
      BY Constants
    <3> QED BY <3>1, <3>2, <3>3 DEF TurnOK, At, Place
  <2> QED BY <2>1, <2>2
<1>21. QuantaBacked'
  <2>1. \A q \in Requests : q # r => Open(q)' = Open(q)
    BY <1>4, <1>15 DEF Open, Unused, Stepping
  <2>2. Outstanding' = Outstanding + Open(r)' - Open(r)
    BY <1>0, <1>3, <1>14, <1>18, <2>1, OutstandingChange
  <2>3. Unused(r) = 0 /\ Unused(r)' = 0
    BY <1>4, <1>7 DEF Unused, Stepping
  <2>4. Open(r) = 0 + 0 /\ Open(r)' = n + 0
    BY <1>7, <1>15, <2>3 DEF Open
  <2>5. Outstanding \in Nat /\ quanta \in Nat /\ elapsed \in Nat /\ credit \in Nat
    BY <1>0, Accounts
  <2>6. quanta + elapsed + Outstanding <= credit
    BY <1>0, Backed
  <2>7. (quanta - n) + elapsed + (Outstanding + (n + 0) - (0 + 0)) <= credit
    BY <1>5, <2>5, <2>6, Constants, SMTT(30)
  <2> QED BY <1>4, <2>2, <2>4, <2>7, BackedNext
<1> QED BY <1>14, <1>16, <1>17, <1>18, <1>19, <1>20, <1>21 DEF IInv

\* The sums over what a release returns.
LEMMA ReturnSums ==
    ASSUME NEW f \in [Requests -> Nat], NEW r \in Requests, NEW p \in Requests
    PROVE  /\ Total(f, {r, p}) = IF p = r THEN f[r] ELSE f[r] + f[p]
           /\ Total(f, {r, p} \ {r}) = IF p = r THEN 0 ELSE f[p]
<1>1. f[r] \in Int /\ f[p] \in Int
  OBVIOUS
<1>2. CASE p = r
  <2>1. {r, p} = {r} /\ {r, p} \ {r} = {}
    BY <1>2
  <2> QED BY <1>1, <1>2, <2>1, TotalOne
<1>3. CASE p # r
  <2>1. {r, p} \ {r} = {p}
    BY <1>3
  <2>2. Total(f, {r, p}) = f[r] + f[p]
    BY <1>1, <1>3, TotalTwo
  <2>3. Total(f, {p}) = f[p]
    BY <1>1, TotalOne
  <2> QED BY <1>3, <2>1, <2>2, <2>3
<1> QED BY <1>2, <1>3

\* What the permits may still spend, when two of them change.
LEMMA OutstandingChangeTwo ==
    ASSUME Types, PermitsOK, Types', PermitsOK', NEW e \in Requests, NEW d \in Requests \ {e},
           \A r \in Requests : r # e /\ r # d => Open(r)' = Open(r)
    PROVE  Outstanding' = Outstanding + Open(e)' - Open(e) + Open(d)' - Open(d)
<1> DEFINE f == [r \in Requests |-> Open(r)]
           h == [r \in Requests |-> Open(r)']
<1>1. f \in [Requests -> Int] /\ Outstanding = Total(f, Requests)
  BY OpenType DEF Outstanding, OpenNat
<1>2. \A r \in Requests : Open(r)' \in Nat
  BY OpenTypeNext DEF OpenNat
<1>3. h \in [Requests -> Int] /\ Outstanding' = Total(h, Requests)
  BY <1>2 DEF Outstanding
<1>4. \A r \in Requests \ {e, d} : h[r] = f[r]
  OBVIOUS
<1>5. f[e] = Open(e) /\ h[e] = Open(e)' /\ f[d] = Open(d) /\ h[d] = Open(d)'
  OBVIOUS
<1> HIDE DEF f, h
<1>6. Total(h, Requests) = Total(f, Requests) + h[e] - f[e] + h[d] - f[d]
  <2>1. f \in [Requests -> Int] /\ h \in [Requests -> Int]
    BY <1>1, <1>3
  <2> QED BY <1>4, <2>1, TotalChangeTwo
<1> QED BY <1>1, <1>3, <1>5, <1>6

\* A permit that is released is returned with p, its lender if that is over, or p is r
\* itself; nobody else has borrowed from either.
Partner(r, p) ==
    /\ Returned(r) = {r, p} /\ Holding(p)
    /\ \A q \in Requests : q # r => lender[q] # p /\ lender[q] # r
    /\ p = r => lender[r] \notin released
    /\ p # r => lender[r] = p /\ lender[p] = None /\ ~ Stepping(p)

\* There is such a p.
LEMMA HasPartner ==
    ASSUME Types, PermitsOK, NEW r \in Requests, Holding(r), ~ Lent(r)
    PROVE  \E p \in Requests : Partner(r, p)
<1>1. CASE lender[r] \in released
  <2> DEFINE p == lender[r]
  <2>1. p \in Requests /\ p # None
    BY <1>1, CapacityAssumption DEF Types
  <2>2. /\ PermitOK(p) /\ BorrowOK(p) /\ BorrowOK(r)
    BY <2>1 DEF PermitsOK
  <2>3. /\ p \in Lenders /\ Holding(p) /\ Atomic[r].slots = 0
        /\ \A q \in Requests : lender[q] = p => q = r
    BY <2>1, <2>2 DEF BorrowOK
  <2>4. Atomic[p].slots # 0
    BY <2>1, <2>3, Constants, CapacityAssumption
  <2>5. p # r
    BY <2>3, <2>4
  <2>6. lender[p] = None
    BY <2>1, <2>2, <2>4 DEF BorrowOK
  <2>7. ~ Stepping(p)
    BY <1>1, <2>2 DEF PermitOK
  <2>8. Returned(r) = {r, p}
    BY <1>1 DEF Returned
  <2>9. \A q \in Requests : lender[q] # r
    BY DEF Lent
  <2> HIDE DEF p
  <2>10. p = lender[r]
    BY DEF p
  <2> QED BY <2>1, <2>3, <2>5, <2>6, <2>7, <2>8, <2>9, <2>10 DEF Partner
<1>2. CASE lender[r] \notin released
  <2>1. Returned(r) = {r, r}
    BY <1>2 DEF Returned
  <2> QED BY <1>2, <2>1 DEF Partner, Lent
<1> QED BY <1>1, <1>2

\* A release: the reservations go back, and with them a lender's that is over.
LEMMA ReturnStep ==
    ASSUME IInv, NEW r \in Requests, NEW rest \in Nat, ~ draining, Holding(r), ~ Lent(r),
           rest <= Open(r), Return(r, rest)
    PROVE  IInv'
<1>0. Types /\ QueueOK /\ OccupancyConserved /\ QuantaBacked /\ PermitsOK /\ WaitsOK /\ TurnsOK
  BY DEF IInv
<1>1. PICK p \in Requests : Partner(r, p)
  BY <1>0, HasPartner
<1>2. /\ Holding(p) /\ (p # r => lender[r] = p /\ lender[p] = None /\ ~ Stepping(p))
      /\ (p = r => lender[r] \notin released)
      /\ \A q \in Requests : q # r => lender[q] # p /\ lender[q] # r
  BY <1>1 DEF Partner
<1> DEFINE slots == [q \in Requests |-> got[q].slots]
           space == [q \in Requests |-> got[q].space]
<1>3. /\ released' = released \ {r, p} /\ violated' = violated \ {r, p}
      /\ phase' = [q \in Requests |-> IF q \in {r, p} THEN "free" ELSE phase[q]]
      /\ got' = [q \in Requests |-> IF q \in {r, p} THEN NoOccupancy ELSE got[q]]
      /\ inUse' = [slots |-> inUse.slots - Total(slots, {r, p}), space |-> inUse.space - Total(space, {r, p})]
      /\ remaining' = [q \in Requests |-> IF q \in {r, p} THEN 0 ELSE remaining[q]]
      /\ bound' = [bound EXCEPT ![r] = NoStep] /\ used' = [used EXCEPT ![r] = 0]
      /\ lender' = [lender EXCEPT ![r] = None]
      /\ Refill(rest + Total(remaining, {r, p} \ {r}))
      /\ draining' = TRUE /\ asking' = None
      /\ UNCHANGED <<queue, cursor, timer, passed>>
  BY <1>1 DEF Return, Partner
<1> HIDE DEF slots, space
<1>4. /\ \A q \in {r, p} : phase'[q] = "free" /\ got'[q] = NoOccupancy /\ remaining'[q] = 0
      /\ \A q \in Requests : q # r /\ q # p =>
             phase'[q] = phase[q] /\ got'[q] = got[q] /\ remaining'[q] = remaining[q]
  BY <1>3
<1>5. /\ bound'[r] = NoStep /\ used'[r] = 0 /\ lender'[r] = None
      /\ \A q \in Requests : q # r => bound'[q] = bound[q] /\ used'[q] = used[q] /\ lender'[q] = lender[q]
  BY <1>0, <1>3 DEF Types
<1>6. PICK other \in Nat : other = Total(remaining, {r, p} \ {r}) /\ other = IF p = r THEN 0 ELSE remaining[p]
  <2>1. remaining \in [Requests -> Nat]
    BY <1>0, Constants DEF Types
  <2> QED BY <2>1, ReturnSums
<1>7. /\ phase' \in [Requests -> {"free", "waiting", "held"}]
      /\ got' \in [Requests -> [slots : Nat, space : Nat]]
      /\ remaining' \in [Requests -> 0 .. Quanta]
  <2>1. NoOccupancy \in [slots : Nat, space : Nat] /\ 0 \in 0 .. Quanta
    BY Constants DEF NoOccupancy
  <2> QED BY <1>0, <1>3, <2>1 DEF Types
<1>8. /\ bound' \in [Requests -> 0 .. Quanta \cup {NoStep}] /\ used' \in [Requests -> 0 .. Quanta]
      /\ lender' \in [Requests -> Requests \cup {None}]
  BY <1>0, <1>3, Constants, SMTT(30) DEF Types
<1>9. quanta' \in 0 .. Quanta /\ elapsed' = 0 /\ UNCHANGED <<pressure, credit>>
  <2>1. rest + other \in Nat
    OBVIOUS
  <2> QED BY <1>0, <1>3, <1>6, <2>1, RefillEffect
<1>10. /\ inUse' \in [slots : Nat, space : Nat]
       /\ OccupancyConserved'
  <2>0. got \in [Requests -> [slots : Nat, space : Nat]]
    BY <1>0 DEF Types
  <2>1. slots \in [Requests -> Nat] /\ space \in [Requests -> Nat]
    BY <2>0 DEF slots, space
  <2>2. slots[r] = got[r].slots /\ slots[p] = got[p].slots /\ space[r] = got[r].space /\ space[p] = got[p].space
    BY DEF slots, space
  <2>3. /\ inUse'.slots = inUse.slots - Total(slots, {r, p})
        /\ inUse'.space = inUse.space - Total(space, {r, p})
        /\ inUse' = [slots |-> inUse.slots - Total(slots, {r, p}), space |-> inUse.space - Total(space, {r, p})]
    BY <1>3
  <2>4. inUse.slots \in Nat /\ inUse.space \in Nat
    BY <1>0 DEF Types
  <2>5. /\ inUse.slots = SlotsHeld /\ inUse.space = SpaceHeld
        /\ inUse.slots <= Slots /\ inUse.space <= Space
    BY <1>0, Conserved
  <2>6. /\ got'[r].slots = 0 /\ got'[r].space = 0 /\ got'[p].slots = 0 /\ got'[p].space = 0
    BY <1>4 DEF NoOccupancy
  <2>7. got[r].slots \in Nat /\ got[r].space \in Nat /\ got[p].slots \in Nat /\ got[p].space \in Nat
    BY <2>0
  <2>8. SlotsHeld' \in Nat /\ SpaceHeld' \in Nat
    BY <1>4, <1>7, <2>0, HeldChange DEF SlotsHeld, SpaceHeld
  <2>9. PICK a \in Nat : a = SlotsHeld'
    BY <2>8
  <2>10. PICK b \in Nat : b = SpaceHeld'
    BY <2>8
  <2>11. /\ a = inUse.slots - Total(slots, {r, p})
         /\ b = inUse.space - Total(space, {r, p})
         /\ a <= inUse.slots /\ b <= inUse.space
    <3>1. CASE p = r
      <4>1. /\ SlotsHeld' = SlotsHeld + got'[r].slots - got[r].slots
            /\ SpaceHeld' = SpaceHeld + got'[r].space - got[r].space
        BY <1>4, <1>7, <2>0, <3>1, HeldChange, ZenonT(60) DEF SlotsHeld, SpaceHeld
      <4>2. a = inUse.slots + 0 - got[r].slots /\ b = inUse.space + 0 - got[r].space
        BY <2>5, <2>6, <2>9, <2>10, <4>1
      <4>3. Total(slots, {r, p}) = got[r].slots /\ Total(space, {r, p}) = got[r].space
        BY <2>1, <2>2, <3>1, ReturnSums
      <4> QED BY <2>4, <2>7, <4>2, <4>3
    <3>2. CASE p # r
      <4>1. /\ SlotsHeld' = SlotsHeld + got'[r].slots - got[r].slots + got'[p].slots - got[p].slots
            /\ SpaceHeld' = SpaceHeld + got'[r].space - got[r].space + got'[p].space - got[p].space
        <5>1. \A q \in Requests : q # r /\ q # p => got'[q] = got[q]
          BY <1>4
        <5>2. got' \in [Requests -> [slots : Nat, space : Nat]]
          BY <1>7
        <5>3. PICK h \in [Requests -> [slots : Nat, space : Nat]] : h = got'
          BY <5>2
        <5>4. \A q \in Requests : q # r /\ q # p => h[q] = got[q]
          BY <5>1, <5>3
        <5>5. /\ Total([q \in Requests |-> h[q].slots], Requests) =
                    SlotsHeld + h[r].slots - got[r].slots + h[p].slots - got[p].slots
              /\ Total([q \in Requests |-> h[q].space], Requests) =
                    SpaceHeld + h[r].space - got[r].space + h[p].space - got[p].space
          BY <2>0, <3>2, <5>4, HeldChange DEF SlotsHeld, SpaceHeld
        <5> QED BY <5>3, <5>5 DEF SlotsHeld, SpaceHeld
      <4>2. /\ a = inUse.slots + 0 - got[r].slots + 0 - got[p].slots
            /\ b = inUse.space + 0 - got[r].space + 0 - got[p].space
        BY <2>5, <2>6, <2>9, <2>10, <4>1
      <4>3. /\ Total(slots, {r, p}) = got[r].slots + got[p].slots
            /\ Total(space, {r, p}) = got[r].space + got[p].space
        <5>1. Total(slots, {r, p}) = slots[r] + slots[p]
          BY <2>1, <3>2, ReturnSums
        <5>2. Total(space, {r, p}) = space[r] + space[p]
          BY <2>1, <3>2, ReturnSums
        <5> QED BY <2>2, <5>1, <5>2
      <4> QED BY <2>4, <2>7, <4>2, <4>3
    <3> QED BY <3>1, <3>2
  <2>12. inUse' = [slots |-> a, space |-> b]
    BY <2>3, <2>11
  <2>13. a <= Slots /\ b <= Space /\ 0 <= a /\ 0 <= b
    BY <2>4, <2>5, <2>11, Constants
  <2>14. inUse'.slots = a /\ inUse'.space = b
    BY <2>12
  <2> QED BY <2>9, <2>10, <2>12, <2>13, <2>14, ConservedNext
<1>11. Types'
  BY <1>0, <1>3, <1>7, <1>8, <1>9, <1>10 DEF Types
<1>12. \A q \in Requests : Waiting(q)' <=> Waiting(q)
  BY <1>2, <1>4 DEF Waiting, Holding
<1>13. QueueOK'
  <2>1. queue' = queue
    BY <1>3
  <2>2. \A q \in Requests : Waiting(q)' <=> \E i \in 1 .. Len(queue[Class[q]]) : queue[Class[q]][i] = q
    BY <1>0, <1>12 DEF QueueOK
  <2>3. /\ queue \in [Classes -> Seq(Requests)]
        /\ \A c \in Classes : \A i, j \in 1 .. Len(queue[c]) : queue[c][i] = queue[c][j] => i = j
        /\ \A c \in Classes : \A i \in 1 .. Len(queue[c]) : Class[queue[c][i]] = c
    BY <1>0 DEF QueueOK
  <2> QED BY <2>1, <2>2, <2>3 DEF QueueOK
<1>14. PermitsOK'
  <2> SUFFICES ASSUME NEW q \in Requests  PROVE PermitOK(q)' /\ BorrowOK(q)'
    BY DEF PermitsOK
  <2>0. PermitOK(q) /\ BorrowOK(q)
    BY <1>0 DEF PermitsOK
  <2>1. CASE q \in {r, p}
    <3>1. lender'[q] = None
      BY <1>2, <1>5, <2>1
    <3>2. bound'[q] = NoStep
      BY <1>2, <1>5, <2>1 DEF Stepping
    <3>3. phase'[q] = "free" /\ got'[q] = NoOccupancy /\ remaining'[q] = 0 /\ q \notin released'
      BY <1>3, <1>4, <2>1
    <3> QED BY <3>1, <3>2, <3>3 DEF PermitOK, BorrowOK, Holding, Stepping
  <2>2. CASE q \notin {r, p}
    <3>1. /\ phase'[q] = phase[q] /\ got'[q] = got[q] /\ remaining'[q] = remaining[q]
          /\ bound'[q] = bound[q] /\ used'[q] = used[q] /\ lender'[q] = lender[q]
          /\ q \in released' <=> q \in released
      BY <1>3, <1>4, <1>5, <2>2
    <3>2. ASSUME q \in released  PROVE \E d \in Requests : lender'[d] = q /\ phase'[d] = "held"
      <4>1. PICK d \in Requests : lender[d] = q /\ Holding(d)
        BY <2>0, <3>2 DEF PermitOK
      <4>2. d # r
        BY <1>2, <2>2, <3>2, <4>1
      <4>3. d # p
        BY <1>2, <4>1, <4>2, CapacityAssumption
      <4> QED BY <1>4, <1>5, <4>1, <4>2, <4>3 DEF Holding
    <3>3. PermitOK(q)'
      BY <2>0, <3>1, <3>2 DEF PermitOK, Holding, Stepping
    <3>4. ASSUME lender[q] # None  PROVE phase'[lender[q]] = "held"
      <4>1. lender[q] \in Requests /\ phase[lender[q]] = "held"
        BY <1>0, <2>0, <3>4 DEF BorrowOK, Types, Holding
      <4>2. lender[q] # r /\ lender[q] # p
        BY <1>2, <2>2
      <4> QED BY <1>4, <4>1, <4>2
    <3>5. ASSUME lender[q] # None, NEW d \in Requests, lender'[d] = lender[q]  PROVE d = q
      <4>1. lender'[d] = lender[d]
        BY <1>5, <3>5
      <4> QED BY <2>0, <3>5, <4>1 DEF BorrowOK
    <3>6. BorrowOK(q)'
      BY <2>0, <3>1, <3>4, <3>5 DEF BorrowOK, Holding
    <3> QED BY <3>3, <3>6
  <2> QED BY <2>1, <2>2
<1>15. WaitsOK'
  BY <1>0, <1>12, WaitsKept
<1>16. TurnsOK'
  BY <1>0, <1>3, <1>11, TurnsKept
<1>17. QuantaBacked'
  <2>1. \A q \in Requests : q # r /\ q # p => Open(q)' = Open(q)
    BY <1>3, <1>4, <1>5 DEF Open, Unused, Stepping
  <2>2. bound'[r] = NoStep /\ bound'[p] = NoStep
    BY <1>2, <1>5 DEF Stepping
  <2>3. Unused(r)' = 0 /\ Unused(p)' = 0
    BY <2>2 DEF Unused, Stepping
  <2>4. Open(r)' = 0 + 0 /\ Open(p)' = 0 + 0
    BY <1>4, <2>3 DEF Open
  <2>5. Open(r) \in Nat /\ Open(p) \in Nat /\ Outstanding \in Nat /\ remaining[p] \in Nat
    BY <1>0, OpenType DEF OpenNat
  <2>6. Outstanding' + (rest + other) <= Outstanding
    <3>0. PICK m \in Nat : m = Outstanding'
      BY <1>11, <1>14, OpenTypeNext DEF OpenNat
    <3>1. CASE p = r
      <4>1. Outstanding' = Outstanding + Open(r)' - Open(r)
        BY <1>0, <1>11, <1>14, <2>1, <3>1, OutstandingChange
      <4>2. m = Outstanding + (0 + 0) - Open(r) /\ other = 0
        BY <1>6, <2>4, <3>0, <3>1, <4>1
      <4>3. m + (rest + other) <= Outstanding
        BY <2>5, <4>2
      <4> QED BY <3>0, <4>3
    <3>2. CASE p # r
      <4>1. Outstanding' = Outstanding + Open(r)' - Open(r) + Open(p)' - Open(p)
        BY <1>0, <1>11, <1>14, <2>1, <3>2, OutstandingChangeTwo
      <4>2. Open(p) = remaining[p] + 0
        BY <1>2, <3>2 DEF Open, Unused
      <4>3. m = Outstanding + (0 + 0) - Open(r) + (0 + 0) - Open(p) /\ other = remaining[p]
        BY <1>6, <2>4, <3>0, <3>2, <4>1
      <4>4. m + (rest + other) <= Outstanding
        BY <2>5, <4>2, <4>3
      <4> QED BY <3>0, <4>4
    <3> QED BY <3>1, <3>2
  <2>7. rest + other \in Nat
    OBVIOUS
  <2>8. Refill(rest + other)
    BY <1>3, <1>6
  <2> QED BY <1>0, <1>11, <1>14, <2>6, <2>7, <2>8, RefillBacked
<1> QED BY <1>10, <1>11, <1>13, <1>14, <1>15, <1>16, <1>17 DEF IInv

-----------------------------------------------------------------------------
(* The invariant, and what follows from it. *)

\* At first nothing is in use, and the bucket is full.
LEMMA IInvInit == Init => IInv
<1> SUFFICES ASSUME Init  PROVE IInv
  OBVIOUS
<1>1. Types
  <2>1. quanta \in 0 .. Quanta /\ credit \in Nat /\ elapsed \in Nat /\ cursor \in 0 .. Len(Schedule) - 1
    BY Constants DEF Init
  <2>2. 0 \in 0 .. Quanta /\ 0 \in 0 .. Len(Schedule)
    BY Constants
  <2>3. /\ inUse \in [slots : Nat, space : Nat]
        /\ got \in [Requests -> [slots : Nat, space : Nat]]
    BY DEF Init, NoOccupancy
  <2> QED BY <2>1, <2>2, <2>3 DEF Types, Init
<1>2. QueueOK
  <2>1. \A c \in Classes : queue[c] = << >> /\ Len(queue[c]) = 0
    BY DEF Init
  <2>2. queue \in [Classes -> Seq(Requests)]
    BY DEF Init
  <2>3. \A r \in Requests : ~ Waiting(r) /\ Class[r] \in Classes
    BY Constants DEF Init, Waiting
  <2> QED BY <2>1, <2>2, <2>3 DEF QueueOK
<1>3. OccupancyConserved
  <2>1. \A r \in Requests : got[r].slots = 0 /\ got[r].space = 0
    BY DEF Init, NoOccupancy
  <2>2. \A r \in Requests : [q \in Requests |-> got[q].slots][r] = 0
    BY <2>1
  <2>3. \A r \in Requests : [q \in Requests |-> got[q].space][r] = 0
    BY <2>1
  <2>4. SlotsHeld = 0
    BY <2>2, Finite, TotalZero DEF SlotsHeld
  <2>5. SpaceHeld = 0
    BY <2>3, Finite, TotalZero DEF SpaceHeld
  <2>6. inUse.slots = 0 /\ inUse.space = 0
    BY DEF Init, NoOccupancy
  <2> QED BY <2>4, <2>5, <2>6, Conserved, Constants
<1>4. PermitsOK
  BY CapacityAssumption DEF Init, PermitsOK, PermitOK, BorrowOK, Holding, Stepping
<1>5. WaitsOK
  BY DEF Init, WaitsOK, WaitOK, Waiting
<1>6. TurnsOK
  <2> SUFFICES ASSUME NEW r \in Requests  PROVE TurnOK(r)
    BY DEF TurnsOK
  <2>1. cursor \in 0 .. Len(Schedule) - 1 /\ passed[r] = 0
    BY Constants DEF Init
  <2>2. PICK d \in 0 .. Len(Schedule) - 1 : Schedule[Place(cursor, d)] = Class[r]
    <3>1. Class[r] \in Classes
      BY Constants
    <3> QED BY <2>1, <3>1, EveryClassHasAPlace, ZenonT(60)
  <2>3. 0 + d < Len(Schedule)
    BY Constants
  <2> QED BY <2>1, <2>2, <2>3 DEF TurnOK, At, Place
<1>7. QuantaBacked
  <2>1. \A r \in Requests : Open(r) = 0 + 0
    BY DEF Init, Open, Unused, Stepping
  <2>2. \A r \in Requests : [q \in Requests |-> Open(q)][r] = 0
    BY <2>1
  <2>3. Outstanding = 0
    BY <2>2, Finite, TotalZero DEF Outstanding
  <2>4. quanta = Quanta /\ elapsed = 0 /\ credit = Quanta
    BY DEF Init
  <2>5. Quanta + 0 + 0 <= Quanta
    BY Constants
  <2> QED BY <2>3, <2>4, <2>5, Backed
<1> QED BY <1>1, <1>2, <1>3, <1>4, <1>5, <1>6, <1>7 DEF IInv

\* A permit that is let go, by its holder or at the end of a workload.
LEMMA ReleaseStep ==
    ASSUME IInv, NEW r \in Requests, ReleasePermit(r) \/ EndWorkload(r)
    PROVE  IInv'
<1>0. Types /\ PermitsOK /\ PermitOK(r)
  BY DEF IInv, PermitsOK
<1>1. Unused(r) \in Nat /\ Open(r) \in Nat /\ remaining[r] \in Nat
  BY <1>0, OpenType DEF OpenNat
<1>2. CASE ReleasePermit(r)
  <2>1. ~ draining /\ r \notin Lenders /\ Holding(r) /\ Return(r, remaining[r])
    BY <1>2 DEF ReleasePermit
  <2>2. ~ Lent(r)
    BY <1>0, <2>1, CapacityAssumption DEF Lent, PermitsOK, BorrowOK
  <2>3. remaining[r] <= Open(r)
    BY <1>1 DEF Open
  <2> QED BY <1>1, <2>1, <2>2, <2>3, ReturnStep
<1>3. CASE EndWorkload(r)
  <2>1. ~ draining /\ Stepping(r) /\ ~ Lent(r) /\ Return(r, Open(r))
    BY <1>3 DEF EndWorkload, Open
  <2>2. Holding(r)
    BY <1>0, <2>1 DEF PermitOK
  <2>3. Open(r) <= Open(r)
    BY <1>1
  <2> QED BY <1>1, <2>1, <2>2, <2>3, ReturnStep
<1> QED BY <1>2, <1>3

\* Every step preserves the invariant.
LEMMA IInvStep == IInv /\ [Next]_vars => IInv'
<1> SUFFICES ASSUME IInv, [Next]_vars  PROVE IInv'
  OBVIOUS
<1>1. CASE DrainEnds
  BY <1>1, DrainEndsStep
<1>2. ASSUME NEW k \in 0 .. Len(Schedule) - 1, Grant(k)  PROVE IInv'
  BY <1>2, GrantStep
<1>3. ASSUME NEW r \in Requests, Ask(r)  PROVE IInv'
  BY <1>3, AcquireStep, RefillStep, SettleStep DEF Ask
<1>4. ASSUME NEW r \in Requests, Hold(r)  PROVE IInv'
  BY <1>4, TryBeginStep, ClaimStep, CompleteStep, ReleaseStep DEF Hold
<1>5. CASE Tick \/ PressureChanges
  BY <1>5, DeviceStep
<1>6. CASE TimerFires \/ Snapshot
  BY <1>6, RefillStep
<1>7. CASE UNCHANGED vars
  <2>1. UNCHANGED <<pressure, elapsed, credit, quanta, inUse, queue, cursor, timer, draining, asking,
                    phase, got, remaining, bound, used, released, violated, lender, passed>>
    BY <1>7 DEF vars, device, arbiter, permits, step
  <2>2. Types /\ QueueOK /\ OccupancyConserved /\ QuantaBacked /\ PermitsOK /\ WaitsOK /\ TurnsOK
    BY DEF IInv
  <2>3. Types'
    BY <2>1, <2>2 DEF Types
  <2>4. QueueOK' /\ OccupancyConserved' /\ PermitsOK'
    BY <2>1, <2>2, QueueKept, OccupancyKept, PermitsKept
  <2>5. WaitsOK'
    BY <2>1, <2>2 DEF WaitsOK, WaitOK, Waiting
  <2>6. TurnsOK'
    BY <2>1, <2>2, <2>3, TurnsKept
  <2>7. QuantaBacked'
    <3>1. Outstanding' = Outstanding
      BY <2>1, OutstandingKept DEF Open, Unused, Stepping
    <3> QED BY <2>1, <2>2, <3>1, Backed, BackedNext
  <2> QED BY <2>2, <2>3, <2>4, <2>5, <2>6, <2>7 DEF IInv
<1> QED BY <1>1, <1>2, <1>3, <1>4, <1>5, <1>6, <1>7 DEF Next, Sync

\* So it always holds.
LEMMA IInvAlways == Spec => []IInv
BY IInvInit, IInvStep, PTL DEF Spec

\* The quantities stay in range, and the queues hold the waiting requests, each once and
\* in the queue of its class.
THEOREM CapacityTypes == Spec => []TypeOK
<1>1. IInv => TypeOK
  BY TypeSplit DEF IInv
<1> QED BY <1>1, IInvAlways, PTL

\* What the arbiter counts as in use is what the permits hold and never more than the
\* policy, whatever the requests lend, lose, release and return: for any callers and any
\* budgets.
THEOREM CapacityConserved == Spec => []OccupancyConserved
<1>1. IInv => OccupancyConserved
  BY DEF IInv
<1> QED BY <1>1, IInvAlways, PTL

\* Whoever holds a permit has a slot, its own or one that a reservation still in place
\* lends to nobody else.
THEOREM WorkersHaveSlots == Spec => []WorkHasSlot
<1>1. IInv => WorkHasSlot
  <2> SUFFICES ASSUME IInv, NEW r \in Requests, Holding(r)
               PROVE  \/ got[r].slots >= 1
                      \/ /\ lender[r] \in Requests /\ got[lender[r]].slots >= 1
                         /\ \A q \in Requests : lender[q] = lender[r] => q = r
    BY DEF WorkHasSlot
  <2>1. Types /\ PermitOK(r) /\ BorrowOK(r)
    BY DEF IInv, PermitsOK
  <2>2. got[r].slots \in Nat /\ Atomic[r].slots \in Nat /\ got[r].slots >= Atomic[r].slots
    BY <2>1, Constants DEF Types, PermitOK
  <2>3. CASE Atomic[r].slots # 0
    BY <2>2, <2>3
  <2>4. CASE Atomic[r].slots = 0
    <3>1. lender[r] # None
      BY <2>1, <2>4 DEF BorrowOK, Holding
    <3>2. /\ lender[r] \in Requests /\ lender[r] \in Lenders /\ Holding(lender[r])
          /\ \A q \in Requests : lender[q] = lender[r] => q = r
      BY <2>1, <3>1 DEF BorrowOK, Types
    <3>3. PermitOK(lender[r])
      BY <3>2 DEF IInv, PermitsOK
    <3>4. /\ got[lender[r]].slots \in Nat /\ got[lender[r]].slots >= Atomic[lender[r]].slots
          /\ Atomic[lender[r]].slots > 0 /\ Atomic[lender[r]].slots \in Nat
      BY <2>1, <3>2, <3>3, Constants, CapacityAssumption DEF Types, PermitOK
    <3> QED BY <3>2, <3>4
  <2> QED BY <2>3, <2>4
<1> QED BY <1>1, IInvAlways, PTL

\* I/O is paid for: no order of steps, overruns, releases and returns lets the permits and
\* the bucket spend more than the bucket held at first and time has brought since.
THEOREM IoIsPaidFor == Spec => []QuantaBacked
<1>1. IInv => QuantaBacked
  BY DEF IInv
<1> QED BY <1>1, IInvAlways, PTL

\* A head of a queue that fits is passed fewer times than the round robin has places, for
\* any weights.
THEOREM OvertakingBounded == Spec => []BoundedOvertaking
<1>1. IInv => BoundedOvertaking
  <2> SUFFICES ASSUME IInv, NEW r \in Requests  PROVE passed[r] < Len(Schedule)
    BY DEF BoundedOvertaking
  <2>1. PICK d \in 0 .. Len(Schedule) - 1 : passed[r] + d < Len(Schedule)
    BY DEF IInv, TurnsOK, TurnOK
  <2>2. passed[r] \in 0 .. Len(Schedule)
    BY DEF IInv, Types
  <2> QED BY <2>1, <2>2, Constants
<1> QED BY <1>1, IInvAlways, PTL
================================================================================
