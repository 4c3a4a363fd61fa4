------------------------ MODULE RestSchedulerProofs ------------------------
(***************************************************************************)
(* Proofs about the REST scheduler, for any jobs, budgets, dispatchers and *)
(* bounds.  The selection loop is a fold over the due entries: by induction*)
(* over the entries already considered, either each budget of each of them *)
(* is blocked by an entry as urgent that it cannot pay yet, or one entry   *)
(* is sent on a budget that no more urgent one may use (Found).            *)
(*                                                                         *)
(* NoMissedWake is not inductive: it speaks of the present only.  Asleep(t)*)
(* says that nothing can be dispatched before time t, from the state of the*)
(* buckets and not from the clock, so that it survives ticks, and refills, *)
(* charges and lower rates can only delay what it speaks of.               *)
(* WindowRespected speaks of past dispatches; Windows adds what a bucket   *)
(* may still spend.                                                        *)
(***************************************************************************)
EXTENDS RestScheduler, FiniteSets, FiniteSetsExt, FiniteSetTheorems, WellFoundedInduction, TLAPS

-----------------------------------------------------------------------------
(* Induction over finite sets, and what the folds of the community modules *)
(* compute.  An induction runs over a set of good values, since the provers *)
(* cannot instantiate a theorem whose parameter is a predicate.            *)

\* Every set of numbers that has one has a least one.
LEMMA LeastNumber ==
    ASSUME NEW T, T \subseteq Nat, T # {}
    PROVE  \E x \in T : \A y \in T : x <= y
<1> DEFINE R == {ss \in Nat \X Nat : ss[1] < ss[2]}
<1>1. IsWellFoundedOn(R, Nat)
  BY NatLessThanWellFounded DEF OpToRel
<1>2. PICK x \in T : \A y \in T : <<y, x>> \notin R
  <2> HIDE DEF R
  <2> QED
    BY <1>1, WFMin
<1>3. ASSUME NEW y \in T PROVE x <= y
  <2>1. x \in Nat /\ y \in Nat /\ <<y, x>> \notin R
    BY <1>2
  <2> QED
    BY <2>1
<1> QED
  BY <1>3

\* A set of sets that has every finite set whose smaller subsets it has.
LEMMA SubsetInduction ==
    ASSUME NEW S, IsFiniteSet(S), NEW G,
           \A s \in SUBSET S : (\A x \in s : s \ {x} \in G) => s \in G
    PROVE  SUBSET S \subseteq G
<1> DEFINE Bad == (SUBSET S) \ G
           Sizes == {Cardinality(s) : s \in Bad}
<1>0. \A s \in SUBSET S : IsFiniteSet(s) /\ Cardinality(s) \in Nat
  BY FS_Subset, FS_CardinalityType
<1>1. SUFFICES ASSUME Bad # {} PROVE FALSE
  BY <1>1
<1>2. Sizes \subseteq Nat /\ Sizes # {}
  BY <1>0, <1>1
<1>3. PICK n \in Sizes : \A y \in Sizes : n <= y
  <2> HIDE DEF Sizes
  <2> QED
    BY <1>2, LeastNumber
<1>4. PICK s \in Bad : n = Cardinality(s)
  OBVIOUS
<1>5. ASSUME NEW x \in s PROVE s \ {x} \in G
  <2>1. /\ s \in SUBSET S /\ s \ {x} \in SUBSET S /\ Cardinality(s) \in Nat
        /\ Cardinality(s \ {x}) = Cardinality(s) - 1
    BY <1>0, FS_RemoveElement
  <2>2. SUFFICES ASSUME s \ {x} \in Bad PROVE FALSE
    BY <2>1
  <2>3. Cardinality(s \ {x}) \in Sizes
    BY <2>2
  <2>4. n <= Cardinality(s \ {x}) /\ n \in Nat
    <3> HIDE DEF Sizes
    <3> QED
      BY <1>2, <1>3, <2>3
  <2> QED
    BY <1>4, <2>1, <2>4
<1> QED
  BY <1>4, <1>5
-----------------------------------------------------------------------------
(* A fold over a finite set: pick chooses the element that is taken last,   *)
(* step adds it to the fold of the others.                                 *)

FoldStep(base, pick, step, g, s) ==
    IF s = {} THEN base ELSE step[<<pick[s], g[s \ {pick[s]}]>>]
IsFold(base, pick, step, S, g) == g = [s \in SUBSET S |-> FoldStep(base, pick, step, g, s)]
Picks(pick, S) == \A s \in SUBSET S : s # {} => pick[s] \in s

\* The fold exists.
LEMMA FoldExists ==
    ASSUME NEW base, NEW pick, NEW step, NEW S, IsFiniteSet(S), Picks(pick, S)
    PROVE  \E g : IsFold(base, pick, step, S, g)
<1> DEFINE Small(n) == {s \in SUBSET S : Cardinality(s) <= n}
           Upto(n, g) == g = [s \in Small(n) |-> FoldStep(base, pick, step, g, s)]
           Bad == {n \in Nat : ~ \E g : Upto(n, g)}
<1>0. \A s \in SUBSET S : IsFiniteSet(s) /\ Cardinality(s) \in Nat
  BY FS_Subset, FS_CardinalityType
<1>1. Bad = {}
  <2>1. SUFFICES ASSUME Bad # {} PROVE FALSE
    BY <2>1
  <2>2. PICK n \in Bad : \A y \in Bad : n <= y
    <3>1. Bad \subseteq Nat
      OBVIOUS
    <3> HIDE DEF Bad
    <3> QED
      BY <2>1, <3>1, LeastNumber
  <2>3. n # 0
    <3>1. SUFFICES ASSUME n = 0 PROVE \E g : Upto(n, g)
      BY <3>1
    <3>2. ASSUME NEW s \in Small(n) PROVE s = {}
      BY <1>0, <3>1, FS_EmptySet
    <3> DEFINE e == [s \in Small(n) |-> base]
    <3>3. e = [s \in Small(n) |-> FoldStep(base, pick, step, e, s)]
      BY <3>2 DEF FoldStep
    <3> QED
      BY <3>3
  <2>4. n - 1 \in Nat /\ n - 1 \notin Bad
    <3>1. n \in Nat
      OBVIOUS
    <3> HIDE DEF Bad
    <3> QED
      BY <2>2, <2>3, <3>1
  <2>5. PICK g : Upto(n - 1, g)
    BY <2>4
  <2> DEFINE e == [s \in Small(n) |-> FoldStep(base, pick, step, g, s)]
  <2>6. ASSUME NEW s \in Small(n - 1) PROVE s \in Small(n) /\ e[s] = g[s]
    BY <1>0, <2>5
  <2>7. ASSUME NEW s \in Small(n) PROVE e[s] = FoldStep(base, pick, step, e, s)
    <3>1. CASE s = {}
      BY <3>1 DEF FoldStep
    <3>2. CASE s # {}
      <4>1. s \ {pick[s]} \in Small(n - 1)
        BY <1>0, <3>2, FS_RemoveElement DEF Picks
      <4>2. e[s \ {pick[s]}] = g[s \ {pick[s]}]
        BY <2>6, <4>1
      <4> QED
        BY <3>2, <4>2 DEF FoldStep
    <3> QED
      BY <3>1, <3>2
  <2>8. e = [s \in Small(n) |-> FoldStep(base, pick, step, e, s)]
    BY <2>7
  <2> QED
    BY <2>2, <2>8
<1>2. PICK g : Upto(Cardinality(S), g)
  BY <1>0, <1>1
<1>3. Small(Cardinality(S)) = SUBSET S
  BY <1>0, FS_Subset
<1> QED
  BY <1>2, <1>3 DEF IsFold

-----------------------------------------------------------------------------
(* Sums of the weights w of the elements of a finite set *)

SumOf(w, S) == MapThenSumSet(LAMBDA x : w[x], S)
Weighed(w, S) == \A x \in S : w[x] \in Int
Picked(s) == CHOOSE x \in s : TRUE
SumStep(w, g, s) == IF s = {} THEN 0 ELSE w[Picked(s)] + g[s \ {Picked(s)}]
IsSum(w, S, g) == g = [s \in SUBSET S |-> SumStep(w, g, s)]

LEMMA PickedFacts == \A s : s # {} => Picked(s) \in s
BY DEF Picked

\* There is one function that sums the subsets.
LEMMA SumExists ==
    ASSUME NEW w, NEW S, IsFiniteSet(S), Weighed(w, S)
    PROVE  \E g : IsSum(w, S, g)
<1> DEFINE pick == [s \in SUBSET S |-> Picked(s)]
           step == [p \in S \X Int |-> w[p[1]] + p[2]]
<1>1. Picks(pick, S)
  BY PickedFacts DEF Picks
<1>2. PICK g : IsFold(0, pick, step, S, g)
  <2> HIDE DEF pick, step
  <2> QED
    BY <1>1, FoldExists
<1> DEFINE H == {s \in SUBSET S : g[s] \in Int}
<1>3. ASSUME NEW s \in SUBSET S, \A x \in s : s \ {x} \in H PROVE s \in H
  <2>1. g[s] = FoldStep(0, pick, step, g, s)
    BY <1>2 DEF IsFold
  <2>2. s # {} => Picked(s) \in S /\ w[Picked(s)] \in Int /\ g[s \ {Picked(s)}] \in Int
    BY <1>3, PickedFacts DEF Weighed
  <2> QED
    BY <2>1, <2>2 DEF FoldStep
<1>4. SUBSET S \subseteq H
  <2> HIDE DEF H
  <2> QED
    BY <1>3, SubsetInduction
<1>5. ASSUME NEW s \in SUBSET S PROVE g[s] = SumStep(w, g, s)
  <2>1. g[s] = FoldStep(0, pick, step, g, s)
    BY <1>2 DEF IsFold
  <2>2. s # {} => Picked(s) \in S /\ g[s \ {Picked(s)}] \in Int
    BY <1>4, PickedFacts
  <2> QED
    BY <2>1, <2>2 DEF FoldStep, SumStep
<1>6. g = [s \in SUBSET S |-> g[s]]
  BY <1>2 DEF IsFold
<1> QED
  BY <1>5, <1>6 DEF IsSum

LEMMA SumsAgree ==
    ASSUME NEW w, NEW S, NEW g, IsSum(w, S, g), NEW v, NEW T, NEW h, IsSum(v, T, h),
           NEW u, IsFiniteSet(u), u \subseteq S, u \subseteq T, \A x \in u : w[x] = v[x]
    PROVE  g[u] = h[u]
<1> DEFINE H == {s \in SUBSET u : g[s] = h[s]}
<1>1. ASSUME NEW s \in SUBSET u, \A x \in s : s \ {x} \in H PROVE s \in H
  <2>1. g[s] = SumStep(w, g, s) /\ h[s] = SumStep(v, h, s)
    BY DEF IsSum
  <2>2. s # {} => Picked(s) \in s /\ w[Picked(s)] = v[Picked(s)] /\ g[s \ {Picked(s)}] = h[s \ {Picked(s)}]
    BY <1>1, PickedFacts
  <2> QED
    BY <2>1, <2>2 DEF SumStep
<1>2. SUBSET u \subseteq H
  <2> HIDE DEF H
  <2> QED
    BY <1>1, SubsetInduction
<1> QED
  BY <1>2

\* MapThenSumSet takes its value from that function.
LEMMA SumIs ==
    ASSUME NEW w, NEW S, IsFiniteSet(S), Weighed(w, S)
    PROVE  \E g : IsSum(w, S, g) /\ SumOf(w, S) = g[S]
<1> DEFINE F == CHOOSE g : g = [s \in SUBSET S |-> IF s = {} THEN 0
                                   ELSE w[CHOOSE x \in s : TRUE] + g[s \ {CHOOSE x \in s : TRUE}]]
<1>1. SumOf(w, S) = F[S]
  BY DEF SumOf, MapThenSumSet, MapThenFoldSet
<1>2. \E g : g = [s \in SUBSET S |-> IF s = {} THEN 0
                      ELSE w[CHOOSE x \in s : TRUE] + g[s \ {CHOOSE x \in s : TRUE}]]
  <2>1. PICK g : IsSum(w, S, g)
    BY SumExists
  <2> QED
    BY <2>1, Zenon DEF IsSum, SumStep, Picked
<1>3. F = [s \in SUBSET S |-> IF s = {} THEN 0
              ELSE w[CHOOSE x \in s : TRUE] + F[s \ {CHOOSE x \in s : TRUE}]]
  BY <1>2, Zenon
<1> HIDE DEF F
<1>4. IsSum(w, S, F)
  BY <1>3, Zenon DEF IsSum, SumStep, Picked
<1> QED
  BY <1>1, <1>4

\* Taking one element out, whichever one the definition would take first.
LEMMA SumRemove ==
    ASSUME NEW w, NEW S, IsFiniteSet(S), Weighed(w, S), NEW g, IsSum(w, S, g), NEW u \in SUBSET S
    PROVE  g[u] \in Int /\ \A x \in u : g[u] = w[x] + g[u \ {x}]
<1> DEFINE Fine(s) == g[s] \in Int /\ \A x \in s : g[s] = w[x] + g[s \ {x}]
           H == {s \in SUBSET S : Fine(s) /\ \A x \in s : Fine(s \ {x})}
<1>1. ASSUME NEW s \in SUBSET S, \A x \in s : s \ {x} \in H PROVE s \in H
  <2>1. ASSUME NEW x \in s PROVE Fine(s \ {x}) /\ \A y \in s \ {x} : Fine((s \ {x}) \ {y})
    BY <1>1
  <2>2. g[s] = SumStep(w, g, s)
    BY DEF IsSum
  <2>3. CASE s = {}
    BY <2>2, <2>3 DEF SumStep
  <2>4. CASE s # {}
    <3> DEFINE y == Picked(s)
    <3>1. y \in s /\ g[s] = w[y] + g[s \ {y}] /\ w[y] \in Int
      BY <2>2, <2>4, PickedFacts DEF SumStep, Weighed
    <3> HIDE DEF y
    <3>2. g[s \ {y}] \in Int
      BY <2>1, <3>1
    <3>3. ASSUME NEW x \in s PROVE g[s] = w[x] + g[s \ {x}]
      <4>1. CASE x = y
        BY <3>1, <4>1
      <4>2. CASE x # y
        <5>1. g[s \ {y}] = w[x] + g[(s \ {y}) \ {x}]
          BY <2>1, <3>1, <4>2
        <5>2. g[s \ {x}] = w[y] + g[(s \ {x}) \ {y}]
          BY <2>1, <3>1, <4>2
        <5>3. (s \ {y}) \ {x} = (s \ {x}) \ {y}
          OBVIOUS
        <5>4. Fine((s \ {x}) \ {y})
          <6> HIDE DEF Fine
          <6> QED
            BY <2>1, <3>1, <4>2
        <5>5. g[(s \ {x}) \ {y}] \in Int
          BY <5>4
        <5>6. w[x] \in Int
          BY DEF Weighed
        <5>7. g[s \ {y}] = w[x] + g[(s \ {x}) \ {y}]
          BY <5>1, <5>3
        <5> QED
          BY <3>1, <5>2, <5>5, <5>6, <5>7
      <4> QED
        BY <4>1, <4>2
    <3>4. g[s] \in Int
      BY <3>1, <3>2
    <3>5. Fine(s)
      BY <3>3, <3>4
    <3> HIDE DEF Fine
    <3> QED
      BY <2>1, <3>5
  <2> QED
    BY <2>3, <2>4
<1>2. SUBSET S \subseteq H
  <2> HIDE DEF H
  <2> QED
    BY <1>1, SubsetInduction
<1>3. Fine(u)
  BY <1>2
<1> QED
  BY <1>3

\* What the proofs use: the empty sum, one weight more or less, and weights that
\* changed elsewhere.
LEMMA SumFacts ==
    ASSUME NEW w, NEW S, IsFiniteSet(S), Weighed(w, S)
    PROVE  /\ SumOf(w, S) \in Int
           /\ S = {} => SumOf(w, S) = 0
           /\ \A x \in S : SumOf(w, S \ {x}) = SumOf(w, S) - w[x]
           /\ \A v : (\A x \in S : w[x] = v[x]) => SumOf(v, S) = SumOf(w, S)
<1>1. PICK g : IsSum(w, S, g) /\ SumOf(w, S) = g[S]
  BY SumIs
<1>2. g[S] \in Int /\ \A x \in S : g[S] = w[x] + g[S \ {x}] /\ g[S \ {x}] \in Int
  <2>1. g[S] \in Int /\ \A x \in S : g[S] = w[x] + g[S \ {x}]
    BY <1>1, SumRemove
  <2>2. ASSUME NEW x \in S PROVE g[S \ {x}] \in Int
    BY <1>1, SumRemove
  <2> QED
    BY <2>1, <2>2
<1>3. S = {} => g[S] = 0
  BY <1>1 DEF IsSum, SumStep
<1>4. ASSUME NEW x \in S PROVE SumOf(w, S \ {x}) = SumOf(w, S) - w[x]
  <2>1. IsFiniteSet(S \ {x}) /\ Weighed(w, S \ {x}) /\ w[x] \in Int
    BY FS_RemoveElement DEF Weighed
  <2>2. PICK h : IsSum(w, S \ {x}, h) /\ SumOf(w, S \ {x}) = h[S \ {x}]
    BY <2>1, SumIs
  <2>3. h[S \ {x}] = g[S \ {x}]
    BY <1>1, <2>1, <2>2, SumsAgree
  <2>4. g[S] = w[x] + g[S \ {x}] /\ g[S \ {x}] \in Int
    BY <1>2
  <2>5. g[S \ {x}] = g[S] - w[x]
    BY <1>2, <2>1, <2>4
  <2> QED
    BY <1>1, <2>2, <2>3, <2>5
<1>5. ASSUME NEW v, \A x \in S : w[x] = v[x] PROVE SumOf(v, S) = SumOf(w, S)
  <2>1. Weighed(v, S)
    BY <1>5 DEF Weighed
  <2>2. PICK h : IsSum(v, S, h) /\ SumOf(v, S) = h[S]
    BY <2>1, SumIs
  <2> QED
    BY <1>1, <1>5, <2>2, SumsAgree
<1> QED
  BY <1>1, <1>2, <1>3, <1>4, <1>5

LEMMA SumAdd ==
    ASSUME NEW w, NEW v, NEW S, IsFiniteSet(S), Weighed(w, S), NEW x, x \notin S,
           \A y \in S : w[y] = v[y], v[x] \in Int
    PROVE  SumOf(v, S \cup {x}) = SumOf(w, S) + v[x]
<1>1. IsFiniteSet(S \cup {x}) /\ Weighed(v, S \cup {x}) /\ (S \cup {x}) \ {x} = S
  BY FS_AddElement DEF Weighed
<1>2. SumOf(v, S) = SumOf(v, S \cup {x}) - v[x] /\ SumOf(v, S \cup {x}) \in Int
  <2>1. x \in S \cup {x}
    OBVIOUS
  <2>2. SumOf(v, (S \cup {x}) \ {x}) = SumOf(v, S \cup {x}) - v[x]
    BY <1>1, <2>1, SumFacts
  <2>3. SumOf(v, S \cup {x}) \in Int
    BY <1>1, SumFacts
  <2> QED
    BY <1>1, <2>2, <2>3
<1>3. SumOf(v, S) = SumOf(w, S)
  BY SumFacts
<1> QED
  BY <1>2, <1>3
-----------------------------------------------------------------------------

-----------------------------------------------------------------------------
(* Arithmetic *)

LEMMA MinFacts ==
    ASSUME NEW T, T \subseteq Nat, T # {}
    PROVE  Min(T) \in T /\ Min(T) \in Nat /\ \A y \in T : Min(T) <= y
<1>1. \E x \in T : \A y \in T : x <= y
  BY LeastNumber
<1> QED
  BY <1>1 DEF Min

LEMMA MinOfTwo ==
    ASSUME NEW a \in Nat, NEW b \in Nat
    PROVE  Min({a, b}) = IF a <= b THEN a ELSE b
BY DEF Min

LEMMA MaxOfTwo ==
    ASSUME NEW a \in Nat, NEW b \in Nat
    PROVE  Max({a, b}) = IF a <= b THEN b ELSE a
BY DEF Max

LEMMA Products ==
    ASSUME NEW r \in Nat, NEW a \in Int, NEW b \in Int
    PROVE  /\ r * a \in Int /\ r * b \in Int
           /\ a <= b => r * a <= r * b
           /\ r * (a + b) = r * a + r * b
           /\ a >= 0 => r * a >= 0
  OBVIOUS

LEMMA Rates ==
    ASSUME NEW r \in Nat, NEW q \in Nat, q <= r, NEW a \in Nat
    PROVE  q * a <= r * a /\ q * a \in Nat /\ r * a \in Nat
  OBVIOUS

\* A wait rounded up is the first time at which the refill pays.
LEMMA CeilDivFacts ==
    ASSUME NEW a \in Nat \ {0}, NEW b \in Nat \ {0}
    PROVE  CeilDiv(a, b) \in Nat \ {0} /\ b * (CeilDiv(a, b) - 1) < a
<1> DEFINE q == (a + b - 1) \div b
<1>1. q \in Int /\ b * q <= a + b - 1
  OBVIOUS
<1>2. a + b - 1 < b * (q + 1)
  OBVIOUS
<1>3. b * (q + 1) = b * q + b /\ b * (q - 1) = b * q - b
  BY <1>1
<1>4. b * q > 0 
  BY <1>1, <1>2, <1>3
<1>5. q > 0
  BY <1>1, <1>4
<1> QED
  BY <1>1, <1>3, <1>5 DEF CeilDiv
-----------------------------------------------------------------------------
(* Jobs, buckets and entries *)

LEMMA Constants ==
    /\ Cap \in Nat \ {0} /\ Rate \in Nat \ {0} /\ Floor \in Nat \ {0} /\ Floor <= Rate
    /\ MaxPending \in Nat \ {0} /\ MaxSubmits \in Nat /\ MaxChanges \in Nat /\ MaxTime \in Nat
    /\ NoJob \notin Jobs /\ NoKey \notin Keys /\ NoKey \notin LogicalKeys
    /\ Never \in Nat /\ Never > MaxTime /\ Running = -1
BY SchedulerAssumption DEF Never, Running

LEMMA JobFacts ==
    ASSUME NEW j \in Jobs
    PROVE  /\ JobOf[j].prio \in Nat /\ JobOf[j].cost \in Nat \ {0} /\ JobOf[j].cost <= Cap
           /\ JobOf[j].ready \in Nat /\ JobOf[j].deadline \in Nat /\ JobOf[j].sched \in Nat
           /\ JobOf[j].replaceable \in BOOLEAN /\ JobOf[j].lkey \in LogicalKeys \cup {NoKey}
           /\ JobOf[j].replaceable => JobOf[j].lkey \in LogicalKeys
           /\ JobOf[j].eligible \subseteq Keys /\ JobOf[j].eligible # {}
           /\ JobOf[j].keys \in Seq(Keys)
           /\ \A k \in JobOf[j].eligible : \E i \in DOMAIN JobOf[j].keys : JobOf[j].keys[i] = k
<1>1. JobOf[j] \in Fields
  BY SchedulerAssumption
<1>2. /\ JobOf[j].cost <= Cap /\ JobOf[j].eligible # {}
      /\ JobOf[j].eligible \subseteq ToSet(JobOf[j].keys)
      /\ JobOf[j].replaceable => JobOf[j].lkey # NoKey
  BY SchedulerAssumption
<1> QED
  BY <1>1, <1>2 DEF Fields, ToSet

\* What a bucket holds now.
LEMMA RefillFacts ==
    ASSUME TypeOK, NEW k \in Keys
    PROVE  /\ Refilled(k) \in 0..Cap
           /\ Refilled(k) <= tokens[k] + rate[k] * (now - refilled[k])
           /\ tokens[k] \in 0..Cap /\ rate[k] \in Floor..Rate /\ refilled[k] \in 0..now
           /\ now \in Nat /\ rate[k] \in Nat \ {0} /\ rate[k] * (now - refilled[k]) \in Nat
<1>1. /\ tokens[k] \in 0..Cap /\ rate[k] \in Floor..Rate /\ refilled[k] \in 0..now /\ now \in Nat
      /\ rate[k] \in Nat \ {0}
  BY Constants DEF TypeOK
<1>2. rate[k] * (now - refilled[k]) \in Nat
  <2>1. now - refilled[k] \in Nat
    BY <1>1
  <2> QED
    BY <1>1, <2>1, Rates
<1>3. tokens[k] + rate[k] * (now - refilled[k]) \in Nat
  BY <1>1, <1>2
<1> QED
  BY <1>1, <1>2, <1>3, Constants, MinOfTwo DEF Refilled

\* When a cost that cannot be paid now can be.
LEMMA ReadyAtFacts ==
    ASSUME TypeOK, NEW k \in Keys, NEW cost \in Nat, Refilled(k) < cost
    PROVE  /\ ReadyAt(k, cost) \in Nat /\ ReadyAt(k, cost) > now
           /\ \A t \in Nat : now < t /\ t <= ReadyAt(k, cost) =>
                 Refilled(k) + rate[k] * (t - 1 - now) < cost
<1> DEFINE a == cost - Refilled(k)
           q == CeilDiv(a, rate[k])
<1>1. a \in Nat \ {0} /\ rate[k] \in Nat \ {0} /\ now \in Nat /\ Refilled(k) \in Nat
  BY RefillFacts, Constants
<1>2. q \in Nat \ {0} /\ rate[k] * (q - 1) < a
  <2> HIDE DEF a
  <2> QED
    BY <1>1, CeilDivFacts
<1>3. ReadyAt(k, cost) = now + q
  BY DEF ReadyAt
<1> HIDE DEF q
<1>4. ASSUME NEW t \in Nat, now < t, t <= now + q
      PROVE  Refilled(k) + rate[k] * (t - 1 - now) < cost
  <2>1. t - 1 - now \in Int /\ q - 1 \in Int /\ t - 1 - now <= q - 1
    BY <1>1, <1>2, <1>4
  <2>2. /\ rate[k] * (t - 1 - now) <= rate[k] * (q - 1)
        /\ rate[k] * (t - 1 - now) \in Int /\ rate[k] * (q - 1) \in Int
    BY <1>1, <2>1, Products
  <2> QED
    BY <1>1, <1>2, <2>2
<1> QED
  BY <1>1, <1>2, <1>3, <1>4

\* The order of the heap.
RankOf(e) == <<JobOf[e.job].prio, e.seq>>
Heap(E) == \A e \in E : e.job \in Jobs /\ e.seq \in Nat

LEMMA BeforeFacts ==
    ASSUME NEW E, Heap(E), NEW e \in E, NEW f \in E, NEW g \in E
    PROVE  /\ ~Before(RankOf(e), RankOf(e))
           /\ Before(RankOf(e), RankOf(f)) /\ Before(RankOf(f), RankOf(g)) => Before(RankOf(e), RankOf(g))
           /\ Before(RankOf(e), RankOf(f)) \/ Before(RankOf(f), RankOf(e)) \/ e.seq = f.seq
<1>1. /\ JobOf[e.job].prio \in Nat /\ e.seq \in Nat /\ JobOf[f.job].prio \in Nat /\ f.seq \in Nat
      /\ JobOf[g.job].prio \in Nat /\ g.seq \in Nat
  BY JobFacts DEF Heap
<1> QED
  BY <1>1 DEF Before, RankOf

LEMMA LeastUrgentFacts ==
    ASSUME NEW E, IsFiniteSet(E), Heap(E), NEW s \in SUBSET E, s # {}
    PROVE  LeastUrgent(s) \in s /\ \A f \in s : ~Before(RankOf(LeastUrgent(s)), RankOf(f))
<1> DEFINE H == {u \in SUBSET E : u # {} => \E e \in u : \A f \in u : ~Before(RankOf(e), RankOf(f))}
<1>1. ASSUME NEW u \in SUBSET E, \A x \in u : u \ {x} \in H PROVE u \in H
  <2>1. SUFFICES ASSUME u # {} PROVE \E e \in u : \A f \in u : ~Before(RankOf(e), RankOf(f))
    BY <1>1
  <2>2. PICK x \in u : TRUE
    BY <2>1
  <2>3. CASE u \ {x} = {}
    <3>1. \A f \in u : f = x
      BY <2>3
    <3> QED
      BY <2>2, <3>1, BeforeFacts
  <2>4. CASE u \ {x} # {}
    <3>1. PICK e \in u \ {x} : \A f \in u \ {x} : ~Before(RankOf(e), RankOf(f))
      BY <1>1, <2>4
    <3>2. CASE Before(RankOf(e), RankOf(x))
      <4>1. ASSUME NEW f \in u PROVE ~Before(RankOf(x), RankOf(f))
        <5>1. CASE f = x
          BY <5>1, BeforeFacts
        <5>2. CASE f # x
          <6>1. ~Before(RankOf(e), RankOf(f))
            BY <3>1, <5>2
          <6>2. e \in E /\ x \in E /\ f \in E
            BY <3>1
          <6> QED
            BY <3>2, <6>1, <6>2, BeforeFacts
        <5> QED
          BY <5>1, <5>2
      <4> QED
        BY <4>1
    <3>3. CASE ~Before(RankOf(e), RankOf(x))
      BY <3>1, <3>3
    <3> QED
      BY <3>2, <3>3
  <2> QED
    BY <2>3, <2>4
<1>2. SUBSET E \subseteq H
  <2> HIDE DEF H
  <2> QED
    BY <1>1, SubsetInduction
<1>3. \E e \in s : \A f \in s : ~Before(RankOf(e), RankOf(f))
  BY <1>2
<1> QED
  BY <1>3, Zenon DEF LeastUrgent, RankOf
-----------------------------------------------------------------------------
(* What the selection loop finds *)

Accs(D) == [job : Jobs \cup {NoJob}, key : Keys \cup {NoKey}, blocked : SUBSET Keys,
            tried : SUBSET Keys, wake : Nat, stale : SUBSET D]

\* The three ways in which a turn of the loop can go on.
Skips(acc, e, next) ==
    next = acc /\ (acc.job = NoJob => JobOf[e.job].eligible \subseteq acc.blocked)
Sends(acc, e, next) ==
    /\ acc.job = NoJob /\ next.job = e.job /\ next.stale = acc.stale /\ next.wake = acc.wake
    /\ next.key \in JobOf[e.job].eligible \ acc.blocked /\ next.key \in next.tried
    /\ JobOf[e.job].cost <= Refilled(next.key)
Blocks(acc, e, next) ==
    LET avail == JobOf[e.job].eligible \ acc.blocked IN
    /\ acc.job = NoJob /\ next.job = NoJob /\ next.key = acc.key /\ next.stale = acc.stale
    /\ \A k \in avail : Refilled(k) < JobOf[e.job].cost /\ next.wake <= ReadyAt(k, JobOf[e.job].cost)
    /\ next.blocked = acc.blocked \cup avail /\ next.tried = acc.tried \cup avail
    /\ next.wake <= acc.wake /\ (acc.wake > now => next.wake > now)

LEMMA ConsiderFacts ==
    ASSUME TypeOK, NEW D, NEW acc \in Accs(D), NEW e \in D, e.job \in Jobs, e.seq = seq[e.job]
    PROVE  /\ Consider(acc, e) \in Accs(D)
           /\ \/ Skips(acc, e, Consider(acc, e))
              \/ Sends(acc, e, Consider(acc, e))
              \/ Blocks(acc, e, Consider(acc, e))
<1> DEFINE job == JobOf[e.job]
           avail == job.eligible \ acc.blocked
           payers == {i \in DOMAIN job.keys : job.keys[i] \in avail /\ Pays(job.keys[i], job.cost)}
           next == Consider(acc, e)
<1>0. /\ job.cost \in Nat /\ job.eligible \subseteq Keys /\ job.keys \in Seq(Keys)
      /\ \A k \in job.eligible : \E i \in DOMAIN job.keys : job.keys[i] = k
  BY JobFacts
<1>a. /\ acc.job \in Jobs \cup {NoJob} /\ acc.key \in Keys \cup {NoKey} /\ acc.blocked \subseteq Keys
      /\ acc.tried \subseteq Keys /\ acc.wake \in Nat /\ acc.stale \subseteq D
  BY DEF Accs
<1>1. CASE acc.job # NoJob \/ avail = {}
  <2>1. next = acc
    BY <1>1 DEF Consider
  <2> QED
    BY <1>1, <2>1 DEF Skips
<1>2. CASE acc.job = NoJob /\ avail # {} /\ payers # {}
  <2> DEFINE first == Min(payers)
             tried == acc.tried \cup (avail \cap {job.keys[i] : i \in 1..first})
  <2>1. next = [acc EXCEPT !.job = e.job, !.key = job.keys[first], !.tried = tried]
    BY <1>2 DEF Consider
  <2>2. payers \subseteq Nat /\ 0 \notin payers
    BY <1>0
  <2>3. first \in payers /\ first \in Nat
    <3> HIDE DEF payers
    <3> QED
      BY <1>2, <2>2, MinFacts
  <2> HIDE DEF first
  <2>4. first \in 1..first
    BY <2>2, <2>3
  <2>5. job.keys[first] \in avail /\ job.cost <= Refilled(job.keys[first])
    BY <2>3 DEF Pays
  <2>6. job.keys[first] \in tried /\ tried \subseteq Keys
    BY <1>0, <1>a, <2>4, <2>5
  <2> HIDE DEF tried, avail, job, next
  <2>7. /\ next \in Accs(D) /\ next.job = e.job /\ next.key = job.keys[first] /\ next.tried = tried
        /\ next.stale = acc.stale /\ next.wake = acc.wake
    <3>1. job.keys[first] \in Keys
      BY <1>0, <2>5 DEF avail
    <3> QED
      BY <2>1, <2>6, <3>1 DEF Accs
  <2> QED
    BY <1>2, <2>5, <2>6, <2>7 DEF Sends, avail, job, next
<1>3. CASE acc.job = NoJob /\ avail # {} /\ payers = {}
  <2> DEFINE times == {acc.wake} \cup {ReadyAt(k, job.cost) : k \in avail}
  <2>1. next = [acc EXCEPT !.blocked = acc.blocked \cup avail, !.tried = acc.tried \cup avail,
                           !.wake = Min(times)]
    BY <1>3 DEF Consider, BlockedWith
  <2>2. ASSUME NEW k \in avail
        PROVE  Refilled(k) < job.cost /\ ReadyAt(k, job.cost) \in Nat /\ ReadyAt(k, job.cost) > now
    <3>1. k \in Keys /\ \E i \in DOMAIN job.keys : job.keys[i] = k
      BY <1>0
    <3>2. ~(job.cost <= Refilled(k))
      BY <1>3, <3>1 DEF Pays
    <3>3. Refilled(k) < job.cost
      BY <1>0, <3>1, <3>2, RefillFacts
    <3> QED
      BY <1>0, <3>1, <3>3, ReadyAtFacts
  <2>3. times \subseteq Nat /\ times # {}
    BY <1>a, <2>2
  <2>4. Min(times) \in times /\ Min(times) \in Nat /\ \A t \in times : Min(times) <= t
    <3> HIDE DEF times
    <3> QED
      BY <2>3, MinFacts
  <2>5. avail \subseteq Keys
    BY <1>0
  <2>6. acc.wake > now => Min(times) > now
    <3> HIDE DEF avail, job
    <3> QED
      BY <2>2, <2>4
  <2>7. Min(times) <= acc.wake /\ \A k \in avail : Min(times) <= ReadyAt(k, job.cost)
    BY <2>4
  <2> HIDE DEF times, avail, job, next
  <2>8. /\ next \in Accs(D) /\ next.job = acc.job /\ next.key = acc.key /\ next.stale = acc.stale
        /\ next.blocked = acc.blocked \cup avail /\ next.tried = acc.tried \cup avail
        /\ next.wake = Min(times)
    BY <1>a, <2>1, <2>4, <2>5 DEF Accs
  <2>9. Blocks(acc, e, next)
    BY <1>3, <2>2, <2>6, <2>7, <2>8 DEF Blocks, avail, job
  <2> QED
    BY <2>8, <2>9 DEF next
<1> QED
  BY <1>1, <1>2, <1>3

\* What the loop knows after the entries s: either every budget of every entry is
\* blocked by an entry as urgent that it cannot pay, or one entry is sent on a
\* budget that no more urgent one may use.
BlockedAll(s, acc) ==
    /\ acc.job = NoJob /\ acc.key = NoKey /\ acc.wake > now
    /\ \A k \in acc.blocked : \E f \in s : k \in JobOf[f.job].eligible
    /\ \A e \in s : JobOf[e.job].eligible \subseteq acc.blocked
    /\ \A e \in s : \A k \in JobOf[e.job].eligible : \E f \in s :
          /\ ~Before(RankOf(e), RankOf(f)) /\ k \in JobOf[f.job].eligible /\ k \in acc.tried
          /\ Refilled(k) < JobOf[f.job].cost /\ acc.wake <= ReadyAt(k, JobOf[f.job].cost)
SentOne(s, acc) ==
    \E e \in s : /\ acc.job = e.job /\ acc.key \in JobOf[e.job].eligible /\ acc.key \in acc.tried
                 /\ JobOf[e.job].cost <= Refilled(acc.key)
                 /\ \A f \in s : Before(RankOf(f), RankOf(e)) => acc.key \notin JobOf[f.job].eligible
Found(D, s, acc) ==
    acc \in Accs(D) /\ acc.stale = {} /\ acc.wake <= Never /\ (BlockedAll(s, acc) \/ SentOne(s, acc))

LEMMA FoundStep ==
    ASSUME TypeOK, NEW D, Heap(D), \A e \in D : e.seq = seq[e.job], NEW s \in SUBSET D,
           NEW x \in s, \A f \in s : ~Before(RankOf(x), RankOf(f)),
           NEW acc, Found(D, s \ {x}, acc)
    PROVE  Found(D, s, Consider(acc, x))
<1> DEFINE next == Consider(acc, x)
<1>0. /\ acc \in Accs(D) /\ next \in Accs(D) /\ x \in D /\ x.job \in Jobs
      /\ Skips(acc, x, next) \/ Sends(acc, x, next) \/ Blocks(acc, x, next)
  BY ConsiderFacts DEF Found, Heap
<1>a. acc.stale = {} /\ acc.wake \in Nat /\ acc.wake <= Never
  BY <1>0 DEF Found, Accs
<1>b. now \in Nat /\ JobOf[x.job].eligible \subseteq Keys
  BY <1>0, JobFacts DEF TypeOK
<1> HIDE DEF next
<1>1. CASE SentOne(s \ {x}, acc)
  <2>1. PICK e \in s \ {x} :
           /\ acc.job = e.job /\ acc.key \in JobOf[e.job].eligible /\ acc.key \in acc.tried
           /\ JobOf[e.job].cost <= Refilled(acc.key)
           /\ \A f \in s \ {x} : Before(RankOf(f), RankOf(e)) => acc.key \notin JobOf[f.job].eligible
    BY <1>1 DEF SentOne
  <2>2. acc.job # NoJob
    BY <2>1, Constants DEF Heap
  <2>3. next = acc
    BY <1>0, <2>2 DEF Skips, Sends, Blocks
  <2>4. \A f \in s : Before(RankOf(f), RankOf(e)) => acc.key \notin JobOf[f.job].eligible
    BY <2>1
  <2>5. SentOne(s, acc)
    BY <2>1, <2>4 DEF SentOne
  <2> QED
    BY <1>0, <1>a, <2>3, <2>5 DEF Found, next
<1>2. CASE BlockedAll(s \ {x}, acc) /\ Sends(acc, x, next)
  <2>1. \A f \in s : Before(RankOf(f), RankOf(x)) => next.key \notin JobOf[f.job].eligible
    <3>1. ~Before(RankOf(x), RankOf(x))
      OBVIOUS
    <3> QED
      BY <1>2, <3>1 DEF BlockedAll, Sends
  <2>2. SentOne(s, next)
    BY <1>2, <2>1 DEF SentOne, Sends
  <2>3. next.stale = {} /\ next.wake <= Never
    BY <1>a, <1>2 DEF Sends
  <2> QED
    BY <1>0, <2>2, <2>3 DEF Found, next
<1>3. CASE BlockedAll(s \ {x}, acc) /\ (Skips(acc, x, next) \/ Blocks(acc, x, next))
  <2> DEFINE avail == JobOf[x.job].eligible \ acc.blocked
  <2>1. /\ next.job = NoJob /\ next.key = NoKey /\ next.stale = {}
        /\ next.blocked = acc.blocked \cup avail /\ next.wake <= acc.wake /\ next.wake > now
        /\ acc.tried \subseteq next.tried /\ avail \subseteq next.tried
        /\ \A k \in avail : Refilled(k) < JobOf[x.job].cost /\ next.wake <= ReadyAt(k, JobOf[x.job].cost)
    <3>1. CASE Skips(acc, x, next)
      BY <1>3, <1>a, <3>1 DEF Skips, BlockedAll
    <3>2. CASE Blocks(acc, x, next)
      BY <1>3, <1>a, <3>2 DEF Blocks, BlockedAll
    <3> QED
      BY <1>3, <3>1, <3>2
  <2>2. next.wake \in Nat
    BY <1>0 DEF Accs
  <2>3. \A k \in next.blocked : \E f \in s : k \in JobOf[f.job].eligible
    BY <1>3, <2>1 DEF BlockedAll
  <2>4. \A e \in s : JobOf[e.job].eligible \subseteq next.blocked
    BY <1>3, <2>1 DEF BlockedAll
  <2>5. ASSUME NEW e \in s \ {x}, NEW k \in JobOf[e.job].eligible
        PROVE  \E f \in s \ {x} :
                  /\ ~Before(RankOf(e), RankOf(f)) /\ k \in JobOf[f.job].eligible /\ k \in next.tried
                  /\ Refilled(k) < JobOf[f.job].cost /\ next.wake <= ReadyAt(k, JobOf[f.job].cost)
    <3>1. PICK f \in s \ {x} :
             /\ ~Before(RankOf(e), RankOf(f)) /\ k \in JobOf[f.job].eligible /\ k \in acc.tried
             /\ Refilled(k) < JobOf[f.job].cost /\ acc.wake <= ReadyAt(k, JobOf[f.job].cost)
      BY <1>3 DEF BlockedAll
    <3>2. f.job \in Jobs /\ k \in Keys /\ JobOf[f.job].cost \in Nat
      BY <3>1, JobFacts DEF Heap
    <3>3. ReadyAt(k, JobOf[f.job].cost) \in Nat
      BY <3>1, <3>2, ReadyAtFacts
    <3>4. next.wake <= ReadyAt(k, JobOf[f.job].cost)
      BY <1>a, <2>1, <2>2, <3>1, <3>3
    <3> QED
      BY <2>1, <3>1, <3>4
  <2>6. ASSUME NEW k \in JobOf[x.job].eligible
        PROVE  \E f \in s :
                  /\ ~Before(RankOf(x), RankOf(f)) /\ k \in JobOf[f.job].eligible /\ k \in next.tried
                  /\ Refilled(k) < JobOf[f.job].cost /\ next.wake <= ReadyAt(k, JobOf[f.job].cost)
    <3>1. CASE k \in avail
      BY <2>1, <3>1
    <3>2. CASE k \in acc.blocked
      <4>1. PICK e \in s \ {x} : k \in JobOf[e.job].eligible
        BY <1>3, <3>2 DEF BlockedAll
      <4> QED
        BY <2>5, <4>1
    <3> QED
      BY <3>1, <3>2
  <2> HIDE DEF avail
  <2>7. \A e \in s : \A k \in JobOf[e.job].eligible : \E f \in s :
          /\ ~Before(RankOf(e), RankOf(f)) /\ k \in JobOf[f.job].eligible /\ k \in next.tried
          /\ Refilled(k) < JobOf[f.job].cost /\ next.wake <= ReadyAt(k, JobOf[f.job].cost)
    BY <2>5, <2>6
  <2>8. BlockedAll(s, next)
    BY <2>1, <2>3, <2>4, <2>7 DEF BlockedAll
  <2>9. next.wake <= Never
    BY <1>a, <2>1, <2>2, Constants
  <2> QED
    BY <1>0, <2>1, <2>8, <2>9 DEF Found, next
<1> QED
  BY <1>0, <1>1, <1>2, <1>3 DEF Found

\* The loop as a fold exists and ends with such a finding.
LEMMA SelectionFacts ==
    ASSUME TypeOK, IsFiniteSet(DueEntries), Heap(DueEntries),
           \A e \in DueEntries : e.seq = seq[e.job]
    PROVE  Found(DueEntries, DueEntries, Selection)
<1> DEFINE D == DueEntries
           Folding(g) == g = [s \in SUBSET D |-> IF s = {} THEN NothingYet
                                 ELSE Consider(g[s \ {LeastUrgent(s)}], LeastUrgent(s))]
           F == CHOOSE g : Folding(g)
<1>1. Selection = F[D]
  BY DEF Selection, MapThenFoldSet
<1> HIDE DEF D
<1>0. /\ IsFiniteSet(D) /\ Heap(D) /\ \A e \in D : e.seq = seq[e.job]
  BY DEF D
<1>2. \A s \in SUBSET D : s # {} =>
         LeastUrgent(s) \in s /\ \A f \in s : ~Before(RankOf(LeastUrgent(s)), RankOf(f))
  BY <1>0, LeastUrgentFacts
<1>3. Found(D, {}, NothingYet)
  <2>1. now \in 0..MaxTime
    BY DEF TypeOK
  <2>2. NothingYet \in Accs(D) /\ NothingYet.wake = Never
    BY Constants DEF NothingYet, Accs
  <2>3. BlockedAll({}, NothingYet)
    BY <2>1, Constants DEF NothingYet, BlockedAll
  <2> QED
    BY <2>2, <2>3, Constants DEF Found, NothingYet
<1>4. ASSUME NEW g, NEW s \in SUBSET D, s # {},
             Found(D, s \ {LeastUrgent(s)}, g[s \ {LeastUrgent(s)}])
      PROVE  Found(D, s, Consider(g[s \ {LeastUrgent(s)}], LeastUrgent(s)))
  BY <1>0, <1>2, <1>4, FoundStep
<1>5. \E g : Folding(g)
  <2> DEFINE pick == [s \in SUBSET D |-> LeastUrgent(s)]
             step == [p \in D \X Accs(D) |-> Consider(p[2], p[1])]
  <2>1. Picks(pick, D)
    BY <1>2 DEF Picks
  <2>2. PICK g : IsFold(NothingYet, pick, step, D, g)
    <3> HIDE DEF pick, step
    <3> QED
      BY <1>0, <2>1, FoldExists
  <2>3. ASSUME NEW s \in SUBSET D
        PROVE  g[s] = FoldStep(NothingYet, pick, step, g, s)
    BY <2>2 DEF IsFold
  <2> DEFINE H == {s \in SUBSET D : Found(D, s, g[s])}
  <2>4. ASSUME NEW s \in SUBSET D, s # {}, g[s \ {LeastUrgent(s)}] \in Accs(D)
        PROVE  g[s] = Consider(g[s \ {LeastUrgent(s)}], LeastUrgent(s))
    <3>1. g[s] = step[<<LeastUrgent(s), g[s \ {LeastUrgent(s)}]>>]
      BY <2>3, <2>4 DEF FoldStep
    <3>2. <<LeastUrgent(s), g[s \ {LeastUrgent(s)}]>> \in D \X Accs(D)
      BY <1>2, <2>4
    <3> QED
      BY <3>1, <3>2
  <2>5. ASSUME NEW s \in SUBSET D, \A x \in s : s \ {x} \in H PROVE s \in H
    <3>1. CASE s = {}
      BY <1>3, <2>3, <3>1 DEF FoldStep
    <3>2. CASE s # {}
      <4>1. Found(D, s \ {LeastUrgent(s)}, g[s \ {LeastUrgent(s)}])
        BY <1>2, <2>5, <3>2
      <4>2. g[s] = Consider(g[s \ {LeastUrgent(s)}], LeastUrgent(s))
        BY <2>4, <3>2, <4>1 DEF Found
      <4> QED
        BY <1>4, <3>2, <4>1, <4>2
    <3> QED
      BY <3>1, <3>2
  <2>6. SUBSET D \subseteq H
    <3> HIDE DEF H
    <3> QED
      BY <1>0, <2>5, SubsetInduction
  <2>7. ASSUME NEW s \in SUBSET D
        PROVE  g[s] = IF s = {} THEN NothingYet
                      ELSE Consider(g[s \ {LeastUrgent(s)}], LeastUrgent(s))
    <3>1. CASE s = {}
      BY <2>3, <3>1 DEF FoldStep
    <3>2. CASE s # {}
      <4>1. g[s \ {LeastUrgent(s)}] \in Accs(D)
        BY <1>2, <2>6, <3>2 DEF Found
      <4> QED
        BY <2>4, <3>2, <4>1
    <3> QED
      BY <3>1, <3>2
  <2>8. g = [s \in SUBSET D |-> g[s]]
    BY <2>2 DEF IsFold
  <2> QED
    BY <2>7, <2>8
<1>6. Folding(F)
  BY <1>5, Zenon
<1>7. ASSUME NEW s \in SUBSET D
      PROVE  F[s] = IF s = {} THEN NothingYet
                    ELSE Consider(F[s \ {LeastUrgent(s)}], LeastUrgent(s))
  <2> HIDE DEF F
  <2> QED
    BY <1>6
<1> HIDE DEF F, Folding
<1> DEFINE H == {s \in SUBSET D : Found(D, s, F[s])}
<1>8. ASSUME NEW s \in SUBSET D, \A x \in s : s \ {x} \in H PROVE s \in H
  <2>1. CASE s = {}
    BY <1>3, <1>7, <2>1
  <2>2. CASE s # {}
    <3>1. Found(D, s \ {LeastUrgent(s)}, F[s \ {LeastUrgent(s)}])
      BY <1>2, <1>8, <2>2
    <3> QED
      BY <1>4, <1>7, <2>2, <3>1
  <2> QED
    BY <2>1, <2>2
<1>9. SUBSET D \subseteq H
  <2> HIDE DEF H
  <2> QED
    BY <1>0, <1>8, SubsetInduction
<1> QED
  BY <1>1, <1>9 DEF D
-----------------------------------------------------------------------------
(* The inductive invariant *)

\* The pool: its indexes agree, sequences are not shared, and the logical index
\* names replaceable occurrences of its own key.
Pool ==
    /\ IndexAgrees
    /\ IsFiniteSet(ready \cup future)
    /\ \A i, j \in Pending : seq[i] = seq[j] => i = j
    /\ \A l \in LogicalKeys : index[l] # NoJob =>
          JobOf[index[l]].replaceable /\ JobOf[index[l]].lkey = l

\* Nothing can be dispatched before time t: nobody expires, nothing becomes due,
\* and every budget of a ready job is short of the cost of a job as urgent.
Asleep(t) ==
    /\ \A j \in Pending : t <= JobOf[j].deadline + 1
    /\ \A e \in future : t <= JobOf[e.job].ready
    /\ \A e \in ready : \A k \in JobOf[e.job].eligible : \E f \in ready :
          /\ ~Before(RankOf(e), RankOf(f)) /\ k \in JobOf[f.job].eligible
          /\ tokens[k] + rate[k] * (t - 1 - refilled[k]) < JobOf[f.job].cost
Waits == \A d \in Dispatchers : now < armed[d] => Asleep(armed[d])

\* The cost of the dispatches m to n of a log that went to budget k.
Log == Seq([job : Jobs, key : Keys, at : Nat])
CostsOf(lg) == [i \in DOMAIN lg |-> JobOf[lg[i].job].cost]
Sent(lg, k, m, n) == {i \in m..n : lg[i].key = k}
Spent(lg, k, m, n) == SumOf(CostsOf(lg), Sent(lg, k, m, n))

\* What was dispatched on a budget since dispatch m, with what it holds, is
\* within the capacity and the refill up to its last refill.
Windows ==
    /\ log \in Log
    /\ \A m \in DOMAIN log : LET k == log[m].key IN
          Spent(log, k, m, Len(log)) + tokens[k] <= Cap + Rate * (refilled[k] - log[m].at)
    /\ \A m, n \in DOMAIN log : log[m].key = log[n].key /\ m <= n =>
          Spent(log, log[n].key, m, n) <= Cap + Rate * (log[n].at - log[m].at)

IInv == TypeOK /\ Pool /\ Waits /\ Windows
-----------------------------------------------------------------------------
(* The pool *)

LEMMA EntryFacts ==
    ASSUME TypeOK, Pool
    PROVE  /\ Heap(ready \cup future) /\ Heap(DueEntries) /\ IsFiniteSet(DueEntries)
           /\ \A e \in ready \cup future : e.job \in Pending /\ e.job \in Jobs /\ e.seq = seq[e.job]
           /\ \A e, f \in ready \cup future : e.job = f.job => e = f
           /\ \A e, f \in ready \cup future : e.seq = f.seq => e = f
           /\ \A e \in DueEntries : e \in ready \cup future /\ e.seq = seq[e.job]
<1>1. \A e \in ready \cup future : /\ e.job \in Pending /\ e.job \in Jobs /\ e.seq = seq[e.job]
                                    /\ e.seq \in Nat /\ e = [job |-> e.job, seq |-> e.seq]
  BY DEF Pool, IndexAgrees, Pending, TypeOK
<1>2. DueEntries \subseteq ready \cup future
  BY DEF DueEntries, Without
<1>3. IsFiniteSet(DueEntries)
  BY <1>2, FS_Subset DEF Pool
<1>4. \A e, f \in ready \cup future : e.job = f.job => e = f
  BY <1>1
<1>5. \A e, f \in ready \cup future : e.seq = f.seq => e = f
  BY <1>1 DEF Pool
<1> QED
  BY <1>1, <1>2, <1>3, <1>4, <1>5 DEF Heap

\* Jobs leave the pool, the index and the heaps together.
LEMMA PoolRemoval ==
    ASSUME TypeOK, Pool, NEW gone \in SUBSET Jobs,
           seq' = SeqWithout(gone), index' = IndexWithout(gone), count' = count,
           ready' \cup future' = Without(ready \cup future, gone), ready' \cap future' = {}
    PROVE  /\ Pool' /\ Pending' = Pending \ gone
           /\ seq' \in [Jobs -> 0..count'] /\ index' \in [LogicalKeys -> Jobs \cup {NoJob}]
           /\ ready' \cup future' \subseteq [job : Jobs, seq : 1..count']
<1>0. count \in Nat /\ seq \in [Jobs -> 0..count] /\ index \in [LogicalKeys -> Jobs \cup {NoJob}]
  BY Constants DEF TypeOK
<1>1. \A j \in Jobs : seq'[j] = IF j \in gone THEN 0 ELSE seq[j]
  BY DEF SeqWithout
<1>2. \A l \in LogicalKeys : index'[l] = IF index[l] \in gone THEN NoJob ELSE index[l]
  BY DEF IndexWithout
<1>3. seq' \in [Jobs -> 0..count'] /\ index' \in [LogicalKeys -> Jobs \cup {NoJob}]
  BY <1>0 DEF SeqWithout, IndexWithout
<1>4. Pending' = Pending \ gone
  BY <1>1 DEF Pending
<1>5. ready' \cup future' = {[job |-> j, seq |-> seq'[j]] : j \in Pending'}
  <2>1. Without(ready \cup future, gone) = {[job |-> j, seq |-> seq[j]] : j \in Pending \ gone}
    BY DEF Pool, IndexAgrees, Without
  <2>2. \A j \in Pending \ gone : seq'[j] = seq[j]
    BY <1>1 DEF Pending
  <2> QED
    BY <1>4, <2>1, <2>2
<1>6. \A j \in Pending' : JobOf[j].replaceable => index'[JobOf[j].lkey] = j
  <2>1. ASSUME NEW j \in Pending', JobOf[j].replaceable PROVE index'[JobOf[j].lkey] = j
    <3>1. j \in Jobs /\ JobOf[j].lkey \in LogicalKeys /\ index[JobOf[j].lkey] = j /\ j \notin gone
      BY <1>4, <2>1, JobFacts DEF Pool, IndexAgrees, Pending
    <3> QED
      BY <1>2, <3>1
  <2> QED
    BY <2>1
<1>7. \A l \in LogicalKeys : index'[l] # NoJob =>
         index'[l] \in Pending' /\ JobOf[index'[l]].replaceable /\ JobOf[index'[l]].lkey = l
  BY <1>2, <1>4 DEF Pool, IndexAgrees
<1>8. \A i, j \in Pending' : seq'[i] = seq'[j] => i = j
  BY <1>1, <1>4 DEF Pool, Pending
<1>9. IsFiniteSet(ready' \cup future')
  BY FS_Subset DEF Pool, Without
<1>10. IndexAgrees'
  BY <1>5, <1>6, <1>7 DEF IndexAgrees
<1>11. ready' \cup future' \subseteq [job : Jobs, seq : 1..count']
  BY DEF TypeOK, Without
<1> QED
  BY <1>3, <1>4, <1>7, <1>8, <1>9, <1>10, <1>11 DEF Pool

\* A job that is not pending comes in for what it replaces.
LEMMA PoolAddition ==
    ASSUME TypeOK, Pool, NEW gone \in SUBSET Jobs, NEW j \in Jobs, seq[j] = 0,
           Replaced(j) \subseteq gone, count' = count + 1,
           seq' = [SeqWithout(gone) EXCEPT ![j] = count + 1],
           index' = [l \in LogicalKeys |-> IF JobOf[j].replaceable /\ l = JobOf[j].lkey THEN j
                                           ELSE IndexWithout(gone)[l]],
           ready' \cup future' = Without(ready \cup future, gone) \cup {[job |-> j, seq |-> count + 1]},
           ready' \cap future' = {}
    PROVE  /\ Pool'
           /\ seq' \in [Jobs -> 0..count'] /\ index' \in [LogicalKeys -> Jobs \cup {NoJob}]
           /\ ready' \cup future' \subseteq [job : Jobs, seq : 1..count']
<1>0. count \in Nat /\ seq \in [Jobs -> 0..count] /\ index \in [LogicalKeys -> Jobs \cup {NoJob}]
  BY Constants DEF TypeOK
<1>1. \A i \in Jobs : seq'[i] = IF i = j THEN count + 1 ELSE IF i \in gone THEN 0 ELSE seq[i]
  BY DEF SeqWithout
<1>2. \A l \in LogicalKeys : index'[l] = IF JobOf[j].replaceable /\ l = JobOf[j].lkey THEN j
                                        ELSE IF index[l] \in gone THEN NoJob ELSE index[l]
  BY DEF IndexWithout
<1>3. seq' \in [Jobs -> 0..count'] /\ index' \in [LogicalKeys -> Jobs \cup {NoJob}]
  BY <1>0 DEF SeqWithout, IndexWithout
<1>4. Pending' = (Pending \ gone) \cup {j} /\ j \notin Pending
  BY <1>0, <1>1 DEF Pending
<1>5. ready' \cup future' = {[job |-> i, seq |-> seq'[i]] : i \in Pending'}
  <2>1. Without(ready \cup future, gone) = {[job |-> i, seq |-> seq[i]] : i \in Pending \ gone}
    BY DEF Pool, IndexAgrees, Without
  <2>2. \A i \in Pending \ gone : seq'[i] = seq[i]
    BY <1>1, <1>4 DEF Pending
  <2>3. seq'[j] = count + 1
    BY <1>1
  <2> QED
    BY <1>4, <2>1, <2>2, <2>3
<1>6. ASSUME NEW i \in Pending', JobOf[i].replaceable PROVE index'[JobOf[i].lkey] = i
  <2>1. i \in Jobs /\ JobOf[i].lkey \in LogicalKeys
    BY <1>6, JobFacts DEF Pending
  <2>2. CASE i = j
    BY <1>2, <1>6, <2>1, <2>2
  <2>3. CASE i # j
    <3>1. i \in Pending /\ i \notin gone /\ index[JobOf[i].lkey] = i /\ i # NoJob
      BY <1>4, <1>6, <2>1, <2>3, Constants DEF Pool, IndexAgrees
    <3>2. ~(JobOf[j].replaceable /\ JobOf[i].lkey = JobOf[j].lkey)
      BY <3>1 DEF Replaced
    <3> QED
      BY <1>2, <2>1, <3>1, <3>2
  <2> QED
    BY <2>2, <2>3
<1>7. \A l \in LogicalKeys : index'[l] # NoJob =>
         index'[l] \in Pending' /\ JobOf[index'[l]].replaceable /\ JobOf[index'[l]].lkey = l
  BY <1>2, <1>4 DEF Pool, IndexAgrees
<1>8. \A h, i \in Pending' : seq'[h] = seq'[i] => h = i
  BY <1>0, <1>1, <1>4 DEF Pool, Pending
<1>9. IsFiniteSet(ready' \cup future')
  <2>1. IsFiniteSet(Without(ready \cup future, gone))
    BY FS_Subset DEF Pool, Without
  <2> DEFINE rest == Without(ready \cup future, gone)
             entry == [job |-> j, seq |-> count + 1]
  <2> HIDE DEF rest, entry
  <2>2. IsFiniteSet(rest \cup {entry})
    BY <2>1, FS_AddElement DEF rest
  <2> QED
    BY <2>2 DEF rest, entry
<1>10. IndexAgrees'
  BY <1>5, <1>6, <1>7 DEF IndexAgrees
<1>11. ready' \cup future' \subseteq [job : Jobs, seq : 1..count']
  BY <1>0 DEF TypeOK, Without
<1> QED
  BY <1>3, <1>7, <1>8, <1>9, <1>10, <1>11 DEF Pool
-----------------------------------------------------------------------------
(* The buckets and the log *)

\* A bucket is left alone, or refilled and then only charged.
Touched ==
    /\ tokens' \in [Keys -> 0..Cap] /\ refilled' \in [Keys -> 0..now']
    /\ \A k \in Keys : \/ tokens'[k] = tokens[k] /\ refilled'[k] = refilled[k]
                       \/ tokens'[k] <= Refilled(k) /\ refilled'[k] = now
Slowed == rate' \in [Keys -> Floor..Rate] /\ \A k \in Keys : rate'[k] <= rate[k]

LEMMA LogFacts ==
    ASSUME NEW lg \in Log
    PROVE  /\ Len(lg) \in Nat /\ DOMAIN lg = 1..Len(lg)
           /\ \A i \in DOMAIN lg : /\ i \in Nat \ {0} /\ i <= Len(lg)
                                  /\ lg[i].job \in Jobs /\ lg[i].key \in Keys /\ lg[i].at \in Nat
<1>1. lg \in Seq([job : Jobs, key : Keys, at : Nat])
  BY DEF Log
<1>2. Len(lg) \in Nat /\ DOMAIN lg = 1..Len(lg)
  BY <1>1
<1>3. ASSUME NEW i \in DOMAIN lg PROVE lg[i] \in [job : Jobs, key : Keys, at : Nat]
  <2> DEFINE T == [job : Jobs, key : Keys, at : Nat]
  <2> HIDE DEF T
  <2>1. lg \in Seq(T)
    BY <1>1 DEF T
  <2>2. lg[i] \in T
    BY <2>1
  <2> QED
    BY <2>2 DEF T
<1> QED
  BY <1>2, <1>3

LEMMA SpentFacts ==
    ASSUME NEW lg \in Log, NEW k, NEW m \in Nat \ {0}, NEW n \in Nat, n <= Len(lg)
    PROVE  /\ IsFiniteSet(Sent(lg, k, m, n)) /\ Sent(lg, k, m, n) \subseteq DOMAIN lg
           /\ Weighed(CostsOf(lg), DOMAIN lg) /\ Weighed(CostsOf(lg), Sent(lg, k, m, n))
           /\ Spent(lg, k, m, n) \in Int
<1>1. IsFiniteSet(m..n) /\ Sent(lg, k, m, n) \subseteq m..n
  BY FS_Interval DEF Sent
<1>2. IsFiniteSet(Sent(lg, k, m, n))
  BY <1>1, FS_Subset
<1>3. Sent(lg, k, m, n) \subseteq DOMAIN lg
  BY LogFacts DEF Sent
<1>4. ASSUME NEW i \in DOMAIN lg PROVE CostsOf(lg)[i] \in Int
  <2>1. lg[i].job \in Jobs
    BY LogFacts
  <2> QED
    BY <2>1, JobFacts DEF CostsOf
<1>5. Weighed(CostsOf(lg), DOMAIN lg) /\ Weighed(CostsOf(lg), Sent(lg, k, m, n))
  BY <1>3, <1>4 DEF Weighed
<1>6. Spent(lg, k, m, n) \in Int
  BY <1>2, <1>5, SumFacts DEF Spent
<1> QED
  BY <1>2, <1>3, <1>5, <1>6

\* A refill keeps the window.
LEMMA RefillKeepsWindow ==
    ASSUME TypeOK, Windows, NEW m \in DOMAIN log, NEW k, k = log[m].key
    PROVE  /\ Spent(log, k, m, Len(log)) + Refilled(k) <= Cap + Rate * (now - log[m].at)
           /\ Spent(log, k, m, Len(log)) \in Int /\ k \in Keys /\ log[m].at \in Nat
           /\ Rate * (now - log[m].at) \in Int
<1> DEFINE s == Spent(log, k, m, Len(log))
           at == log[m].at
<1>0. log \in Log
  BY DEF Windows
<1>1. k \in Keys /\ at \in Nat /\ m \in Nat \ {0} /\ Len(log) \in Nat
  BY <1>0, LogFacts
<1>2. s \in Int
  <2>1. Len(log) <= Len(log)
    BY <1>1
  <2> QED
    BY <1>0, <1>1, <2>1, SpentFacts
<1>3. s + tokens[k] <= Cap + Rate * (refilled[k] - at)
  BY DEF Windows
<1>4. /\ tokens[k] \in Nat /\ refilled[k] \in Nat /\ now \in Nat /\ refilled[k] <= now
      /\ rate[k] \in Nat /\ rate[k] <= Rate /\ Refilled(k) \in Nat
      /\ Refilled(k) <= tokens[k] + rate[k] * (now - refilled[k])
      /\ rate[k] * (now - refilled[k]) \in Nat
  <2>1. k \in Keys
    BY <1>1
  <2>2. /\ Refilled(k) \in 0..Cap /\ tokens[k] \in 0..Cap /\ rate[k] \in Floor..Rate
        /\ refilled[k] \in 0..now /\ now \in Nat
        /\ Refilled(k) <= tokens[k] + rate[k] * (now - refilled[k])
        /\ rate[k] * (now - refilled[k]) \in Nat
    BY <2>1, RefillFacts
  <2> QED
    BY <2>2, Constants
<1>5. now - refilled[k] \in Nat /\ refilled[k] - at \in Int /\ Rate \in Nat /\ Cap \in Nat
  <2>1. refilled[k] \in Nat /\ now \in Nat /\ refilled[k] <= now /\ at \in Nat
    BY <1>1, <1>4
  <2> HIDE DEF at
  <2> QED
    BY <2>1, Constants
<1>6. rate[k] * (now - refilled[k]) <= Rate * (now - refilled[k])
  BY <1>4, <1>5, Rates
<1>7. /\ Rate * ((refilled[k] - at) + (now - refilled[k]))
            = Rate * (refilled[k] - at) + Rate * (now - refilled[k])
      /\ Rate * (refilled[k] - at) \in Int /\ Rate * (now - refilled[k]) \in Int
  BY <1>5, Products
<1>8. (refilled[k] - at) + (now - refilled[k]) = now - at
  BY <1>1, <1>4
<1>9. Rate * (now - at) = Rate * (refilled[k] - at) + Rate * (now - refilled[k])
  BY <1>7, <1>8
<1> HIDE DEF s, at
<1>10. s + Refilled(k) <= Cap + Rate * (now - at) /\ Rate * (now - at) \in Int
  BY <1>2, <1>3, <1>4, <1>5, <1>6, <1>7, <1>9
<1> QED
  BY <1>1, <1>2, <1>10 DEF s, at

LEMMA WindowsKept ==
    ASSUME TypeOK, Windows, Touched, log' = log
    PROVE  Windows'
<1>1. ASSUME NEW m \in DOMAIN log, NEW k, k = log[m].key
      PROVE  Spent(log, k, m, Len(log)) + tokens'[k] <= Cap + Rate * (refilled'[k] - log[m].at)
  <2>1. /\ Spent(log, k, m, Len(log)) + Refilled(k) <= Cap + Rate * (now - log[m].at)
        /\ Spent(log, k, m, Len(log)) \in Int /\ k \in Keys /\ Rate * (now - log[m].at) \in Int
    BY <1>1, RefillKeepsWindow
  <2>2. CASE tokens'[k] = tokens[k] /\ refilled'[k] = refilled[k]
    BY <1>1, <2>2 DEF Windows
  <2>3. CASE tokens'[k] <= Refilled(k) /\ refilled'[k] = now
    <3>1. tokens'[k] \in Nat /\ Refilled(k) \in Nat /\ Cap \in Nat
      BY <2>1, RefillFacts, Constants DEF Touched
    <3> QED
      BY <2>1, <2>3, <3>1
  <2> QED
    BY <2>1, <2>2, <2>3 DEF Touched
<1> QED
  BY <1>1 DEF Windows

\* One more dispatch, paid from a refilled bucket.
LEMMA WindowsGrow ==
    ASSUME TypeOK, Windows, Touched, NEW j \in Jobs, NEW key \in Keys,
           JobOf[j].cost <= Refilled(key), tokens'[key] = Refilled(key) - JobOf[j].cost,
           refilled'[key] = now, log' = Append(log, [job |-> j, key |-> key, at |-> now])
    PROVE  Windows'
<1> DEFINE cost == JobOf[j].cost
           n == Len(log) + 1
<1>0. /\ cost \in Nat /\ now \in Nat /\ log \in Log /\ Len(log) \in Nat /\ n \in Nat \ {0}
      /\ Refilled(key) \in 0..Cap /\ Cap \in Nat /\ Rate \in Nat
  BY JobFacts, RefillFacts, Constants DEF Windows, Log
<1>1. /\ log' \in Log /\ Len(log') = n /\ DOMAIN log' = 1..n /\ DOMAIN log = 1..Len(log)
      /\ \A i \in DOMAIN log : log'[i] = log[i] /\ i \in DOMAIN log'
      /\ log'[n] = [job |-> j, key |-> key, at |-> now]
  BY <1>0 DEF Log
<1>2. /\ \A i \in DOMAIN log : CostsOf(log')[i] = CostsOf(log)[i]
      /\ CostsOf(log')[n] = cost
  BY <1>0, <1>1 DEF CostsOf
<1>3. ASSUME NEW m \in DOMAIN log, NEW h \in DOMAIN log, NEW k
      PROVE  Spent(log', k, m, h) = Spent(log, k, m, h) /\ Spent(log, k, m, h) \in Int
  <2>1. m \in Nat \ {0} /\ h \in Nat /\ h <= Len(log)
    BY <1>1, <1>0
  <2>2. Sent(log', k, m, h) = Sent(log, k, m, h)
    BY <1>1, <2>1 DEF Sent
  <2>3. /\ IsFiniteSet(Sent(log, k, m, h)) /\ Weighed(CostsOf(log), Sent(log, k, m, h))
        /\ Sent(log, k, m, h) \subseteq DOMAIN log /\ Spent(log, k, m, h) \in Int
    BY <1>0, <2>1, SpentFacts
  <2>4. \A i \in Sent(log, k, m, h) : CostsOf(log)[i] = CostsOf(log')[i]
    BY <1>2, <2>3
  <2> QED
    BY <2>2, <2>3, <2>4, SumFacts DEF Spent
<1>4. ASSUME NEW m \in DOMAIN log, NEW k
      PROVE  /\ Spent(log', k, m, n) = IF k = key THEN Spent(log, k, m, Len(log)) + cost
                                       ELSE Spent(log, k, m, Len(log))
             /\ Spent(log, k, m, Len(log)) \in Int
  <2>1. m \in Nat \ {0} /\ m <= Len(log)
    BY <1>1, <1>0
  <2> DEFINE S == Sent(log, k, m, Len(log))
  <2>2. /\ IsFiniteSet(S) /\ Weighed(CostsOf(log), S) /\ S \subseteq DOMAIN log
        /\ SumOf(CostsOf(log), S) \in Int
    <3>1. Len(log) <= Len(log)
      BY <1>0
    <3> QED
      BY <1>0, <2>1, <3>1, SpentFacts DEF Spent
  <2>3. \A i \in S : CostsOf(log)[i] = CostsOf(log')[i]
    BY <1>2, <2>2
  <2>4. n \notin S
    BY <1>0, <1>1, <2>2
  <2>5. Sent(log', k, m, n) = IF k = key THEN S \cup {n} ELSE S
    BY <1>0, <1>1, <2>1 DEF Sent
  <2> HIDE DEF S, n
  <2>6. CASE k = key
    <3>1. CostsOf(log')[n] \in Int
      BY <1>0, <1>2
    <3>2. SumOf(CostsOf(log'), S \cup {n}) = SumOf(CostsOf(log), S) + CostsOf(log')[n]
      BY <2>2, <2>3, <2>4, <3>1, SumAdd
    <3> QED
      BY <1>2, <2>2, <2>5, <2>6, <3>2 DEF Spent, S
  <2>7. CASE k # key
    <3>1. SumOf(CostsOf(log'), S) = SumOf(CostsOf(log), S)
      BY <2>2, <2>3, SumFacts
    <3> QED
      BY <2>2, <2>5, <2>7, <3>1 DEF Spent, S
  <2> QED
    BY <2>6, <2>7
<1>5. Spent(log', key, n, n) = cost
  <2> DEFINE w == CostsOf(log')
  <2>1. Sent(log', key, n, n) = {n}
    BY <1>0, <1>1 DEF Sent
  <2>2. w[n] = cost /\ IsFiniteSet({n}) /\ IsFiniteSet({}) /\ {n} \ {n} = {}
    BY <1>2, FS_EmptySet, FS_Singleton
  <2>3. Weighed(w, {n}) /\ Weighed(w, {})
    BY <1>0, <2>2 DEF Weighed
  <2> HIDE DEF w, n, cost
  <2>4. /\ SumOf(w, {}) = 0 /\ SumOf(w, {n}) \in Int
        /\ SumOf(w, {n} \ {n}) = SumOf(w, {n}) - w[n]
    BY <2>2, <2>3, SumFacts
  <2>5. SumOf(w, {n}) = cost
    <3>1. 0 = SumOf(w, {n}) - cost
      BY <2>2, <2>4
    <3> QED
      BY <1>0, <2>4, <3>1
  <2> QED
    BY <2>1, <2>5 DEF Spent, w
<1>6. ASSUME NEW m \in DOMAIN log, NEW k, k = log[m].key
      PROVE  Spent(log', k, m, n) + tokens'[k] <= Cap + Rate * (refilled'[k] - log[m].at)
  <2>1. /\ Spent(log, k, m, Len(log)) + Refilled(k) <= Cap + Rate * (now - log[m].at)
        /\ Spent(log, k, m, Len(log)) \in Int /\ k \in Keys /\ Rate * (now - log[m].at) \in Int
    BY <1>6, RefillKeepsWindow
  <2>2. tokens'[k] \in Nat /\ Refilled(k) \in Nat
    BY <2>1, RefillFacts, Constants DEF Touched
  <2>3. CASE k = key
    <3>1. Spent(log', k, m, n) = Spent(log, k, m, Len(log)) + cost
      BY <1>4, <2>3
    <3>2. tokens'[k] = Refilled(k) - cost /\ refilled'[k] = now
      BY <2>3
    <3> HIDE DEF cost, n
    <3> QED
      BY <1>0, <2>1, <2>2, <3>1, <3>2
  <2>4. CASE k # key
    <3>1. Spent(log', k, m, n) = Spent(log, k, m, Len(log))
      BY <1>4, <2>4
    <3>2. CASE tokens'[k] = tokens[k] /\ refilled'[k] = refilled[k]
      BY <1>6, <3>1, <3>2 DEF Windows
    <3>3. CASE tokens'[k] <= Refilled(k) /\ refilled'[k] = now
      BY <1>0, <2>1, <2>2, <3>1, <3>3
    <3> QED
      BY <2>1, <3>2, <3>3 DEF Touched
  <2> QED
    BY <2>3, <2>4
<1>7. ASSUME NEW m \in DOMAIN log, log[m].key = key
      PROVE  Spent(log', key, m, n) <= Cap + Rate * (now - log[m].at)
  <2>1. /\ Spent(log, key, m, Len(log)) + Refilled(key) <= Cap + Rate * (now - log[m].at)
        /\ Spent(log, key, m, Len(log)) \in Int /\ Rate * (now - log[m].at) \in Int
    BY <1>7, RefillKeepsWindow
  <2>2. Spent(log', key, m, n) = Spent(log, key, m, Len(log)) + cost
    BY <1>4
  <2>3. cost \in Nat /\ cost <= Refilled(key) /\ Refilled(key) \in Int /\ Cap \in Nat
    BY <1>0
  <2> DEFINE window == Rate * (now - log[m].at)
             spent == Spent(log, key, m, Len(log))
  <2>4. spent + Refilled(key) <= Cap + window /\ spent \in Int /\ window \in Int
    BY <2>1
  <2> HIDE DEF cost, n, window, spent
  <2>5. spent + cost <= Cap + window
    BY <2>3, <2>4
  <2> QED
    BY <2>2, <2>5 DEF window, spent
<1>8. /\ Spent(log', key, n, n) + tokens'[key] <= Cap + Rate * (refilled'[key] - now)
      /\ Spent(log', key, n, n) <= Cap + Rate * (now - now)
  <2>1. now - now = 0 /\ Rate * 0 = 0 /\ cost <= Cap
    BY <1>0, JobFacts
  <2>2. cost + (Refilled(key) - cost) <= Cap
    BY <1>0
  <2> HIDE DEF cost, n
  <2> QED
    BY <1>0, <1>5, <2>1, <2>2 DEF cost
<1>9. ASSUME NEW m \in DOMAIN log'
      PROVE  LET k == log'[m].key IN
               Spent(log', k, m, Len(log')) + tokens'[k] <= Cap + Rate * (refilled'[k] - log'[m].at)
  <2>1. CASE m \in DOMAIN log
    BY <1>1, <1>6, <2>1
  <2>2. CASE m = n
    BY <1>1, <1>8, <2>2
  <2> QED
    BY <1>0, <1>1, <2>1, <2>2
<1>10. ASSUME NEW m \in DOMAIN log', NEW h \in DOMAIN log', log'[m].key = log'[h].key, m <= h
       PROVE  Spent(log', log'[h].key, m, h) <= Cap + Rate * (log'[h].at - log'[m].at)
  <2>1. CASE h \in DOMAIN log
    <3>1. m \in DOMAIN log
      BY <1>0, <1>1, <1>10, <2>1
    <3> QED
      BY <1>1, <1>3, <1>10, <2>1, <3>1 DEF Windows
  <2>2. CASE h = n /\ m \in DOMAIN log
    BY <1>1, <1>7, <1>10, <2>2
  <2>3. CASE h = n /\ m = n
    BY <1>1, <1>8, <2>3
  <2> QED
    BY <1>0, <1>1, <2>1, <2>2, <2>3
<1> QED
  BY <1>1, <1>9, <1>10 DEF Windows
-----------------------------------------------------------------------------
(* Sleeping dispatchers *)

LEMMA AsleepSelects ==
    ASSUME TypeOK, Pool, NEW t \in Int, now < t, Asleep(t)
    PROVE  Expired = {} /\ DueEntries = ready /\ StillFuture = future /\ Selection.job = NoJob
<1>0. now \in Nat /\ ready \cap future = {}
  BY Constants DEF TypeOK, Pool, IndexAgrees
<1>1. Expired = {}
  <2>1. ASSUME NEW j \in Pending PROVE ~Late(j)
    <3>1. JobOf[j].deadline \in Nat /\ t <= JobOf[j].deadline + 1
      BY JobFacts DEF Asleep, Pending
    <3> QED
      BY <1>0, <3>1 DEF Late
  <2> QED
    BY <2>1 DEF Expired
<1>2. ASSUME NEW e \in future PROVE ~(JobOf[e.job].ready <= now)
  <2>1. JobOf[e.job].ready \in Nat /\ t <= JobOf[e.job].ready
    BY EntryFacts, JobFacts DEF Asleep
  <2> QED
    BY <1>0, <2>1
<1>3. DueEntries = ready /\ StillFuture = future
  BY <1>0, <1>1, <1>2 DEF DueEntries, StillFuture, Without
<1>4. Found(DueEntries, DueEntries, Selection)
  BY EntryFacts, SelectionFacts
<1>5. CASE SentOne(DueEntries, Selection)
  <2>1. PICK e \in ready :
           /\ Selection.key \in JobOf[e.job].eligible /\ JobOf[e.job].cost <= Refilled(Selection.key)
           /\ \A f \in ready : Before(RankOf(f), RankOf(e)) => Selection.key \notin JobOf[f.job].eligible
    BY <1>3, <1>5 DEF SentOne
  <2> DEFINE k == Selection.key
  <2> HIDE DEF k
  <2>2. PICK f \in ready : /\ ~Before(RankOf(e), RankOf(f)) /\ k \in JobOf[f.job].eligible
                           /\ tokens[k] + rate[k] * (t - 1 - refilled[k]) < JobOf[f.job].cost
    BY <2>1 DEF Asleep, k
  <2>3. e = f
    <3>1. e.seq = f.seq
      BY <2>1, <2>2, EntryFacts, BeforeFacts DEF k
    <3> QED
      BY <3>1, EntryFacts
  <2>4. e.job \in Jobs /\ k \in Keys /\ JobOf[e.job].cost \in Nat
    BY <2>1, EntryFacts, JobFacts DEF k
  <2>5. /\ Refilled(k) \in 0..Cap /\ tokens[k] \in 0..Cap /\ refilled[k] \in 0..now
        /\ rate[k] \in Nat \ {0} /\ Refilled(k) <= tokens[k] + rate[k] * (now - refilled[k])
    BY <2>4, RefillFacts
  <2>6. /\ rate[k] * (now - refilled[k]) <= rate[k] * (t - 1 - refilled[k])
        /\ rate[k] * (now - refilled[k]) \in Int /\ rate[k] * (t - 1 - refilled[k]) \in Int
    <3>1. /\ now - refilled[k] \in Int /\ t - 1 - refilled[k] \in Int
          /\ now - refilled[k] <= t - 1 - refilled[k]
      BY <1>0, <2>5
    <3> QED
      BY <2>5, <3>1, Products
  <2>7. JobOf[e.job].cost <= Refilled(k)
    BY <2>1 DEF k
  <2> QED
    BY <2>2, <2>3, <2>4, <2>5, <2>6, <2>7, Constants
<1>6. CASE BlockedAll(DueEntries, Selection)
  BY <1>1, <1>3, <1>6 DEF BlockedAll
<1> QED
  BY <1>1, <1>3, <1>4, <1>5, <1>6 DEF Found

\* Buckets that others refill, charge or slow down pay no earlier.
LEMMA AsleepKept ==
    ASSUME TypeOK, NEW t \in Int, now < t, Asleep(t), Touched, Slowed,
           ready' = ready, future' = future, seq' = seq
    PROVE  Asleep(t)'
<1>0. now \in Nat /\ Pending' = Pending
  BY Constants DEF TypeOK, Pending
<1>1. ASSUME NEW k \in Keys
      PROVE  /\ tokens'[k] + rate'[k] * (t - 1 - refilled'[k])
                   <= tokens[k] + rate[k] * (t - 1 - refilled[k])
             /\ tokens'[k] + rate'[k] * (t - 1 - refilled'[k]) \in Int
             /\ tokens[k] + rate[k] * (t - 1 - refilled[k]) \in Int
  <2>1. /\ Refilled(k) \in Nat /\ tokens[k] \in Nat /\ refilled[k] \in Nat /\ refilled[k] <= now
        /\ rate[k] \in Nat /\ Refilled(k) <= tokens[k] + rate[k] * (now - refilled[k])
    BY RefillFacts, Constants
  <2>2. tokens'[k] \in Nat /\ rate'[k] \in Nat /\ rate'[k] <= rate[k]
    BY Constants DEF Touched, Slowed
  <2>3. t - 1 - refilled[k] \in Nat /\ t - 1 - now \in Nat /\ now - refilled[k] \in Nat
    BY <1>0, <2>1
  <2>4. /\ rate'[k] * (t - 1 - refilled[k]) <= rate[k] * (t - 1 - refilled[k])
        /\ rate'[k] * (t - 1 - refilled[k]) \in Nat /\ rate[k] * (t - 1 - refilled[k]) \in Nat
        /\ rate'[k] * (t - 1 - now) <= rate[k] * (t - 1 - now)
        /\ rate'[k] * (t - 1 - now) \in Nat /\ rate[k] * (t - 1 - now) \in Nat
        /\ rate[k] * (now - refilled[k]) \in Nat
    BY <2>1, <2>2, <2>3, Rates
  <2>5. CASE tokens'[k] = tokens[k] /\ refilled'[k] = refilled[k]
    BY <2>1, <2>2, <2>4, <2>5
  <2>6. CASE tokens'[k] <= Refilled(k) /\ refilled'[k] = now
    <3>1. (now - refilled[k]) + (t - 1 - now) = t - 1 - refilled[k]
      BY <1>0, <2>1
    <3>2. rate[k] * ((now - refilled[k]) + (t - 1 - now))
             = rate[k] * (now - refilled[k]) + rate[k] * (t - 1 - now)
      BY <2>1, <2>3, Products
    <3>3. rate[k] * (t - 1 - refilled[k])
             = rate[k] * (now - refilled[k]) + rate[k] * (t - 1 - now)
      BY <3>1, <3>2
    <3>4. tokens'[k] + rate'[k] * (t - 1 - now) <= tokens[k] + rate[k] * (t - 1 - refilled[k])
      BY <2>1, <2>2, <2>4, <2>6, <3>3
    <3> QED
      BY <2>1, <2>2, <2>4, <2>6, <3>4
  <2> QED
    BY <2>5, <2>6 DEF Touched
<1>2. ASSUME NEW e \in ready, NEW k \in JobOf[e.job].eligible
      PROVE  \E f \in ready : /\ ~Before(RankOf(e), RankOf(f)) /\ k \in JobOf[f.job].eligible
                              /\ tokens'[k] + rate'[k] * (t - 1 - refilled'[k]) < JobOf[f.job].cost
  <2>1. PICK f \in ready : /\ ~Before(RankOf(e), RankOf(f)) /\ k \in JobOf[f.job].eligible
                           /\ tokens[k] + rate[k] * (t - 1 - refilled[k]) < JobOf[f.job].cost
    BY <1>2 DEF Asleep
  <2>2. f.job \in Jobs
    BY <2>1 DEF TypeOK
  <2>3. k \in Keys /\ JobOf[f.job].cost \in Nat
    BY <2>1, <2>2, JobFacts
  <2>4. tokens'[k] + rate'[k] * (t - 1 - refilled'[k]) < JobOf[f.job].cost
    BY <1>1, <2>1, <2>3
  <2> QED
    BY <2>1, <2>4
<1> QED
  BY <1>0, <1>2 DEF Asleep, RankOf
-----------------------------------------------------------------------------
(* A turn of the dispatch loop *)

\* What a selection leaves behind, whether it sends a job or not.
LEMMA SelectedFacts ==
    ASSUME IInv, Selected(Selection), UNCHANGED <<now, count, rate>>
    PROVE  /\ Pool' /\ Windows' /\ Touched /\ Slowed
           /\ seq' \in [Jobs -> 0..count'] /\ index' \in [LogicalKeys -> Jobs \cup {NoJob}]
           /\ ready' \cup future' \subseteq [job : Jobs, seq : 1..count']
           /\ Found(DueEntries, DueEntries, Selection)
           /\ Pending' = (Pending \ Expired) \ {Selection.job}
           /\ ready' = Without(DueEntries, {Selection.job}) /\ future' = StillFuture
<1> DEFINE s == Selection
           gone == Expired \cup ({s.job} \ {NoJob})
<1> HIDE DEF s
<1>0. TypeOK /\ Pool /\ Windows
  BY DEF IInv
<1>1. Found(DueEntries, DueEntries, s)
  BY <1>0, EntryFacts, SelectionFacts DEF s
<1>2. s \in Accs(DueEntries) /\ s.stale = {} /\ s.job \in Jobs \cup {NoJob} /\ s.tried \subseteq Keys
  BY <1>1 DEF Found, Accs
<1>3. /\ seq' = SeqWithout(gone) /\ index' = IndexWithout(gone)
      /\ ready' = Without(DueEntries, gone) \ s.stale /\ future' = StillFuture
      /\ tokens' = [k \in Keys |-> IF k = s.key THEN Refilled(k) - JobOf[s.job].cost
                                  ELSE IF k \in s.tried THEN Refilled(k) ELSE tokens[k]]
      /\ refilled' = Stamp(s.tried)
      /\ log' = IF s.job = NoJob THEN log ELSE Append(log, [job |-> s.job, key |-> s.key, at |-> now])
  BY DEF Selected, s
<1>4. gone \in SUBSET Jobs /\ NoJob \notin gone
  BY <1>2, Constants DEF Expired, Pending
<1>5. \A e \in ready \cup future : e.job \in Jobs
  BY <1>0, EntryFacts
<1>6. s.job # NoJob => \E e \in DueEntries : s.job = e.job
  BY <1>1 DEF Found, SentOne, BlockedAll
<1>7. /\ DueEntries \cup StillFuture = Without(ready \cup future, Expired)
      /\ DueEntries \cap StillFuture = {}
  BY DEF DueEntries, StillFuture, Without
<1>8. \A e \in StillFuture : e.job # s.job
  <2>1. \A e, f \in ready \cup future : e.job = f.job => e = f
    BY <1>0, EntryFacts
  <2>2. \A e \in StillFuture : e.job \in Jobs
    BY <1>5 DEF StillFuture, Without
  <2> QED
    BY <1>6, <1>7, <2>1, <2>2, Constants DEF Without
<1>9. ready' = Without(DueEntries, {s.job}) /\ \A e \in DueEntries : e.job \notin Expired
  <2>1. \A e \in DueEntries : e.job \notin Expired /\ e.job \in Jobs
    BY <1>5 DEF Without, DueEntries
  <2> QED
    BY <1>2, <1>3, <2>1, Constants DEF Without
<1>10. ready' \cup future' = Without(ready \cup future, gone) /\ ready' \cap future' = {}
  <2>1. Without(ready \cup future, gone) = Without(Without(ready \cup future, Expired), {s.job})
    BY <1>5, Constants DEF Without
  <2>2. Without(StillFuture, {s.job}) = StillFuture
    BY <1>8 DEF Without
  <2> QED
    BY <1>3, <1>7, <1>9, <2>1, <2>2 DEF Without
<1>11. /\ Pool' /\ Pending' = Pending \ gone
       /\ seq' \in [Jobs -> 0..count'] /\ index' \in [LogicalKeys -> Jobs \cup {NoJob}]
       /\ ready' \cup future' \subseteq [job : Jobs, seq : 1..count']
  <2> HIDE DEF gone
  <2> QED
    BY <1>0, <1>3, <1>4, <1>10, PoolRemoval
<1>12. Pending' = (Pending \ Expired) \ {s.job}
  BY <1>11, Constants DEF Pending
<1>13. now \in Nat /\ refilled \in [Keys -> 0..now] /\ \A k \in Keys : Refilled(k) \in 0..Cap /\ tokens[k] \in 0..Cap
  BY <1>0, RefillFacts, Constants DEF TypeOK
<1>14. refilled' \in [Keys -> 0..now'] /\ \A k \in Keys : refilled'[k] = IF k \in s.tried THEN now ELSE refilled[k]
  BY <1>3, <1>13 DEF Stamp
<1>15. Slowed
  BY <1>0, Constants DEF Slowed, TypeOK
<1>16. CASE BlockedAll(DueEntries, s)
  <2>1. s.job = NoJob /\ s.key \notin Keys
    BY <1>16, Constants DEF BlockedAll
  <2>2. \A k \in Keys : tokens'[k] = IF k \in s.tried THEN Refilled(k) ELSE tokens[k]
    BY <1>3, <2>1
  <2>3. tokens' \in [Keys -> 0..Cap]
    BY <1>3, <1>13, <2>1
  <2>4. Touched
    BY <1>13, <1>14, <2>2, <2>3 DEF Touched
  <2>5. Windows'
    BY <1>0, <1>3, <2>1, <2>4, WindowsKept
  <2> QED
    BY <1>1, <1>3, <1>9, <1>11, <1>12, <1>15, <2>4, <2>5 DEF s
<1>17. CASE SentOne(DueEntries, s)
  <2>1. PICK e \in DueEntries : /\ s.job = e.job /\ s.key \in JobOf[e.job].eligible /\ s.key \in s.tried
                                /\ JobOf[e.job].cost <= Refilled(s.key)
    BY <1>17 DEF SentOne
  <2>2. s.job \in Jobs /\ s.key \in Keys /\ JobOf[s.job].cost \in Nat
    BY <1>0, <2>1, EntryFacts, JobFacts
  <2>3. /\ s.job # NoJob /\ JobOf[s.job].cost <= Refilled(s.key)
        /\ Refilled(s.key) - JobOf[s.job].cost \in 0..Cap
    BY <1>13, <2>1, <2>2, Constants
  <2>4. \A k \in Keys : tokens'[k] = IF k = s.key THEN Refilled(k) - JobOf[s.job].cost
                                     ELSE IF k \in s.tried THEN Refilled(k) ELSE tokens[k]
    BY <1>3
  <2>5. tokens' \in [Keys -> 0..Cap]
    BY <1>3, <1>13, <2>3
  <2>6. ASSUME NEW k \in Keys
        PROVE  \/ tokens'[k] = tokens[k] /\ refilled'[k] = refilled[k]
               \/ tokens'[k] <= Refilled(k) /\ refilled'[k] = now
    <3>1. CASE k = s.key
      BY <1>13, <1>14, <2>1, <2>2, <2>3, <2>4, <3>1
    <3>2. CASE k # s.key
      BY <1>13, <1>14, <2>4, <3>2
    <3> QED
      BY <3>1, <3>2
  <2>7. Touched
    BY <1>14, <2>5, <2>6 DEF Touched
  <2>8. /\ tokens'[s.key] = Refilled(s.key) - JobOf[s.job].cost /\ refilled'[s.key] = now
        /\ log' = Append(log, [job |-> s.job, key |-> s.key, at |-> now])
    BY <1>3, <1>14, <2>1, <2>2, <2>3, <2>4
  <2>9. Windows'
    <3>1. PICK j \in Jobs, key \in Keys : j = s.job /\ key = s.key
      BY <2>2
    <3> QED
      BY <1>0, <2>3, <2>7, <2>8, <3>1, WindowsGrow
  <2> QED
    BY <1>1, <1>3, <1>9, <1>11, <1>12, <1>15, <2>7, <2>9 DEF s
<1> QED
  BY <1>1, <1>16, <1>17 DEF Found

\* A dispatcher that finds nothing arms a wait that ends ahead, before anything
\* it left in the pool can be dispatched.
LEMMA ArmedFacts ==
    ASSUME IInv, Selected(Selection), UNCHANGED <<now, count, rate>>, Selection.job = NoJob,
           NEW t, t = WakeAt(Pending \ Expired, StillFuture, Selection.wake)
    PROVE  t \in 0..Never /\ t > now /\ Asleep(t)'
<1> DEFINE s == Selection
           due == {JobOf[e.job].ready : e \in StillFuture}
           ends == {JobOf[j].deadline + 1 : j \in Pending \ Expired}
           times == {s.wake} \cup due \cup ends
<1>0. TypeOK /\ Pool
  BY DEF IInv
<1>1. /\ Found(DueEntries, DueEntries, s) /\ Pending' = Pending \ Expired
      /\ ready' = DueEntries /\ future' = StillFuture
  <2>1. \A e \in DueEntries : e.job \in Jobs
    BY <1>0, EntryFacts
  <2>2. Pending \subseteq Jobs
    BY DEF Pending
  <2> QED
    BY <2>1, <2>2, SelectedFacts, Constants DEF Without
<1>2. s.job = NoJob
  OBVIOUS
<1> HIDE DEF s
<1>3. /\ BlockedAll(DueEntries, s) /\ s.wake \in Nat /\ s.wake <= Never /\ s.tried \subseteq Keys
  <2>1. ~SentOne(DueEntries, s)
    BY <1>0, <1>2, EntryFacts, Constants DEF SentOne, Heap
  <2> QED
    BY <1>1, <2>1 DEF Found, Accs
<1>4. now \in Nat /\ s.wake > now
  BY <1>0, <1>3, Constants DEF TypeOK, BlockedAll
<1>5. ASSUME NEW e \in StillFuture PROVE JobOf[e.job].ready \in Nat /\ JobOf[e.job].ready > now
  <2>1. e \in future /\ e.job \in Jobs /\ ~(JobOf[e.job].ready <= now)
    BY <1>0, EntryFacts DEF StillFuture, DueEntries, Without
  <2> QED
    BY <1>4, <2>1, JobFacts
<1>6. ASSUME NEW j \in Pending \ Expired
      PROVE  JobOf[j].deadline + 1 \in Nat /\ JobOf[j].deadline + 1 > now
  <2>1. j \in Jobs /\ ~(now > JobOf[j].deadline)
    BY DEF Pending, Expired, Late
  <2> QED
    BY <1>4, <2>1, JobFacts
<1>7. t = Min(times)
  BY DEF WakeAt, s
<1>8. times \subseteq Nat /\ times # {} /\ \A x \in times : x > now
  BY <1>3, <1>4, <1>5, <1>6
<1>9. s.wake \in times /\ due \subseteq times /\ ends \subseteq times
  OBVIOUS
<1> HIDE DEF times
<1>10. t \in times /\ t \in Nat /\ \A x \in times : t <= x
  BY <1>7, <1>8, MinFacts
<1>11. t \in 0..Never /\ t > now /\ t <= s.wake
  <2>1. t <= s.wake /\ t > now /\ t \in Nat
    BY <1>8, <1>9, <1>10
  <2> QED
    BY <1>3, <2>1, Constants
<1>12. \A j \in Pending' : t <= JobOf[j].deadline + 1
  BY <1>1, <1>9, <1>10
<1>13. \A e \in future' : t <= JobOf[e.job].ready
  BY <1>1, <1>9, <1>10
<1>14. ASSUME NEW e \in ready', NEW k \in JobOf[e.job].eligible
       PROVE  \E f \in ready' : /\ ~Before(RankOf(e), RankOf(f)) /\ k \in JobOf[f.job].eligible
                                /\ tokens'[k] + rate'[k] * (t - 1 - refilled'[k]) < JobOf[f.job].cost
  <2>1. PICK f \in DueEntries :
           /\ ~Before(RankOf(e), RankOf(f)) /\ k \in JobOf[f.job].eligible /\ k \in s.tried
           /\ Refilled(k) < JobOf[f.job].cost /\ s.wake <= ReadyAt(k, JobOf[f.job].cost)
    BY <1>1, <1>3, <1>14 DEF BlockedAll
  <2>2. f.job \in Jobs /\ k \in Keys /\ JobOf[f.job].cost \in Nat
    BY <1>0, <2>1, EntryFacts, JobFacts DEF Heap
  <2>3. tokens'[k] = Refilled(k) /\ refilled'[k] = now /\ rate'[k] = rate[k]
    <3>1. s.key \notin Keys
      BY <1>3, Constants DEF BlockedAll
    <3> QED
      BY <2>1, <2>2, <3>1 DEF Selected, Stamp, s
  <2>4. ReadyAt(k, JobOf[f.job].cost) \in Nat
    BY <1>0, <2>1, <2>2, ReadyAtFacts
  <2>5. now < t /\ t <= ReadyAt(k, JobOf[f.job].cost) /\ t \in Nat
    BY <1>3, <1>4, <1>10, <1>11, <2>1, <2>4
  <2>6. Refilled(k) + rate[k] * (t - 1 - now) < JobOf[f.job].cost
    BY <1>0, <2>1, <2>2, <2>5, ReadyAtFacts
  <2> QED
    BY <1>1, <2>1, <2>3, <2>6
<1> QED
  BY <1>11, <1>12, <1>13, <1>14 DEF Asleep, RankOf
-----------------------------------------------------------------------------
(* Every step keeps the invariant *)

\* Waits that nobody interrupts stay sound while the pool is left alone and the
\* buckets are only charged or slowed down.
LEMMA WaitsKept ==
    ASSUME TypeOK, Waits, Touched, Slowed, now' \in Nat, now <= now',
           ready' = ready, future' = future, seq' = seq,
           \A d \in Dispatchers : armed'[d] \in {armed[d], Running}
    PROVE  Waits'
<1> SUFFICES ASSUME NEW d \in Dispatchers, now' < armed'[d] PROVE Asleep(armed[d])'
  BY DEF Waits
<1>1. now \in Nat /\ armed[d] \in {Running} \cup 0..Never /\ armed'[d] \in {armed[d], Running}
  BY Constants DEF TypeOK
<1>2. armed'[d] = armed[d] /\ armed[d] \in Int /\ now < armed[d]
  BY <1>1, Constants
<1>3. PICK t \in Int : t = armed[d]
  BY <1>2
<1>4. now < t /\ Asleep(t)
  BY <1>2, <1>3 DEF Waits
<1>5. Asleep(t)'
  BY <1>4, AsleepKept
<1> QED
  BY <1>2, <1>3, <1>5 DEF Asleep

\* Nobody waits after a notification.
LEMMA WaitsWoken ==
    ASSUME now' \in Nat, armed' = Notified
    PROVE  Waits' /\ armed' \in [Dispatchers -> {Running} \cup 0..Never]
<1>1. \A d \in Dispatchers : ~(now' < armed'[d])
  BY Constants DEF Notified
<1> QED
  BY <1>1 DEF Waits, Notified

LEMMA InitIInv == Init => IInv
<1> SUFFICES ASSUME Init PROVE IInv
  OBVIOUS
<1>1. TypeOK
  <2>1. /\ now \in 0..MaxTime /\ count \in 0..MaxSubmits /\ changes \in 0..MaxChanges
        /\ seq \in [Jobs -> 0..count] /\ index \in [LogicalKeys -> Jobs \cup {NoJob}]
    BY Constants DEF Init
  <2>2. ready \cup future = {} /\ closed \in BOOLEAN
    BY DEF Init
  <2>3. /\ tokens \in [Keys -> 0..Cap] /\ rate \in [Keys -> Floor..Rate] /\ refilled \in [Keys -> 0..now]
        /\ armed \in [Dispatchers -> {Running} \cup 0..Never]
    BY Constants DEF Init
  <2> QED
    BY <2>1, <2>2, <2>3 DEF TypeOK
<1>2. Pending = {} /\ ready = {} /\ future = {}
  BY DEF Init, Pending
<1>3. Pool
  BY <1>2, FS_EmptySet DEF Init, Pool, IndexAgrees
<1>4. Waits
  BY Constants DEF Init, Waits
<1>5. Windows
  <2>1. log \in Log /\ DOMAIN log = {}
    BY DEF Init, Log
  <2> QED
    BY <2>1 DEF Windows
<1> QED
  BY <1>1, <1>3, <1>4, <1>5 DEF IInv

LEMMA ReplacedFacts ==
    ASSUME TypeOK, Pool, NEW j \in Jobs
    PROVE  /\ Replaced(j) \subseteq Jobs
           /\ \A i \in Replaced(j) : i \in Pending /\ JobOf[i].replaceable
                                      /\ JobOf[i].lkey = JobOf[j].lkey /\ JobOf[j].replaceable
<1>1. CASE JobOf[j].replaceable
  <2>1. JobOf[j].lkey \in LogicalKeys
    BY <1>1, JobFacts
  <2> QED
    BY <1>1, <2>1 DEF TypeOK, Pool, IndexAgrees, Replaced
<1>2. CASE ~JobOf[j].replaceable
  BY <1>2 DEF Replaced
<1> QED
  BY <1>1, <1>2

LEMMA SubmitStep ==
    ASSUME IInv, NEW j \in Jobs, Submit(j)
    PROVE  IInv'
<1>0. TypeOK /\ Pool /\ Waits /\ Windows
  BY DEF IInv
<1>1. /\ seq[j] = 0 /\ count < MaxSubmits /\ UNCHANGED <<now, bucketVars, closed, log, changes>>
      /\ SubmitLate(j) \/ SubmitInTime(j)
  BY DEF Submit
<1>2. /\ now' \in Nat /\ now <= now' /\ now' \in 0..MaxTime /\ closed' \in BOOLEAN /\ changes' \in 0..MaxChanges
      /\ count \in Nat /\ count \in 0..MaxSubmits /\ armed \in [Dispatchers -> {Running} \cup 0..Never]
  BY <1>0, <1>1, Constants DEF TypeOK
<1>3. /\ Touched /\ Slowed /\ tokens' \in [Keys -> 0..Cap] /\ rate' \in [Keys -> Floor..Rate]
      /\ refilled' \in [Keys -> 0..now']
  <2>1. /\ tokens \in [Keys -> 0..Cap] /\ rate \in [Keys -> Floor..Rate] /\ refilled \in [Keys -> 0..now]
        /\ tokens' = tokens /\ rate' = rate /\ refilled' = refilled /\ now' = now
    BY <1>0, <1>1 DEF TypeOK, bucketVars
  <2>2. \A k \in Keys : rate[k] <= rate[k]
    BY <2>1, Constants
  <2> QED
    BY <2>1, <2>2 DEF Touched, Slowed
<1>4. Windows'
  BY <1>0, <1>1, <1>3, WindowsKept
<1>5. /\ Replaced(j) \subseteq Jobs
  BY <1>0, ReplacedFacts
<1>6. ASSUME NEW gone, gone = {}
      PROVE  SeqWithout(gone) = seq /\ Without(ready, gone) = ready /\ Without(future, gone) = future
  <2>1. seq = [i \in Jobs |-> seq[i]]
    BY <1>0 DEF TypeOK
  <2> QED
    BY <1>6, <2>1 DEF SeqWithout, Without
<1>7. SUFFICES /\ Pool' /\ Waits' /\ count' \in 0..MaxSubmits
               /\ seq' \in [Jobs -> 0..count'] /\ index' \in [LogicalKeys -> Jobs \cup {NoJob}]
               /\ ready' \cup future' \subseteq [job : Jobs, seq : 1..count']
               /\ armed' \in [Dispatchers -> {Running} \cup 0..Never]
  BY <1>2, <1>3, <1>4 DEF IInv, TypeOK
<1>8. CASE SubmitLate(j)
  <2>1. /\ seq' = SeqWithout(Replaced(j)) /\ index' = IndexWithout(Replaced(j)) /\ count' = count
        /\ future' = Without(future, Replaced(j)) /\ ready' = Without(ready, Replaced(j))
        /\ armed' = IF Replaced(j) # {} THEN Notified ELSE armed
    BY <1>8 DEF SubmitLate
  <2>2. ready' \cup future' = Without(ready \cup future, Replaced(j)) /\ ready' \cap future' = {}
    BY <1>0, <2>1 DEF Without, Pool, IndexAgrees
  <2>3. /\ Pool' /\ seq' \in [Jobs -> 0..count'] /\ index' \in [LogicalKeys -> Jobs \cup {NoJob}]
        /\ ready' \cup future' \subseteq [job : Jobs, seq : 1..count']
    BY <1>0, <1>5, <2>1, <2>2, PoolRemoval
  <2>4. Waits' /\ armed' \in [Dispatchers -> {Running} \cup 0..Never]
    <3>1. CASE Replaced(j) # {}
      BY <1>2, <2>1, <3>1, WaitsWoken
    <3>2. CASE Replaced(j) = {}
      BY <1>0, <1>2, <1>3, <1>6, <2>1, <3>2, WaitsKept
    <3> QED
      BY <3>1, <3>2
  <2> QED
    BY <1>2, <2>1, <2>3, <2>4
<1>9. CASE SubmitInTime(j)
  <2> DEFINE left == Pending \ Expired
             full == Replaced(j) \cap left = {} /\ Cardinality(left) >= MaxPending
             refused == full /\ Evictable(j, left) = {}
             victims == {i \in Evictable(j, left) : \A h \in Evictable(j, left) : ~Before(Rank(i), Rank(h))}
             gone == Expired \cup Replaced(j) \cup (IF full THEN victims ELSE {})
             added == IF refused THEN {} ELSE {[job |-> j, seq |-> count + 1]}
             due == JobOf[j].ready <= now
  <2>1. /\ count' = IF refused THEN count ELSE count + 1
        /\ seq' = IF refused THEN SeqWithout(gone) ELSE [SeqWithout(gone) EXCEPT ![j] = count + 1]
        /\ index' = [l \in LogicalKeys |->
                       IF ~refused /\ JobOf[j].replaceable /\ l = JobOf[j].lkey THEN j
                       ELSE IndexWithout(gone)[l]]
        /\ ready' = Without(ready, gone) \cup (IF due THEN added ELSE {})
        /\ future' = Without(future, gone) \cup (IF due THEN {} ELSE added)
        /\ armed' = IF refused /\ gone = {} THEN armed ELSE Notified
    BY <1>9 DEF SubmitInTime
  <2>2. gone \in SUBSET Jobs /\ Replaced(j) \subseteq gone
    BY <1>5 DEF Evictable, Expired, Pending
  <2>3. /\ added = IF refused THEN {} ELSE {[job |-> j, seq |-> count + 1]}
        /\ due \in BOOLEAN
    OBVIOUS
  <2> HIDE DEF gone, refused, added, due
  <2>4. ready' \cup future' = Without(ready \cup future, gone) \cup added
    BY <2>1, <2>3 DEF Without
  <2>5. ready' \cap future' = {}
    <3>1. \A e \in ready \cup future : e \notin added
      <4>1. \A e \in ready \cup future : e.job # j
        BY <1>0, <1>1, EntryFacts DEF Pending
      <4> QED
        BY <2>3, <4>1
    <3> QED
      BY <1>0, <2>1, <3>1 DEF Without, Pool, IndexAgrees
  <2>6. CASE refused
    <3>1. IndexWithout(gone) = [l \in LogicalKeys |-> IndexWithout(gone)[l]]
      BY DEF IndexWithout
    <3>2. /\ count' = count /\ seq' = SeqWithout(gone) /\ index' = IndexWithout(gone)
          /\ ready' = Without(ready, gone) /\ future' = Without(future, gone)
      BY <2>1, <2>3, <2>6, <3>1
    <3>3. ready' \cup future' = Without(ready \cup future, gone)
      BY <2>3, <2>4, <2>6
    <3>4. /\ Pool' /\ seq' \in [Jobs -> 0..count'] /\ index' \in [LogicalKeys -> Jobs \cup {NoJob}]
          /\ ready' \cup future' \subseteq [job : Jobs, seq : 1..count']
      BY <1>0, <2>2, <2>5, <3>2, <3>3, PoolRemoval
    <3>5. Waits' /\ armed' \in [Dispatchers -> {Running} \cup 0..Never]
      <4>1. CASE gone # {}
        BY <1>2, <2>1, <4>1, WaitsWoken
      <4>2. CASE gone = {}
        BY <1>0, <1>2, <1>3, <1>6, <2>1, <2>6, <3>2, <4>2, WaitsKept
      <4> QED
        BY <4>1, <4>2
    <3> QED
      BY <1>2, <3>2, <3>4, <3>5
  <2>7. CASE ~refused
    <3>1. /\ count' = count + 1 /\ seq' = [SeqWithout(gone) EXCEPT ![j] = count + 1]
          /\ index' = [l \in LogicalKeys |-> IF JobOf[j].replaceable /\ l = JobOf[j].lkey THEN j
                                             ELSE IndexWithout(gone)[l]]
          /\ ready' \cup future' = Without(ready \cup future, gone) \cup {[job |-> j, seq |-> count + 1]}
          /\ armed' = Notified
      BY <2>1, <2>3, <2>4, <2>7
    <3>2. /\ Pool' /\ seq' \in [Jobs -> 0..count'] /\ index' \in [LogicalKeys -> Jobs \cup {NoJob}]
          /\ ready' \cup future' \subseteq [job : Jobs, seq : 1..count']
      BY <1>0, <1>1, <2>2, <2>5, <3>1, PoolAddition
    <3>3. Waits' /\ armed' \in [Dispatchers -> {Running} \cup 0..Never]
      BY <1>2, <3>1, WaitsWoken
    <3>4. count' \in 0..MaxSubmits
      BY <1>1, <1>2, <3>1, Constants
    <3> QED
      BY <3>2, <3>3, <3>4
  <2> QED
    BY <2>6, <2>7
<1> QED
  BY <1>1, <1>8, <1>9

\* A selection by one dispatcher leaves what the others wait for as it is.
LEMMA SleepersUndisturbed ==
    ASSUME IInv, Selected(Selection), UNCHANGED <<now, count, rate>>,
           NEW t \in Int, now < t, Asleep(t)
    PROVE  Asleep(t)' /\ Selection.job = NoJob
<1>0. TypeOK /\ Pool
  BY DEF IInv
<1>1. Expired = {} /\ DueEntries = ready /\ StillFuture = future /\ Selection.job = NoJob
  BY <1>0, AsleepSelects
<1>2. /\ Touched /\ Slowed /\ ready' = Without(DueEntries, {Selection.job}) /\ future' = StillFuture
  BY SelectedFacts
<1>3. ready' = ready /\ future' = future
  <2>1. \A e \in ready : e.job # NoJob
    BY <1>0, EntryFacts, Constants
  <2> QED
    BY <1>1, <1>2, <2>1 DEF Without
<1>4. seq' = seq
  <2>1. seq' = SeqWithout({}) /\ seq = [i \in Jobs |-> seq[i]]
    BY <1>0, <1>1 DEF Selected, TypeOK
  <2> QED
    BY <2>1 DEF SeqWithout
<1> QED
  BY <1>0, <1>1, <1>2, <1>3, <1>4, AsleepKept

LEMMA NextReadyStep ==
    ASSUME IInv, NEW d \in Dispatchers, NextReady(d)
    PROVE  IInv' /\ ArmedAhead
<1>0. TypeOK /\ Waits
  BY DEF IInv
<1>1. /\ Selected(Selection) /\ UNCHANGED <<now, count, rate>> /\ closed' = closed /\ changes' = changes
      /\ \/ Selection.job # NoJob /\ armed' = armed
         \/ /\ Selection.job = NoJob
            /\ armed' = [armed EXCEPT ![d] = WakeAt(Pending \ Expired, StillFuture, Selection.wake)]
  BY DEF NextReady
<1>2. /\ Pool' /\ Windows' /\ Touched /\ Slowed
      /\ seq' \in [Jobs -> 0..count'] /\ index' \in [LogicalKeys -> Jobs \cup {NoJob}]
      /\ ready' \cup future' \subseteq [job : Jobs, seq : 1..count']
  BY <1>1, SelectedFacts
<1>3. now \in Nat /\ armed \in [Dispatchers -> {Running} \cup 0..Never]
  BY <1>0, Constants DEF TypeOK
<1> DEFINE wake == WakeAt(Pending \ Expired, StillFuture, Selection.wake)
<1>4. Selection.job = NoJob => wake \in 0..Never /\ wake > now
  BY <1>1, ArmedFacts
<1>5. armed' \in [Dispatchers -> {Running} \cup 0..Never]
  <2> HIDE DEF wake
  <2> QED
    BY <1>1, <1>3, <1>4 DEF wake
<1>6. ASSUME NEW c \in Dispatchers, now' < armed'[c]
      PROVE  Asleep(armed[c])'
  <2>1. CASE armed'[c] = armed[c]
    <3>1. armed[c] \in Int /\ now < armed[c]
      BY <1>1, <1>3, <1>6, <2>1, Constants
    <3>2. PICK t \in Int : t = armed[c]
      BY <3>1
    <3>3. now < t /\ Asleep(t)
      BY <1>0, <3>1, <3>2 DEF Waits
    <3>4. Asleep(t)'
      BY <1>1, <3>3, SleepersUndisturbed
    <3> QED
      BY <2>1, <3>2, <3>4 DEF Asleep
  <2>2. CASE armed'[c] # armed[c]
    <3>1. Selection.job = NoJob /\ armed'[c] = wake
      <4> HIDE DEF wake
      <4> QED
        BY <1>1, <1>3, <2>2 DEF wake
    <3>2. PICK t : t = wake
      OBVIOUS
    <3>3. Asleep(t)'
      BY <1>1, <3>1, <3>2, ArmedFacts
    <3> QED
      BY <3>1, <3>2, <3>3 DEF Asleep
  <2> QED
    BY <2>1, <2>2
<1>7. Waits'
  BY <1>6 DEF Waits
<1>8. TypeOK'
  BY <1>0, <1>1, <1>2, <1>5 DEF TypeOK, Touched, Slowed
<1>9. ArmedAhead
  <2> HIDE DEF wake
  <2> QED
    BY <1>1, <1>3, <1>4 DEF ArmedAhead, wake
<1> QED
  BY <1>2, <1>7, <1>8, <1>9 DEF IInv

LEMMA NextReadyOrNoneStep ==
    ASSUME IInv, NextReadyOrNone
    PROVE  IInv'
<1>0. TypeOK /\ Waits
  BY DEF IInv
<1>1. /\ Selected(Selection) /\ UNCHANGED <<now, count, rate>>
      /\ closed' = closed /\ changes' = changes /\ armed' = armed
  BY DEF NextReadyOrNone
<1>2. /\ Pool' /\ Windows' /\ Touched /\ Slowed
      /\ seq' \in [Jobs -> 0..count'] /\ index' \in [LogicalKeys -> Jobs \cup {NoJob}]
      /\ ready' \cup future' \subseteq [job : Jobs, seq : 1..count']
  BY <1>1, SelectedFacts
<1>3. ASSUME NEW c \in Dispatchers, now' < armed'[c]
      PROVE  Asleep(armed[c])'
  <2>1. armed[c] \in Int /\ now < armed[c]
    <3>1. now \in Nat /\ armed[c] \in {Running} \cup 0..Never
      BY <1>0, Constants DEF TypeOK
    <3> QED
      BY <1>1, <1>3, <3>1, Constants
  <2>2. PICK t \in Int : t = armed[c]
    BY <2>1
  <2>3. now < t /\ Asleep(t)
    BY <1>0, <2>1, <2>2 DEF Waits
  <2>4. Asleep(t)'
    BY <1>1, <2>3, SleepersUndisturbed
  <2> QED
    BY <1>1, <2>2, <2>4 DEF Asleep
<1>4. Waits'
  BY <1>3 DEF Waits
<1>5. TypeOK'
  BY <1>0, <1>1, <1>2 DEF TypeOK, Touched, Slowed
<1> QED
  BY <1>2, <1>4, <1>5 DEF IInv

\* The steps that leave the pool and the log alone, and change no bucket but by
\* refilling and charging it.
LEMMA QuietStep ==
    ASSUME IInv, UNCHANGED poolVars, log' = log, Touched, rate' \in [Keys -> Floor..Rate],
           now' \in 0..MaxTime, now <= now', closed' \in BOOLEAN, changes' \in 0..MaxChanges,
           \/ armed' = Notified
           \/ /\ Slowed /\ armed' \in [Dispatchers -> {Running} \cup 0..Never]
              /\ \A d \in Dispatchers : armed'[d] \in {armed[d], Running}
    PROVE  IInv'
<1>0. TypeOK /\ Pool /\ Waits /\ Windows /\ now' \in Nat
  BY Constants DEF IInv
<1>1. seq' = seq /\ count' = count /\ index' = index /\ future' = future /\ ready' = ready
  BY DEF poolVars
<1>2. Pool'
  BY <1>0, <1>1 DEF Pool, IndexAgrees, Pending
<1>3. Windows'
  BY <1>0, WindowsKept
<1>4. Waits' /\ armed' \in [Dispatchers -> {Running} \cup 0..Never]
  <2>1. CASE armed' = Notified
    BY <1>0, <2>1, WaitsWoken
  <2>2. CASE /\ Slowed /\ armed' \in [Dispatchers -> {Running} \cup 0..Never]
             /\ \A d \in Dispatchers : armed'[d] \in {armed[d], Running}
    BY <1>0, <1>1, <2>2, WaitsKept
  <2> QED
    BY <2>1, <2>2
<1>5. TypeOK'
  BY <1>0, <1>1, <1>4 DEF TypeOK, Touched
<1> QED
  BY <1>2, <1>3, <1>4, <1>5 DEF IInv

\* The buckets as they are.
LEMMA Untouched ==
    ASSUME TypeOK, UNCHANGED bucketVars, now' \in Nat, now <= now'
    PROVE  Touched /\ Slowed
<1>1. /\ tokens \in [Keys -> 0..Cap] /\ rate \in [Keys -> Floor..Rate] /\ refilled \in [Keys -> 0..now]
      /\ tokens' = tokens /\ rate' = rate /\ refilled' = refilled /\ now \in Nat
  BY Constants DEF TypeOK, bucketVars
<1>2. refilled' \in [Keys -> 0..now']
  BY <1>1
<1>3. \A k \in Keys : rate[k] <= rate[k]
  BY <1>1, Constants
<1> QED
  BY <1>1, <1>2, <1>3 DEF Touched, Slowed

\* One bucket is refilled, and perhaps charged.
LEMMA OneTouched ==
    ASSUME TypeOK, now' = now, NEW k \in Keys, NEW held \in Nat, held <= Refilled(k),
           tokens' = [tokens EXCEPT ![k] = held], refilled' = Stamp({k})
    PROVE  Touched
<1>1. /\ tokens \in [Keys -> 0..Cap] /\ refilled \in [Keys -> 0..now] /\ now \in Nat
      /\ Refilled(k) \in 0..Cap
  BY RefillFacts, Constants DEF TypeOK
<1>2. tokens' \in [Keys -> 0..Cap]
  BY <1>1, Constants
<1>3. refilled' \in [Keys -> 0..now']
  BY <1>1 DEF Stamp
<1>4. \A c \in Keys : \/ tokens'[c] = tokens[c] /\ refilled'[c] = refilled[c]
                      \/ tokens'[c] <= Refilled(c) /\ refilled'[c] = now
  <2>1. \A c \in Keys : c # k => tokens'[c] = tokens[c] /\ refilled'[c] = refilled[c]
    BY <1>1 DEF Stamp
  <2>2. tokens'[k] = held /\ refilled'[k] = now
    BY <1>1 DEF Stamp
  <2> QED
    BY <2>1, <2>2
<1> QED
  BY <1>2, <1>3, <1>4 DEF Touched

\* The exchange's reports, slower and restored rates.
LEMMA BucketStep ==
    ASSUME IInv, NEW k \in Keys,
           Shrink(k) \/ Restore(k) \/ \E left \in 0..Cap : Observe(k, left)
    PROVE  IInv'
<1>0. TypeOK
  BY DEF IInv
<1>1. /\ UNCHANGED poolVars /\ log' = log /\ now' = now /\ closed' = closed
      /\ changes < MaxChanges /\ changes' = changes + 1 /\ refilled' = Stamp({k})
  BY DEF Shrink, Restore, Observe, Changed
<1>2. /\ now' \in 0..MaxTime /\ now <= now' /\ closed' \in BOOLEAN /\ changes' \in 0..MaxChanges
      /\ rate \in [Keys -> Floor..Rate] /\ rate[k] \in Nat /\ rate[k] <= Rate /\ Floor <= rate[k]
      /\ Refilled(k) \in 0..Cap /\ armed \in [Dispatchers -> {Running} \cup 0..Never]
  <2>1. now \in 0..MaxTime /\ closed \in BOOLEAN /\ changes \in 0..MaxChanges
    BY <1>0 DEF TypeOK
  <2>2. now' \in 0..MaxTime /\ now <= now' /\ closed' \in BOOLEAN /\ changes' \in 0..MaxChanges
    BY <1>1, <2>1, Constants
  <2>3. rate \in [Keys -> Floor..Rate] /\ armed \in [Dispatchers -> {Running} \cup 0..Never]
    BY <1>0 DEF TypeOK
  <2>4. Refilled(k) \in 0..Cap
    BY <1>0, RefillFacts
  <2> QED
    BY <2>2, <2>3, <2>4, Constants
<1>3. Refilled(k) \in Nat /\ Refilled(k) <= Refilled(k)
  BY <1>2, Constants
<1>4. CASE Shrink(k)
  <2> DEFINE slow == Min({rate[k], Max({Floor, rate[k] \div 2})})
  <2>1. /\ tokens' = [tokens EXCEPT ![k] = Refilled(k)] /\ armed' = armed
        /\ rate' = [rate EXCEPT ![k] = slow]
    BY <1>4 DEF Shrink
  <2>2. slow \in Floor..Rate /\ slow <= rate[k]
    <3>1. rate[k] \div 2 \in Nat
      BY <1>2
    <3>2. Max({Floor, rate[k] \div 2}) = IF Floor <= rate[k] \div 2 THEN rate[k] \div 2 ELSE Floor
      BY <3>1, MaxOfTwo, Constants
    <3>3. Max({Floor, rate[k] \div 2}) \in Nat /\ Floor <= Max({Floor, rate[k] \div 2})
      BY <3>1, <3>2, Constants
    <3>4. slow = IF rate[k] <= Max({Floor, rate[k] \div 2}) THEN rate[k]
                 ELSE Max({Floor, rate[k] \div 2})
      BY <1>2, <3>3, MinOfTwo
    <3> HIDE DEF slow
    <3> QED
      BY <1>2, <3>3, <3>4, Constants
  <2> HIDE DEF slow
  <2>3. rate' \in [Keys -> Floor..Rate] /\ Slowed
    <3>1. rate' \in [Keys -> Floor..Rate]
      BY <1>2, <2>1, <2>2
    <3>2. \A c \in Keys : rate'[c] <= rate[c]
      BY <1>2, <2>1, <2>2, Constants
    <3> QED
      BY <3>1, <3>2 DEF Slowed
  <2>4. Touched
    BY <1>0, <1>1, <1>3, <2>1, OneTouched
  <2> QED
    BY <1>1, <1>2, <2>1, <2>3, <2>4, QuietStep
<1>5. CASE Restore(k)
  <2>1. /\ tokens' = [tokens EXCEPT ![k] = Refilled(k)] /\ armed' = Notified
        /\ rate' = [rate EXCEPT ![k] = Rate]
    BY <1>5 DEF Restore
  <2>2. rate' \in [Keys -> Floor..Rate]
    BY <1>2, <2>1, Constants
  <2>3. Touched
    BY <1>0, <1>1, <1>3, <2>1, OneTouched
  <2> QED
    BY <1>1, <1>2, <2>1, <2>2, <2>3, QuietStep
<1>6. ASSUME NEW left \in 0..Cap, Observe(k, left) PROVE IInv'
  <2> DEFINE held == Min({Refilled(k), left})
  <2>1. /\ tokens' = [tokens EXCEPT ![k] = held] /\ armed' = armed /\ rate' = rate
    BY <1>6 DEF Observe
  <2>2. held \in Nat /\ held <= Refilled(k)
    BY <1>3, MinOfTwo, Constants
  <2> HIDE DEF held
  <2>3. Touched
    BY <1>0, <1>1, <2>1, <2>2, OneTouched
  <2>4. Slowed
    BY <1>2, <2>1, Constants DEF Slowed
  <2> QED
    BY <1>1, <1>2, <2>1, <2>3, <2>4, QuietStep
<1> QED
  BY <1>4, <1>5, <1>6

LEMMA TimeoutStep ==
    ASSUME IInv, NEW d \in Dispatchers, Timeout(d)
    PROVE  IInv'
<1>0. TypeOK /\ now \in Nat
  BY Constants DEF IInv, TypeOK
<1>1. /\ UNCHANGED <<now, poolVars, bucketVars, closed, log, changes>>
      /\ armed' = [armed EXCEPT ![d] = Running]
  BY DEF Timeout
<1>2. /\ armed' \in [Dispatchers -> {Running} \cup 0..Never]
      /\ \A c \in Dispatchers : armed'[c] \in {armed[c], Running}
  BY <1>0, <1>1 DEF TypeOK
<1>3. Touched /\ Slowed
  BY <1>0, <1>1, Untouched
<1> QED
  BY <1>0, <1>1, <1>2, <1>3, QuietStep DEF TypeOK, Slowed

LEMMA NotifyStep ==
    ASSUME IInv, Notify \/ Close
    PROVE  IInv'
<1>0. TypeOK /\ now \in Nat
  BY Constants DEF IInv, TypeOK
<1>1. UNCHANGED <<now, poolVars, bucketVars, log, changes>> /\ armed' = Notified /\ closed' \in BOOLEAN
  <2>1. CASE Notify
    BY <1>0, <2>1 DEF Notify, TypeOK
  <2>2. CASE Close
    BY <2>2 DEF Close
  <2> QED
    BY <2>1, <2>2
<1>2. Touched /\ Slowed
  BY <1>0, <1>1, Untouched
<1>3. now' \in 0..MaxTime /\ now <= now' /\ changes' \in 0..MaxChanges /\ rate' \in [Keys -> Floor..Rate]
  BY <1>0, <1>1, <1>2 DEF TypeOK, Slowed
<1> QED
  BY <1>1, <1>2, <1>3, QuietStep

LEMMA TickStep ==
    ASSUME IInv, Tick
    PROVE  IInv'
<1>0. TypeOK /\ now \in Nat
  BY Constants DEF IInv, TypeOK
<1>1. /\ UNCHANGED <<poolVars, bucketVars, closed, armed, log, changes>>
      /\ now < MaxTime /\ now' = now + 1
  BY DEF Tick
<1>2. now' \in 0..MaxTime /\ now <= now' /\ now' \in Nat
  BY <1>0, <1>1, Constants
<1>3. Touched /\ Slowed
  BY <1>0, <1>1, <1>2, Untouched
<1>4. /\ closed' \in BOOLEAN /\ changes' \in 0..MaxChanges /\ rate' \in [Keys -> Floor..Rate]
      /\ armed' \in [Dispatchers -> {Running} \cup 0..Never]
      /\ \A d \in Dispatchers : armed'[d] \in {armed[d], Running}
  BY <1>0, <1>1, <1>3 DEF TypeOK, Slowed
<1> QED
  BY <1>1, <1>2, <1>3, <1>4, QuietStep

LEMMA NextIInv == IInv /\ [Next]_vars => IInv'
<1> SUFFICES ASSUME IInv, [Next]_vars PROVE IInv'
  OBVIOUS
<1>1. ASSUME NEW j \in Jobs, Submit(j) PROVE IInv'
  BY <1>1, SubmitStep
<1>2. ASSUME NEW d \in Dispatchers, NextReady(d) \/ Timeout(d) PROVE IInv'
  BY <1>2, NextReadyStep, TimeoutStep
<1>3. CASE NextReadyOrNone
  BY <1>3, NextReadyOrNoneStep
<1>4. ASSUME NEW k \in Keys, Shrink(k) \/ Restore(k) \/ \E left \in 0..Cap : Observe(k, left)
      PROVE  IInv'
  BY <1>4, BucketStep
<1>5. CASE Notify \/ Close
  BY <1>5, NotifyStep
<1>6. CASE Tick
  BY <1>6, TickStep
<1>7. CASE UNCHANGED vars
  <2>1. /\ TypeOK /\ Pool /\ Waits /\ Windows
        /\ UNCHANGED <<now, poolVars, bucketVars, closed, armed, log, changes>>
    BY <1>7 DEF IInv, vars
  <2>2. Touched /\ Slowed /\ now \in Nat
    BY <2>1, Untouched, Constants DEF TypeOK
  <2>3. /\ now' \in 0..MaxTime /\ now <= now' /\ closed' \in BOOLEAN /\ changes' \in 0..MaxChanges
        /\ rate' \in [Keys -> Floor..Rate] /\ armed' \in [Dispatchers -> {Running} \cup 0..Never]
        /\ \A d \in Dispatchers : armed'[d] \in {armed[d], Running}
    BY <2>1, <2>2 DEF TypeOK, Slowed
  <2> QED
    BY <2>1, <2>2, <2>3, QuietStep
<1> QED
  BY <1>1, <1>2, <1>3, <1>4, <1>5, <1>6, <1>7 DEF Next

\* The inductive invariant holds in every state the scheduler reaches.
THEOREM IInvAlways == Spec => []IInv
BY InitIInv, NextIInv, PTL DEF Spec
-----------------------------------------------------------------------------
(* What the invariant says *)

\* After any sequence of submissions, replacements, evictions, expiries and
\* dispatches the scheduler's indexes agree, and no dispatcher sleeps while a job
\* is due that one of its budgets could pay: whatever others submit, dispatch,
\* refill, report or slow down meanwhile, no wake-up of rest.py is missing.
THEOREM WaitsAlwaysSound == Spec => []WaitsSound
<1>1. IInv => WaitsSound
  <2> SUFFICES ASSUME IInv PROVE WaitsSound
    OBVIOUS
  <2>1. TypeOK /\ Pool /\ Waits
    BY DEF IInv
  <2>2. ASSUME NEW d \in Dispatchers, now < armed[d] PROVE Selection.job = NoJob
    <3>1. armed[d] \in Int /\ Asleep(armed[d])
      BY <2>1, <2>2, Constants DEF TypeOK, Waits
    <3> QED
      BY <2>1, <2>2, <3>1, AsleepSelects
  <2> QED
    BY <2>1, <2>2 DEF WaitsSound, NoMissedWake, Pool
<1> QED
  BY <1>1, IInvAlways, PTL

\* The cost that WindowRespected adds up.
LEMMA SpentIs ==
    ASSUME NEW lg \in Log, NEW S, IsFiniteSet(S), S \subseteq DOMAIN lg
    PROVE  MapThenSumSet(LAMBDA i : JobOf[lg[i].job].cost, S) = SumOf(CostsOf(lg), S)
<1> DEFINE w == CostsOf(lg)
           Summing(g) == g = [s \in SUBSET S |-> IF s = {} THEN 0
                                ELSE JobOf[lg[CHOOSE x \in s : TRUE].job].cost
                                       + g[s \ {CHOOSE x \in s : TRUE}]]
           F == CHOOSE g : Summing(g)
<1>1. MapThenSumSet(LAMBDA i : JobOf[lg[i].job].cost, S) = F[S]
  BY DEF MapThenSumSet, MapThenFoldSet
<1>2. Weighed(w, S)
  <2>1. \A i \in DOMAIN lg : lg[i].job \in Jobs
    BY LogFacts
  <2>2. \A i \in S : w[i] = JobOf[lg[i].job].cost /\ lg[i].job \in Jobs
    BY <2>1 DEF CostsOf
  <2> HIDE DEF w
  <2> QED
    BY <2>2, JobFacts DEF Weighed
<1>3. ASSUME NEW g PROVE Summing(g) <=> IsSum(w, S, g)
  <2>1. ASSUME NEW s \in SUBSET S
        PROVE  SumStep(w, g, s) = IF s = {} THEN 0
                  ELSE JobOf[lg[CHOOSE x \in s : TRUE].job].cost + g[s \ {CHOOSE x \in s : TRUE}]
    BY DEF SumStep, Picked, CostsOf
  <2> HIDE DEF w
  <2> QED
    BY <2>1 DEF IsSum
<1>4. PICK g : IsSum(w, S, g) /\ SumOf(w, S) = g[S]
  <2> HIDE DEF w
  <2> QED
    BY <1>2, SumIs
<1> HIDE DEF w, Summing
<1>5. Summing(F)
  BY <1>3, <1>4, Zenon
<1>6. IsSum(w, S, F)
  BY <1>3, <1>5, Zenon
<1> HIDE DEF F
<1>7. F[S] = g[S]
  BY <1>4, <1>6, SumsAgree
<1> QED
  BY <1>1, <1>4, <1>7 DEF w

\* No budget is overspent: between any two dispatches on one budget the cost
\* sent is within its capacity and the refill of that time at the full rate,
\* for every sequence of lazy refills, rate changes and exchange reports.
THEOREM WindowAlwaysRespected == Spec => []WindowRespected
<1>1. IInv => WindowRespected
  <2> SUFFICES ASSUME IInv, NEW m \in DOMAIN log, NEW n \in DOMAIN log,
                      log[m].key = log[n].key, m <= n
               PROVE  MapThenSumSet(LAMBDA i : JobOf[log[i].job].cost,
                             {i \in m..n : log[i].key = log[n].key})
                        <= Cap + Rate * (log[n].at - log[m].at)
    BY DEF WindowRespected
  <2> DEFINE S == {i \in m..n : log[i].key = log[n].key}
  <2>1. log \in Log /\ Spent(log, log[n].key, m, n) <= Cap + Rate * (log[n].at - log[m].at)
    BY DEF IInv, Windows
  <2>2. m \in Nat \ {0} /\ n \in Nat /\ n <= Len(log)
    BY <2>1, LogFacts
  <2>3. S = Sent(log, log[n].key, m, n)
    BY DEF Sent
  <2>4. IsFiniteSet(S) /\ S \subseteq DOMAIN log
    BY <2>1, <2>2, <2>3, SpentFacts
  <2> HIDE DEF S
  <2>5. MapThenSumSet(LAMBDA i : JobOf[log[i].job].cost, S) = SumOf(CostsOf(log), S)
    BY <2>1, <2>4, SpentIs
  <2>6. MapThenSumSet(LAMBDA i : JobOf[log[i].job].cost, S) <= Cap + Rate * (log[n].at - log[m].at)
    BY <2>1, <2>3, <2>5 DEF Spent
  <2> QED
    BY <2>6 DEF S
<1> QED
  BY <1>1, IInvAlways, PTL
-----------------------------------------------------------------------------
(* What a step may do *)

\* A selection sends by rank, and takes out of the pool what it sends or expires.
LEMMA SelectionSound ==
    ASSUME IInv, Selected(Selection), UNCHANGED <<now, count, rate>>
    PROVE  NoOvertaking /\ LeavesForCause
<1> DEFINE s == Selection
           gone == Expired \cup ({s.job} \ {NoJob})
<1>0. TypeOK /\ Pool /\ log \in Log
  BY DEF IInv, Windows
<1>1. /\ Found(DueEntries, DueEntries, s) /\ ready' = Without(DueEntries, {s.job})
      /\ seq' = SeqWithout(gone)
      /\ log' = IF s.job = NoJob THEN log ELSE Append(log, [job |-> s.job, key |-> s.key, at |-> now])
  BY SelectedFacts DEF Selected
<1> HIDE DEF s
<1>2. Len(log) \in Nat /\ log \in Seq([job : Jobs, key : Keys, at : Nat])
  BY <1>0 DEF Log
<1>3. s.job # NoJob => Len(log') > Len(log) /\ Last(log') = [job |-> s.job, key |-> s.key, at |-> now]
  <2>1. ASSUME NEW x PROVE Len(Append(log, x)) = Len(log) + 1 /\ Append(log, x)[Len(log) + 1] = x
    BY <1>2
  <2> QED
    BY <1>1, <1>2, <2>1 DEF Last
<1>4. NoOvertaking
  <2>1. CASE s.job = NoJob
    BY <1>1, <1>2, <2>1 DEF NoOvertaking
  <2>2. CASE s.job # NoJob
    <3>1. SentOne(DueEntries, s)
      BY <1>1, <2>2 DEF Found, BlockedAll
    <3>2. PICK e \in DueEntries : /\ s.job = e.job
             /\ \A f \in DueEntries : Before(RankOf(f), RankOf(e)) => s.key \notin JobOf[f.job].eligible
      BY <3>1 DEF SentOne
    <3>3. \A f \in DueEntries : Rank(f.job) = RankOf(f)
      BY <1>0, EntryFacts DEF Rank, RankOf
    <3>4. \A f \in ready' : f \in DueEntries
      BY <1>1 DEF Without
    <3>5. ASSUME NEW f \in ready', Before(Rank(f.job), Rank(Last(log').job))
          PROVE  Last(log').key \notin JobOf[f.job].eligible
      <4>1. Last(log').job = e.job /\ Last(log').key = s.key
        BY <1>3, <2>2, <3>2
      <4> QED
        BY <3>2, <3>3, <3>4, <3>5, <4>1
    <3> QED
      BY <3>5 DEF NoOvertaking
  <2> QED
    BY <2>1, <2>2
<1>5. LeavesForCause
  <2> SUFFICES ASSUME NEW j \in Pending, seq'[j] # seq[j]
               PROVE  (Len(log') > Len(log) /\ Last(log').job = j) \/ Late(j)
    BY DEF LeavesForCause
  <2>1. j \in Expired \/ (j = s.job /\ s.job # NoJob)
    BY <1>1 DEF SeqWithout, Pending
  <2> QED
    BY <1>3, <2>1 DEF Expired
<1> QED
  BY <1>4, <1>5

\* A submission takes out what is late, replaced or evicted, and sends nothing.
LEMMA SubmissionSound ==
    ASSUME IInv, NEW j \in Jobs, Submit(j)
    PROVE  LeavesForCause
<1>0. TypeOK /\ Pool
  BY DEF IInv
<1>1. /\ seq[j] = 0 /\ \A i \in Replaced(j) : JobOf[j].sched > JobOf[i].sched
      /\ SubmitLate(j) \/ SubmitInTime(j)
  BY DEF Submit
<1>2. \A i \in Replaced(j) : JobOf[i].replaceable /\ JobOf[j].lkey = JobOf[i].lkey
  BY <1>0, ReplacedFacts
<1> SUFFICES ASSUME NEW i \in Pending, seq'[i] # seq[i], ~Late(i)
             PROVE  JobOf[i].replaceable /\ seq[j] = 0 /\
                      \/ seq'[j] # 0 /\ JobOf[j].prio < JobOf[i].prio
                      \/ JobOf[j].lkey = JobOf[i].lkey /\ JobOf[j].sched > JobOf[i].sched
  BY DEF LeavesForCause
<1>3. i \in Jobs /\ i # j /\ i \notin Expired
  BY <1>1 DEF Pending, Expired
<1>4. CASE SubmitLate(j)
  <2>1. i \in Replaced(j)
    BY <1>3, <1>4 DEF SubmitLate, SeqWithout
  <2> QED
    BY <1>1, <1>2, <2>1
<1>5. CASE SubmitInTime(j)
  <2> DEFINE left == Pending \ Expired
             full == Replaced(j) \cap left = {} /\ Cardinality(left) >= MaxPending
             refused == full /\ Evictable(j, left) = {}
             victims == {h \in Evictable(j, left) : \A g \in Evictable(j, left) : ~Before(Rank(h), Rank(g))}
             gone == Expired \cup Replaced(j) \cup (IF full THEN victims ELSE {})
  <2>1. seq' = IF refused THEN SeqWithout(gone) ELSE [SeqWithout(gone) EXCEPT ![j] = count + 1]
    BY <1>5 DEF SubmitInTime
  <2>2. i \in gone
    <3> HIDE DEF gone, refused
    <3> QED
      BY <1>3, <2>1 DEF SeqWithout
  <2>3. CASE i \in Replaced(j)
    BY <1>1, <1>2, <2>3
  <2>4. CASE i \in Evictable(j, left)
    <3>1. ~refused
      BY <2>4
    <3>2. seq'[j] = count + 1 /\ count \in Nat
      <4> HIDE DEF gone, refused
      <4> QED
        BY <1>0, <2>1, <3>1, Constants DEF SeqWithout, TypeOK
    <3>3. JobOf[i].replaceable /\ JobOf[i].prio > JobOf[j].prio
      BY <2>4 DEF Evictable
    <3> QED
      BY <1>1, <3>2, <3>3, <1>3, JobFacts
  <2> QED
    BY <1>3, <2>2, <2>3, <2>4
<1> QED
  BY <1>1, <1>4, <1>5

\* The steps that send nothing overtake nobody.
LEMMA SendsNothing ==
    ASSUME IInv, log' = log
    PROVE  NoOvertaking
<1>1. Len(log) \in Nat
  BY LogFacts DEF IInv, Windows
<1> QED
  BY <1>1 DEF NoOvertaking

\* Every step: a dispatch takes nothing from a budget that a more urgent job
\* waits for, a job leaves only for one of the four causes, and a wait is armed
\* with a time ahead, so that the loop of next_ready always reaches its await.
THEOREM DispatchAlwaysSound == Spec => DispatchSound
<1> DEFINE Sound == NoOvertaking /\ LeavesForCause /\ ArmedAhead
<1>1. IInv /\ [Next]_vars => [Sound]_vars
  <2> SUFFICES ASSUME IInv, Next PROVE Sound
    OBVIOUS
  <2>0. armed \in [Dispatchers -> {Running} \cup 0..Never]
    BY DEF IInv, TypeOK
  <2>1. ASSUME NEW j \in Jobs, Submit(j) PROVE Sound
    <3>1. log' = log /\ (armed' = armed \/ armed' = Notified)
      BY <2>1 DEF Submit, SubmitLate, SubmitInTime
    <3>2. ArmedAhead
      BY <3>1 DEF ArmedAhead, Notified
    <3> QED
      BY <2>1, <3>1, <3>2, SubmissionSound, SendsNothing
  <2>2. ASSUME NEW d \in Dispatchers, NextReady(d) PROVE Sound
    <3>1. Selected(Selection) /\ UNCHANGED <<now, count, rate>>
      BY <2>2 DEF NextReady
    <3> QED
      BY <2>2, <3>1, SelectionSound, NextReadyStep
  <2>3. CASE NextReadyOrNone
    <3>1. Selected(Selection) /\ UNCHANGED <<now, count, rate>> /\ armed' = armed
      BY <2>3 DEF NextReadyOrNone
    <3>2. ArmedAhead
      BY <3>1 DEF ArmedAhead
    <3> QED
      BY <3>1, <3>2, SelectionSound
  <2>4. ASSUME UNCHANGED poolVars, log' = log, \A d \in Dispatchers : armed'[d] \in {armed[d], Running}
        PROVE  Sound
    BY <2>4, SendsNothing DEF LeavesForCause, ArmedAhead, poolVars
  <2>5. ASSUME NEW d \in Dispatchers, Timeout(d) PROVE Sound
    BY <2>0, <2>4, <2>5 DEF Timeout
  <2>6. ASSUME NEW k \in Keys, Shrink(k) \/ Restore(k) \/ \E left \in 0..Cap : Observe(k, left)
        PROVE  Sound
    BY <2>4, <2>6 DEF Shrink, Restore, Observe, Notified
  <2>7. CASE Notify \/ Close \/ Tick
    BY <2>4, <2>7 DEF Notify, Close, Tick, Notified
  <2> QED
    BY <2>1, <2>2, <2>3, <2>5, <2>6, <2>7 DEF Next
<1> QED
  BY <1>1, IInvAlways, PTL DEF Spec, DispatchSound
=============================================================================
