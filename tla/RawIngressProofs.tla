------------------------- MODULE RawIngressProofs -------------------------
(***************************************************************************)
(* Proofs about RawIngress for every configuration: typing, the budget     *)
(* bounds, and the settlement of one configuration generation before the   *)
(* next one starts.                                                        *)
(*                                                                         *)
(* Typing alone is not inductive: drain_one and release subtract the       *)
(* charge stored for an ordinal, which is a number only because a resident *)
(* record is always charged, which in turn needs ordinals to be unique.    *)
(***************************************************************************)
EXTENDS RawIngress, FiniteSets, FiniteSetsExt, FiniteSetTheorems, WellFoundedInduction, TLAPS

-----------------------------------------------------------------------------
(* Induction over finite sets, and what the folds of the community modules *)
(* compute.  An induction runs over a set of good values, since the provers *)
(* cannot instantiate a theorem whose parameter is a predicate.            *)

\* Every set of numbers that has one has a least one.
LEMMA LeastNumber ==
    ASSUME NEW T, T \subseteq Nat, T # {}
    PROVE  \E x \in T : \A y \in T : x <= y
<1> DEFINE R == {ss \in Nat \X Nat : ss[1] < ss[2]}
<1>1. IsWellFoundedOn(R, Nat)
  BY NatLessThanWellFounded DEF OpToRel
<1>2. PICK x \in T : \A y \in T : <<y, x>> \notin R
  <2> HIDE DEF R
  <2> QED
    BY <1>1, WFMin
<1>3. ASSUME NEW y \in T PROVE x <= y
  <2>1. x \in Nat /\ y \in Nat /\ <<y, x>> \notin R
    BY <1>2
  <2> QED
    BY <2>1
<1> QED
  BY <1>3

\* A set of sets that has every finite set whose smaller subsets it has.
LEMMA SubsetInduction ==
    ASSUME NEW S, IsFiniteSet(S), NEW G,
           \A s \in SUBSET S : (\A x \in s : s \ {x} \in G) => s \in G
    PROVE  SUBSET S \subseteq G
<1> DEFINE Bad == (SUBSET S) \ G
           Sizes == {Cardinality(s) : s \in Bad}
<1>0. \A s \in SUBSET S : IsFiniteSet(s) /\ Cardinality(s) \in Nat
  BY FS_Subset, FS_CardinalityType
<1>1. SUFFICES ASSUME Bad # {} PROVE FALSE
  BY <1>1
<1>2. Sizes \subseteq Nat /\ Sizes # {}
  BY <1>0, <1>1
<1>3. PICK n \in Sizes : \A y \in Sizes : n <= y
  <2> HIDE DEF Sizes
  <2> QED
    BY <1>2, LeastNumber
<1>4. PICK s \in Bad : n = Cardinality(s)
  OBVIOUS
<1>5. ASSUME NEW x \in s PROVE s \ {x} \in G
  <2>1. /\ s \in SUBSET S /\ s \ {x} \in SUBSET S /\ Cardinality(s) \in Nat
        /\ Cardinality(s \ {x}) = Cardinality(s) - 1
    BY <1>0, FS_RemoveElement
  <2>2. SUFFICES ASSUME s \ {x} \in Bad PROVE FALSE
    BY <2>1
  <2>3. Cardinality(s \ {x}) \in Sizes
    BY <2>2
  <2>4. n <= Cardinality(s \ {x}) /\ n \in Nat
    <3> HIDE DEF Sizes
    <3> QED
      BY <1>2, <1>3, <2>3
  <2> QED
    BY <1>4, <2>1, <2>4
<1> QED
  BY <1>4, <1>5
-----------------------------------------------------------------------------
(* A fold over a finite set: pick chooses the element that is taken last,   *)
(* step adds it to the fold of the others.                                 *)

FoldStep(base, pick, step, g, s) ==
    IF s = {} THEN base ELSE step[<<pick[s], g[s \ {pick[s]}]>>]
IsFold(base, pick, step, S, g) == g = [s \in SUBSET S |-> FoldStep(base, pick, step, g, s)]
Picks(pick, S) == \A s \in SUBSET S : s # {} => pick[s] \in s

\* The fold exists.
LEMMA FoldExists ==
    ASSUME NEW base, NEW pick, NEW step, NEW S, IsFiniteSet(S), Picks(pick, S)
    PROVE  \E g : IsFold(base, pick, step, S, g)
<1> DEFINE Small(n) == {s \in SUBSET S : Cardinality(s) <= n}
           Upto(n, g) == g = [s \in Small(n) |-> FoldStep(base, pick, step, g, s)]
           Bad == {n \in Nat : ~ \E g : Upto(n, g)}
<1>0. \A s \in SUBSET S : IsFiniteSet(s) /\ Cardinality(s) \in Nat
  BY FS_Subset, FS_CardinalityType
<1>1. Bad = {}
  <2>1. SUFFICES ASSUME Bad # {} PROVE FALSE
    BY <2>1
  <2>2. PICK n \in Bad : \A y \in Bad : n <= y
    <3>1. Bad \subseteq Nat
      OBVIOUS
    <3> HIDE DEF Bad
    <3> QED
      BY <2>1, <3>1, LeastNumber
  <2>3. n # 0
    <3>1. SUFFICES ASSUME n = 0 PROVE \E g : Upto(n, g)
      BY <3>1
    <3>2. ASSUME NEW s \in Small(n) PROVE s = {}
      BY <1>0, <3>1, FS_EmptySet
    <3> DEFINE e == [s \in Small(n) |-> base]
    <3>3. e = [s \in Small(n) |-> FoldStep(base, pick, step, e, s)]
      BY <3>2 DEF FoldStep
    <3> QED
      BY <3>3
  <2>4. n - 1 \in Nat /\ n - 1 \notin Bad
    <3>1. n \in Nat
      OBVIOUS
    <3> HIDE DEF Bad
    <3> QED
      BY <2>2, <2>3, <3>1
  <2>5. PICK g : Upto(n - 1, g)
    BY <2>4
  <2> DEFINE e == [s \in Small(n) |-> FoldStep(base, pick, step, g, s)]
  <2>6. ASSUME NEW s \in Small(n - 1) PROVE s \in Small(n) /\ e[s] = g[s]
    BY <1>0, <2>5
  <2>7. ASSUME NEW s \in Small(n) PROVE e[s] = FoldStep(base, pick, step, e, s)
    <3>1. CASE s = {}
      BY <3>1 DEF FoldStep
    <3>2. CASE s # {}
      <4>1. s \ {pick[s]} \in Small(n - 1)
        BY <1>0, <3>2, FS_RemoveElement DEF Picks
      <4>2. e[s \ {pick[s]}] = g[s \ {pick[s]}]
        BY <2>6, <4>1
      <4> QED
        BY <3>2, <4>2 DEF FoldStep
    <3> QED
      BY <3>1, <3>2
  <2>8. e = [s \in Small(n) |-> FoldStep(base, pick, step, e, s)]
    BY <2>7
  <2> QED
    BY <2>2, <2>8
<1>2. PICK g : Upto(Cardinality(S), g)
  BY <1>0, <1>1
<1>3. Small(Cardinality(S)) = SUBSET S
  BY <1>0, FS_Subset
<1> QED
  BY <1>2, <1>3 DEF IsFold

-----------------------------------------------------------------------------
(* Sums of the weights w of the elements of a finite set *)

SumOf(w, S) == MapThenSumSet(LAMBDA x : w[x], S)
Weighed(w, S) == \A x \in S : w[x] \in Int
Picked(s) == CHOOSE x \in s : TRUE
SumStep(w, g, s) == IF s = {} THEN 0 ELSE w[Picked(s)] + g[s \ {Picked(s)}]
IsSum(w, S, g) == g = [s \in SUBSET S |-> SumStep(w, g, s)]

LEMMA PickedFacts == \A s : s # {} => Picked(s) \in s
BY DEF Picked

\* There is one function that sums the subsets.
LEMMA SumExists ==
    ASSUME NEW w, NEW S, IsFiniteSet(S), Weighed(w, S)
    PROVE  \E g : IsSum(w, S, g)
<1> DEFINE pick == [s \in SUBSET S |-> Picked(s)]
           step == [p \in S \X Int |-> w[p[1]] + p[2]]
<1>1. Picks(pick, S)
  BY PickedFacts DEF Picks
<1>2. PICK g : IsFold(0, pick, step, S, g)
  <2> HIDE DEF pick, step
  <2> QED
    BY <1>1, FoldExists
<1> DEFINE H == {s \in SUBSET S : g[s] \in Int}
<1>3. ASSUME NEW s \in SUBSET S, \A x \in s : s \ {x} \in H PROVE s \in H
  <2>1. g[s] = FoldStep(0, pick, step, g, s)
    BY <1>2 DEF IsFold
  <2>2. s # {} => Picked(s) \in S /\ w[Picked(s)] \in Int /\ g[s \ {Picked(s)}] \in Int
    BY <1>3, PickedFacts DEF Weighed
  <2> QED
    BY <2>1, <2>2 DEF FoldStep
<1>4. SUBSET S \subseteq H
  <2> HIDE DEF H
  <2> QED
    BY <1>3, SubsetInduction
<1>5. ASSUME NEW s \in SUBSET S PROVE g[s] = SumStep(w, g, s)
  <2>1. g[s] = FoldStep(0, pick, step, g, s)
    BY <1>2 DEF IsFold
  <2>2. s # {} => Picked(s) \in S /\ g[s \ {Picked(s)}] \in Int
    BY <1>4, PickedFacts
  <2> QED
    BY <2>1, <2>2 DEF FoldStep, SumStep
<1>6. g = [s \in SUBSET S |-> g[s]]
  BY <1>2 DEF IsFold
<1> QED
  BY <1>5, <1>6 DEF IsSum

LEMMA SumsAgree ==
    ASSUME NEW w, NEW S, NEW g, IsSum(w, S, g), NEW v, NEW T, NEW h, IsSum(v, T, h),
           NEW u, IsFiniteSet(u), u \subseteq S, u \subseteq T, \A x \in u : w[x] = v[x]
    PROVE  g[u] = h[u]
<1> DEFINE H == {s \in SUBSET u : g[s] = h[s]}
<1>1. ASSUME NEW s \in SUBSET u, \A x \in s : s \ {x} \in H PROVE s \in H
  <2>1. g[s] = SumStep(w, g, s) /\ h[s] = SumStep(v, h, s)
    BY DEF IsSum
  <2>2. s # {} => Picked(s) \in s /\ w[Picked(s)] = v[Picked(s)] /\ g[s \ {Picked(s)}] = h[s \ {Picked(s)}]
    BY <1>1, PickedFacts
  <2> QED
    BY <2>1, <2>2 DEF SumStep
<1>2. SUBSET u \subseteq H
  <2> HIDE DEF H
  <2> QED
    BY <1>1, SubsetInduction
<1> QED
  BY <1>2

\* MapThenSumSet takes its value from that function.
LEMMA SumIs ==
    ASSUME NEW w, NEW S, IsFiniteSet(S), Weighed(w, S)
    PROVE  \E g : IsSum(w, S, g) /\ SumOf(w, S) = g[S]
<1> DEFINE F == CHOOSE g : g = [s \in SUBSET S |-> IF s = {} THEN 0
                                   ELSE w[CHOOSE x \in s : TRUE] + g[s \ {CHOOSE x \in s : TRUE}]]
<1>1. SumOf(w, S) = F[S]
  BY DEF SumOf, MapThenSumSet, MapThenFoldSet
<1>2. \E g : g = [s \in SUBSET S |-> IF s = {} THEN 0
                      ELSE w[CHOOSE x \in s : TRUE] + g[s \ {CHOOSE x \in s : TRUE}]]
  <2>1. PICK g : IsSum(w, S, g)
    BY SumExists
  <2> QED
    BY <2>1, Zenon DEF IsSum, SumStep, Picked
<1>3. F = [s \in SUBSET S |-> IF s = {} THEN 0
              ELSE w[CHOOSE x \in s : TRUE] + F[s \ {CHOOSE x \in s : TRUE}]]
  BY <1>2, Zenon
<1> HIDE DEF F
<1>4. IsSum(w, S, F)
  BY <1>3, Zenon DEF IsSum, SumStep, Picked
<1> QED
  BY <1>1, <1>4

\* Taking one element out, whichever one the definition would take first.
LEMMA SumRemove ==
    ASSUME NEW w, NEW S, IsFiniteSet(S), Weighed(w, S), NEW g, IsSum(w, S, g), NEW u \in SUBSET S
    PROVE  g[u] \in Int /\ \A x \in u : g[u] = w[x] + g[u \ {x}]
<1> DEFINE Fine(s) == g[s] \in Int /\ \A x \in s : g[s] = w[x] + g[s \ {x}]
           H == {s \in SUBSET S : Fine(s) /\ \A x \in s : Fine(s \ {x})}
<1>1. ASSUME NEW s \in SUBSET S, \A x \in s : s \ {x} \in H PROVE s \in H
  <2>1. ASSUME NEW x \in s PROVE Fine(s \ {x}) /\ \A y \in s \ {x} : Fine((s \ {x}) \ {y})
    BY <1>1
  <2>2. g[s] = SumStep(w, g, s)
    BY DEF IsSum
  <2>3. CASE s = {}
    BY <2>2, <2>3 DEF SumStep
  <2>4. CASE s # {}
    <3> DEFINE y == Picked(s)
    <3>1. y \in s /\ g[s] = w[y] + g[s \ {y}] /\ w[y] \in Int
      BY <2>2, <2>4, PickedFacts DEF SumStep, Weighed
    <3> HIDE DEF y
    <3>2. g[s \ {y}] \in Int
      BY <2>1, <3>1
    <3>3. ASSUME NEW x \in s PROVE g[s] = w[x] + g[s \ {x}]
      <4>1. CASE x = y
        BY <3>1, <4>1
      <4>2. CASE x # y
        <5>1. g[s \ {y}] = w[x] + g[(s \ {y}) \ {x}]
          BY <2>1, <3>1, <4>2
        <5>2. g[s \ {x}] = w[y] + g[(s \ {x}) \ {y}]
          BY <2>1, <3>1, <4>2
        <5>3. (s \ {y}) \ {x} = (s \ {x}) \ {y}
          OBVIOUS
        <5>4. Fine((s \ {x}) \ {y})
          <6> HIDE DEF Fine
          <6> QED
            BY <2>1, <3>1, <4>2
        <5>5. g[(s \ {x}) \ {y}] \in Int
          BY <5>4
        <5>6. w[x] \in Int
          BY DEF Weighed
        <5>7. g[s \ {y}] = w[x] + g[(s \ {x}) \ {y}]
          BY <5>1, <5>3
        <5> QED
          BY <3>1, <5>2, <5>5, <5>6, <5>7
      <4> QED
        BY <4>1, <4>2
    <3>4. g[s] \in Int
      BY <3>1, <3>2
    <3>5. Fine(s)
      BY <3>3, <3>4
    <3> HIDE DEF Fine
    <3> QED
      BY <2>1, <3>5
  <2> QED
    BY <2>3, <2>4
<1>2. SUBSET S \subseteq H
  <2> HIDE DEF H
  <2> QED
    BY <1>1, SubsetInduction
<1>3. Fine(u)
  BY <1>2
<1> QED
  BY <1>3

\* What the proofs use: the empty sum, one weight more or less, and weights that
\* changed elsewhere.
LEMMA SumFacts ==
    ASSUME NEW w, NEW S, IsFiniteSet(S), Weighed(w, S)
    PROVE  /\ SumOf(w, S) \in Int
           /\ S = {} => SumOf(w, S) = 0
           /\ \A x \in S : SumOf(w, S \ {x}) = SumOf(w, S) - w[x]
           /\ \A v : (\A x \in S : w[x] = v[x]) => SumOf(v, S) = SumOf(w, S)
<1>1. PICK g : IsSum(w, S, g) /\ SumOf(w, S) = g[S]
  BY SumIs
<1>2. g[S] \in Int /\ \A x \in S : g[S] = w[x] + g[S \ {x}] /\ g[S \ {x}] \in Int
  <2>1. g[S] \in Int /\ \A x \in S : g[S] = w[x] + g[S \ {x}]
    BY <1>1, SumRemove
  <2>2. ASSUME NEW x \in S PROVE g[S \ {x}] \in Int
    BY <1>1, SumRemove
  <2> QED
    BY <2>1, <2>2
<1>3. S = {} => g[S] = 0
  BY <1>1 DEF IsSum, SumStep
<1>4. ASSUME NEW x \in S PROVE SumOf(w, S \ {x}) = SumOf(w, S) - w[x]
  <2>1. IsFiniteSet(S \ {x}) /\ Weighed(w, S \ {x}) /\ w[x] \in Int
    BY FS_RemoveElement DEF Weighed
  <2>2. PICK h : IsSum(w, S \ {x}, h) /\ SumOf(w, S \ {x}) = h[S \ {x}]
    BY <2>1, SumIs
  <2>3. h[S \ {x}] = g[S \ {x}]
    BY <1>1, <2>1, <2>2, SumsAgree
  <2>4. g[S] = w[x] + g[S \ {x}] /\ g[S \ {x}] \in Int
    BY <1>2
  <2>5. g[S \ {x}] = g[S] - w[x]
    BY <1>2, <2>1, <2>4
  <2> QED
    BY <1>1, <2>2, <2>3, <2>5
<1>5. ASSUME NEW v, \A x \in S : w[x] = v[x] PROVE SumOf(v, S) = SumOf(w, S)
  <2>1. Weighed(v, S)
    BY <1>5 DEF Weighed
  <2>2. PICK h : IsSum(v, S, h) /\ SumOf(v, S) = h[S]
    BY <2>1, SumIs
  <2> QED
    BY <1>1, <1>5, <2>2, SumsAgree
<1> QED
  BY <1>1, <1>2, <1>3, <1>4, <1>5
-----------------------------------------------------------------------------

\* What drain_one and release rely on.
Core == TypeOK /\ OrdinalsUnique /\ ChargedWhileResident

\* Charges are numbers of bytes and every class is one of the two.
LEMMA ChargeFacts ==
    /\ Charges \subseteq Int
    /\ \A c \in Charges : c > 0
    /\ \A k : Class(k) \in Classes
BY BudgetAssumption DEF Class, Classes

\* A resident record's charge is a known number of bytes of its own class.
LEMMA ResidentCharge ==
    ASSUME Core, NEW r \in ResidentRecords
    PROVE  /\ r.ord \in DOMAIN charges
           /\ charges[r.ord].class = Class(r.key)
           /\ charges[r.ord].class \in Classes
           /\ charges[r.ord].bytes \in Charges
<1>1. r.ord \in DOMAIN charges /\ charges[r.ord].class = Class(r.key)
  BY DEF Core, ChargedWhileResident
<1>2. charges[r.ord] \in [class : Classes, bytes : Charges]
  BY <1>1 DEF Core, TypeOK
<1> QED
  BY <1>1, <1>2

\* drain_one takes the record at the head of a queue.
LEMMA HeadFacts ==
    ASSUME TypeOK, NEW s \in Shards, queues[s] # << >>
    PROVE  /\ Head(queues[s]) \in Record
           /\ Head(queues[s]) = queues[s][1]
           /\ 1 \in DOMAIN queues[s]
           /\ Head(queues[s]) \in ResidentRecords
           /\ Tail(queues[s]) \in Seq(Record)
           /\ Len(Tail(queues[s])) = Len(queues[s]) - 1
           /\ DOMAIN Tail(queues[s]) = 1 .. Len(queues[s]) - 1
           /\ \A i \in DOMAIN Tail(queues[s]) :
                 /\ Tail(queues[s])[i] = queues[s][i + 1]
                 /\ i + 1 \in DOMAIN queues[s]
<1>1. queues[s] \in Seq(Record)
  BY DEF TypeOK
<1>2. /\ Len(queues[s]) \in Nat
      /\ Len(queues[s]) > 0
      /\ DOMAIN queues[s] = 1 .. Len(queues[s])
  BY <1>1
<1>3. Head(queues[s]) = queues[s][1] /\ 1 \in DOMAIN queues[s]
  BY <1>1, <1>2
<1>4. /\ Tail(queues[s]) \in Seq(Record)
      /\ Len(Tail(queues[s])) = Len(queues[s]) - 1
      /\ DOMAIN Tail(queues[s]) = 1 .. Len(queues[s]) - 1
  BY <1>1, <1>2
<1>5. \A i \in DOMAIN Tail(queues[s]) :
         Tail(queues[s])[i] = queues[s][i + 1] /\ i + 1 \in DOMAIN queues[s]
  BY <1>1, <1>2, <1>4
<1>6. Head(queues[s]) \in ResidentRecords
  BY <1>3 DEF ResidentRecords, AllQueued, Queued
<1> QED
  BY <1>1, <1>3, <1>4, <1>5, <1>6

LEMMA InitCore == Init => Core
<1> SUFFICES ASSUME Init PROVE Core
  OBVIOUS
<1>1. \A s \in Shards : queues[s] = << >> /\ DOMAIN queues[s] = {}
  BY DEF Init
<1>2. TypeOK
  <2>1. DOMAIN charges = {} /\ charges \in [{} -> [class : Classes, bytes : Charges]]
    BY DEF Init
  <2>2. << >> \in Seq(Record)
    OBVIOUS
  <2>3. ControlKey \in Keys /\ NormalKeys \subseteq Keys
    BY DEF Keys
  <2> QED
    BY <2>1, <2>2, <2>3, ShardAssumption DEF Init, TypeOK, Shards
<1>3. OrdinalsUnique
  BY <1>1 DEF Init, OrdinalsUnique
<1>4. ResidentRecords = {}
  BY <1>1 DEF Init, ResidentRecords, AllQueued, Queued
<1>5. ChargedWhileResident
  BY <1>4 DEF Init, ChargedWhileResident
<1> QED
  BY <1>2, <1>3, <1>5 DEF Core

\* try_accept appends one record with a fresh ordinal to one queue.
LEMMA AcceptCore ==
    ASSUME Core, NEW k \in Keys, NEW s \in Shards, NEW c \in Charges, NEW a \in BOOLEAN,
           Accept(k, s, c, a)
    PROVE  Core'
<1> DEFINE rec == [ord |-> nextOrdinal, key |-> k, seq |-> nextSeq[k], gen |-> generation]
<1>0. TypeOK /\ OrdinalsUnique /\ ChargedWhileResident
  BY DEF Core
<1>1. /\ rec \in Record
      /\ nextOrdinal \in Nat
      /\ nextOrdinal' = nextOrdinal + 1
      /\ held' = held
      /\ queues' = [queues EXCEPT ![s] = Append(@, rec)]
  BY <1>0 DEF Accept, Record, TypeOK
<1>2. /\ queues \in [Shards -> Seq(Record)]
      /\ queues' \in [Shards -> Seq(Record)]
      /\ Len(queues[s]) \in Nat
      /\ DOMAIN queues[s] = 1 .. Len(queues[s])
      /\ DOMAIN queues'[s] = 1 .. Len(queues[s]) + 1
      /\ queues'[s][Len(queues[s]) + 1] = rec
      /\ \A i \in DOMAIN queues[s] : queues'[s][i] = queues[s][i]
      /\ \A t \in Shards \ {s} : queues'[t] = queues[t]
  BY <1>0, <1>1 DEF TypeOK
<1> HIDE DEF rec
<1>r. rec.ord = nextOrdinal /\ rec.key = k
  BY DEF rec
<1>3. TypeOK'
  <2>1. c \in Int /\ Class(k) \in Classes
    BY ChargeFacts
  <2>2. /\ DOMAIN charges' \in SUBSET Nat
        /\ charges' \in [DOMAIN charges' -> [class : Classes, bytes : Charges]]
    BY <1>0, <1>1, <2>1 DEF Accept, Reserve, TypeOK
  <2>3. /\ residentBytes' \in [Classes -> Int]
        /\ residentCount' \in [Classes -> Int]
    <3>1. /\ residentBytes' = [residentBytes EXCEPT ![Class(k)] = @ + c]
          /\ residentCount' = [residentCount EXCEPT ![Class(k)] = @ + 1]
      BY DEF Accept, Reserve
    <3>2. /\ residentBytes \in [Classes -> Int]
          /\ residentCount \in [Classes -> Int]
      BY <1>0 DEF TypeOK
    <3> QED
      BY <2>1, <3>1, <3>2
  <2>4. /\ shardOf' \in [Keys -> Shards \cup {NoShard}]
        /\ \A kk \in NormalKeys : shardOf'[kk] # ControlShard
        /\ shardOf'[ControlKey] \in {ControlShard, NoShard}
    BY <1>0, ShardAssumption DEF Accept, ShardAllowed, Class, Keys, TypeOK
  <2>5. /\ queuedBytes' \in [Shards -> Int]
        /\ nextSeq' \in [Keys -> Nat]
        /\ pending' \in SUBSET Nat
        /\ highWater' \in Nat
    <3>1. /\ queuedBytes' = [queuedBytes EXCEPT ![s] = @ + c]
          /\ nextSeq' = [nextSeq EXCEPT ![k] = @ + 1]
          /\ pending' \subseteq pending \cup {nextOrdinal}
          /\ highWater' \in {highWater, highWater + 1}
      BY DEF Accept
    <3>2. /\ queuedBytes \in [Shards -> Int]
          /\ nextSeq \in [Keys -> Nat]
          /\ pending \in SUBSET Nat
          /\ highWater \in Nat
      BY <1>0 DEF TypeOK
    <3> QED
      BY <1>1, <2>1, <3>1, <3>2
  <2>6. /\ overflows' \in [Classes -> Nat]
        /\ generation' \in Nat
        /\ held' \in SUBSET Record
    BY <1>0 DEF Accept, TypeOK
  <2> QED
    BY <1>1, <1>2, <2>2, <2>3, <2>4, <2>5, <2>6 DEF TypeOK
<1>4. OrdinalsUnique'
  <2>1. \A t \in Shards : \A i \in DOMAIN queues'[t] :
           \/ i \in DOMAIN queues[t] /\ queues'[t][i] = queues[t][i]
           \/ t = s /\ i = Len(queues[s]) + 1 /\ queues'[t][i].ord = nextOrdinal
    BY <1>2, <1>r
  <2>2. \A t \in Shards : \A i \in DOMAIN queues[t] :
           queues[t][i].ord \in Nat /\ queues[t][i].ord < nextOrdinal
    <3>1. \A t \in Shards : \A i \in DOMAIN queues[t] : queues[t][i] \in Record
      BY <1>2
    <3> QED
      BY <1>0, <3>1 DEF OrdinalsUnique, Record
  <2>3. \A r \in held : r.ord \in Nat /\ r.ord < nextOrdinal
    BY <1>0 DEF OrdinalsUnique, Record, TypeOK
  <2>4. \A t \in Shards : \A i \in DOMAIN queues'[t] : queues'[t][i].ord < nextOrdinal'
    BY <1>1, <2>1, <2>2
  <2>5. \A r \in held' : r.ord < nextOrdinal'
    BY <1>1, <2>3
  <2>6. ASSUME NEW t \in Shards, NEW u \in Shards, NEW i \in DOMAIN queues'[t],
               NEW j \in DOMAIN queues'[u], queues'[t][i].ord = queues'[u][j].ord
        PROVE t = u /\ i = j
    <3>1. CASE i \in DOMAIN queues[t] /\ queues'[t][i] = queues[t][i]
      BY <1>0, <2>1, <2>2, <2>6, <3>1 DEF OrdinalsUnique
    <3>2. CASE t = s /\ i = Len(queues[s]) + 1 /\ queues'[t][i].ord = nextOrdinal
      BY <2>1, <2>2, <2>6, <3>2
    <3> QED
      BY <2>1, <3>1, <3>2
  <2>7. ASSUME NEW r \in held', NEW t \in Shards, NEW i \in DOMAIN queues'[t]
        PROVE queues'[t][i].ord # r.ord
    BY <1>0, <1>1, <2>1, <2>3 DEF OrdinalsUnique
  <2>8. \A q, r \in held' : q.ord = r.ord => q = r
    BY <1>0, <1>1 DEF OrdinalsUnique
  <2> QED
    BY <2>4, <2>5, <2>6, <2>7, <2>8 DEF OrdinalsUnique
<1>5. ResidentRecords' = ResidentRecords \cup {rec}
  <2>1. Queued(s)' = Queued(s) \cup {rec}
    <3>1. Queued(s)' \subseteq Queued(s) \cup {rec}
      BY <1>2 DEF Queued
    <3>2. Queued(s) \subseteq Queued(s)'
      BY <1>2 DEF Queued
    <3>3. Len(queues[s]) + 1 \in DOMAIN queues'[s]
      BY <1>2
    <3>4. rec \in Queued(s)'
      BY <1>2, <3>3 DEF Queued
    <3> QED
      BY <3>1, <3>2, <3>4
  <2>2. \A t \in Shards \ {s} : Queued(t)' = Queued(t)
    BY <1>2 DEF Queued
  <2>3. AllQueued' = AllQueued \cup {rec}
    BY <2>1, <2>2 DEF AllQueued
  <2> QED
    BY <1>1, <2>3 DEF ResidentRecords
<1>6. /\ DOMAIN charges' = DOMAIN charges \cup {nextOrdinal}
      /\ charges'[nextOrdinal].class = Class(k)
      /\ \A o \in DOMAIN charges : o # nextOrdinal => charges'[o] = charges[o]
  BY DEF Accept, Reserve
<1>7. \A r \in ResidentRecords : r.ord # nextOrdinal
  <2>1. \A r \in AllQueued : r.ord # nextOrdinal
    BY <1>0, <1>1, <1>2 DEF OrdinalsUnique, AllQueued, Queued, Record
  <2> QED
    BY <1>0, <1>1, <2>1 DEF OrdinalsUnique, ResidentRecords, Record, TypeOK
<1>8. ChargedWhileResident'
  BY <1>0, <1>r, <1>5, <1>6, <1>7 DEF ChargedWhileResident, Class
<1> QED
  BY <1>3, <1>4, <1>8 DEF Core

\* drain_one moves a record from a queue to the writer, still charged.
LEMMA DrainCore ==
    ASSUME Core, NEW s \in Shards, DrainOne(s)
    PROVE  Core'
<1> DEFINE rec == Head(queues[s])
<1>0. TypeOK /\ OrdinalsUnique /\ ChargedWhileResident
  BY DEF Core
<1>1. /\ queues[s] # << >>
      /\ queues' = [queues EXCEPT ![s] = Tail(@)]
      /\ held' = held \cup {rec}
      /\ queuedBytes' = [queuedBytes EXCEPT ![s] = @ - charges[rec.ord].bytes]
      /\ UNCHANGED <<charges, residentBytes, residentCount, nextSeq, shardOf, nextOrdinal,
                     pending, overflows, highWater, generation>>
  BY DEF DrainOne, budget
<1>2. /\ rec \in Record
      /\ rec = queues[s][1]
      /\ 1 \in DOMAIN queues[s]
      /\ rec \in ResidentRecords
      /\ Tail(queues[s]) \in Seq(Record)
      /\ DOMAIN Tail(queues[s]) = 1 .. Len(queues[s]) - 1
      /\ \A i \in DOMAIN Tail(queues[s]) :
            Tail(queues[s])[i] = queues[s][i + 1] /\ i + 1 \in DOMAIN queues[s]
  BY <1>0, <1>1, HeadFacts
<1> HIDE DEF rec
<1>3. /\ queues \in [Shards -> Seq(Record)]
      /\ queues'[s] = Tail(queues[s])
      /\ \A t \in Shards \ {s} : queues'[t] = queues[t]
      /\ Len(queues[s]) \in Nat
      /\ DOMAIN queues[s] = 1 .. Len(queues[s])
  BY <1>0, <1>1 DEF TypeOK
<1>4. TypeOK'
  <2>1. charges[rec.ord].bytes \in Int
    BY <1>2, ResidentCharge, ChargeFacts
  <2>2. queuedBytes' \in [Shards -> Int]
    BY <1>0, <1>1, <2>1 DEF TypeOK
  <2>3. queues' \in [Shards -> Seq(Record)]
    BY <1>1, <1>2, <1>3
  <2> QED
    BY <1>0, <1>1, <1>2, <2>2, <2>3 DEF TypeOK
<1>5. \A t \in Shards : \A i \in DOMAIN queues'[t] :
         \E j \in DOMAIN queues[t] : /\ queues'[t][i] = queues[t][j]
                                     /\ j = IF t = s THEN i + 1 ELSE i
  BY <1>2, <1>3
<1>6. OrdinalsUnique'
  <2>1. \A t \in Shards : \A i \in DOMAIN queues'[t] :
          queues'[t][i].ord < nextOrdinal' /\ queues'[t][i].ord # rec.ord
    <3> SUFFICES ASSUME NEW t \in Shards, NEW i \in DOMAIN queues'[t]
                 PROVE  queues'[t][i].ord < nextOrdinal' /\ queues'[t][i].ord # rec.ord
      OBVIOUS
    <3>1. PICK j \in DOMAIN queues[t] : /\ queues'[t][i] = queues[t][j]
                                        /\ j = IF t = s THEN i + 1 ELSE i
      BY <1>5
    <3>2. t = s => i \in 1 .. Len(queues[s]) - 1
      BY <1>2, <1>3
    <3>3. queues[t][j].ord < nextOrdinal'
      BY <1>0, <1>1 DEF OrdinalsUnique
    <3>4. queues[t][j].ord # queues[s][1].ord
      BY <1>0, <1>2, <1>3, <3>1, <3>2 DEF OrdinalsUnique
    <3> QED
      BY <1>2, <3>1, <3>3, <3>4
  <2>2. \A r \in held' : r.ord < nextOrdinal'
    BY <1>0, <1>1, <1>2 DEF OrdinalsUnique
  <2>3. ASSUME NEW t \in Shards, NEW u \in Shards, NEW i \in DOMAIN queues'[t],
               NEW j \in DOMAIN queues'[u], queues'[t][i].ord = queues'[u][j].ord
        PROVE t = u /\ i = j
    <3>1. PICK m \in DOMAIN queues[t] : /\ queues'[t][i] = queues[t][m]
                                        /\ m = IF t = s THEN i + 1 ELSE i
      BY <1>5
    <3>2. PICK n \in DOMAIN queues[u] : /\ queues'[u][j] = queues[u][n]
                                        /\ n = IF u = s THEN j + 1 ELSE j
      BY <1>5
    <3>3. t = u /\ m = n
      BY <1>0, <2>3, <3>1, <3>2 DEF OrdinalsUnique
    <3>4. i \in Int /\ j \in Int
      BY <1>2, <1>3, <3>1, <3>2
    <3> QED
      BY <3>1, <3>2, <3>3, <3>4
  <2>4. \A r \in held' : \A t \in Shards : \A i \in DOMAIN queues'[t] :
           queues'[t][i].ord # r.ord
    <3>1. \A r \in held : \A t \in Shards : \A i \in DOMAIN queues'[t] :
             queues'[t][i].ord # r.ord
      BY <1>0, <1>5 DEF OrdinalsUnique
    <3> QED
      BY <1>1, <2>1, <3>1
  <2>5. \A q, r \in held' : q.ord = r.ord => q = r
    BY <1>0, <1>1, <1>2 DEF OrdinalsUnique
  <2> QED
    BY <2>1, <2>2, <2>3, <2>4, <2>5 DEF OrdinalsUnique
<1>7. ResidentRecords' = ResidentRecords
  <2>1. \A j \in DOMAIN queues[s] : j = 1 \/ (j - 1 \in DOMAIN queues'[s]
                                           /\ queues'[s][j - 1] = queues[s][j])
    BY <1>2, <1>3
  <2>2. Queued(s) \subseteq Queued(s)' \cup {rec}
    BY <1>2, <2>1 DEF Queued
  <2>3. Queued(s)' \subseteq Queued(s)
    BY <1>5 DEF Queued
  <2>4. rec \in Queued(s)
    BY <1>2 DEF Queued
  <2>5. \A t \in Shards \ {s} : Queued(t)' = Queued(t)
    BY <1>3 DEF Queued
  <2>6. AllQueued \subseteq AllQueued' \cup {rec} /\ AllQueued' \subseteq AllQueued
    BY <2>2, <2>3, <2>5 DEF AllQueued
  <2>7. rec \in AllQueued
    BY <2>4 DEF AllQueued
  <2> QED
    BY <1>1, <2>6, <2>7 DEF ResidentRecords
<1>8. ChargedWhileResident'
  BY <1>0, <1>1, <1>7 DEF ChargedWhileResident
<1> QED
  BY <1>4, <1>6, <1>8 DEF Core

\* release drops one held record and its charge.
LEMMA ReleaseCore ==
    ASSUME Core, NEW r \in held, Release(r)
    PROVE  Core'
<1>0. TypeOK /\ OrdinalsUnique /\ ChargedWhileResident
  BY DEF Core
<1>1. /\ held' = held \ {r}
      /\ UNCHANGED <<queues, queuedBytes, nextSeq, shardOf, nextOrdinal, pending,
                     overflows, highWater, generation>>
      /\ Uncharge(r.ord)
  BY DEF Release
<1>2. r \in ResidentRecords
  BY DEF ResidentRecords
<1>3. charges[r.ord].bytes \in Int /\ charges[r.ord].class \in Classes
  BY <1>2, ResidentCharge, ChargeFacts
<1>4. /\ residentBytes' \in [Classes -> Int]
      /\ residentCount' \in [Classes -> Int]
      /\ DOMAIN charges' = DOMAIN charges \ {r.ord}
      /\ \A o \in DOMAIN charges' : charges'[o] = charges[o]
      /\ charges' \in [DOMAIN charges' -> [class : Classes, bytes : Charges]]
  BY <1>0, <1>1, <1>3 DEF Uncharge, TypeOK
<1>5. TypeOK'
  BY <1>0, <1>1, <1>4 DEF TypeOK
<1>6. OrdinalsUnique'
  BY <1>0, <1>1 DEF OrdinalsUnique
<1>7. ResidentRecords' = ResidentRecords \ {r}
  <2>1. AllQueued' = AllQueued
    BY <1>1 DEF AllQueued, Queued
  <2>2. r \notin AllQueued
    BY <1>0 DEF OrdinalsUnique, AllQueued, Queued
  <2> QED
    BY <1>1, <2>1, <2>2 DEF ResidentRecords
<1>8. \A q \in ResidentRecords \ {r} : q.ord # r.ord
  BY <1>0 DEF OrdinalsUnique, ResidentRecords, AllQueued, Queued
<1>9. ChargedWhileResident'
  BY <1>0, <1>4, <1>7, <1>8 DEF ChargedWhileResident, Class
<1> QED
  BY <1>5, <1>6, <1>9 DEF Core

\* The other operations leave the budget and the records where they are: an
\* overflow and a taken association by definition, a replacement because the
\* ingress it replaces is quiescent.
LEMMA QuietStep ==
    ASSUME Core,
           \/ \E k \in Keys, s \in Shards, c \in Charges : Overflow(k, s, c)
           \/ \E r \in held : TakeControlAssociation(r)
           \/ ReplaceForConfig
           \/ UNCHANGED vars
    PROVE  /\ UNCHANGED <<charges, residentBytes, residentCount, queues, queuedBytes,
                          nextSeq, shardOf, nextOrdinal, highWater, held>>
           /\ pending' \subseteq pending
           /\ overflows' \in [Classes -> Nat]
           /\ generation' \in Nat
<1>0. TypeOK
  BY DEF Core
<1>1. ASSUME NEW k \in Keys, NEW s \in Shards, NEW c \in Charges, Overflow(k, s, c)
      PROVE overflows' \in [Classes -> Nat]
  <2>1. Class(k) \in Classes
    BY ChargeFacts
  <2> QED
    BY <1>0, <1>1, <2>1 DEF Overflow, TypeOK
<1>2. CASE \E k \in Keys, s \in Shards, c \in Charges : Overflow(k, s, c)
  BY <1>0, <1>1, <1>2 DEF Overflow, TypeOK, budget
<1>3. CASE \E r \in held : TakeControlAssociation(r)
  BY <1>0, <1>3 DEF TakeControlAssociation, TypeOK, budget
<1>4. CASE ReplaceForConfig
  <2>1. /\ queues' = [s \in Shards |-> << >>]
        /\ queuedBytes' = [s \in Shards |-> 0]
        /\ generation' = generation + 1
        /\ UNCHANGED <<charges, residentBytes, residentCount, nextSeq, shardOf, nextOrdinal,
                       pending, overflows, highWater, held>>
    BY <1>4 DEF ReplaceForConfig, budget
  <2>2. \A s \in Shards : queues[s] = << >> /\ queuedBytes[s] = 0
    BY <1>4 DEF ReplaceForConfig, Quiescent
  <2>3. queues' = queues /\ queuedBytes' = queuedBytes
    BY <1>0, <2>1, <2>2 DEF TypeOK
  <2> QED
    BY <1>0, <2>1, <2>3 DEF TypeOK
<1>5. CASE UNCHANGED vars
  BY <1>0, <1>5 DEF TypeOK, vars
<1> QED
  BY <1>2, <1>3, <1>4, <1>5

LEMMA QuietCore ==
    ASSUME Core,
           UNCHANGED <<charges, residentBytes, residentCount, queues, queuedBytes,
                       nextSeq, shardOf, nextOrdinal, highWater, held>>,
           pending' \subseteq pending,
           overflows' \in [Classes -> Nat],
           generation' \in Nat
    PROVE  Core' /\ ResidentRecords' = ResidentRecords
<1>0. TypeOK /\ OrdinalsUnique /\ ChargedWhileResident
  BY DEF Core
<1>1. TypeOK'
  BY <1>0 DEF TypeOK
<1>2. OrdinalsUnique'
  BY <1>0 DEF OrdinalsUnique
<1>3. ResidentRecords' = ResidentRecords
  BY DEF ResidentRecords, AllQueued, Queued
<1>4. ChargedWhileResident'
  BY <1>0, <1>3 DEF ChargedWhileResident
<1> QED
  BY <1>1, <1>2, <1>3, <1>4 DEF Core

LEMMA CoreStep == Core /\ [Next]_vars => Core'
BY AcceptCore, DrainCore, ReleaseCore, QuietStep, QuietCore DEF Next

\* RawIngress keeps its state well typed (the dictionaries and counters that
\* ingress.py builds), and binds no stream to a shard of the other class.
THEOREM TypeCorrect == Spec => []TypeOK
<1>1. Core => TypeOK
  BY DEF Core
<1> QED
  BY <1>1, InitCore, CoreStep, PTL DEF Spec

\* Every resident record is charged under its own class, and nothing else is
\* (ResidentBudget._charges against the queues and the writer's records).
THEOREM AlwaysCharged == Spec => []ChargedWhileResident
<1>1. Core => ChargedWhileResident
  BY DEF Core
<1> QED
  BY <1>1, InitCore, CoreStep, PTL DEF Spec
-----------------------------------------------------------------------------
(* The budget *)

\* The two bounds that ResidentBudget.fits enforces on its counters.
WithinBudget ==
    /\ Resident <= WorkerMaxBytes
    /\ residentBytes["normal"] <= WorkerMaxBytes - ControlReserve

LEMMA InitBudget == Init => WithinBudget
BY BudgetAssumption DEF Init, WithinBudget, Resident, Classes

LEMMA BudgetStep ==
    ASSUME Core, WithinBudget, [Next]_vars
    PROVE  WithinBudget'
<1>0. /\ residentBytes \in [Classes -> Int]
      /\ "normal" \in Classes /\ "control" \in Classes
      /\ WorkerMaxBytes \in Int /\ ControlReserve \in Int
  BY BudgetAssumption DEF Core, TypeOK, Classes
<1>1. ASSUME NEW k \in Keys, NEW s \in Shards, NEW c \in Charges, NEW a \in BOOLEAN,
             Accept(k, s, c, a)
      PROVE  WithinBudget'
  <2>1. Fits(Class(k), c) /\ residentBytes' = [residentBytes EXCEPT ![Class(k)] = @ + c]
    BY <1>1 DEF Accept, HasRoom, Reserve
  <2>2. Class(k) = "normal" \/ Class(k) = "control"
    BY DEF Class
  <2>3. c \in Int
    BY ChargeFacts
  <2>4. CASE Class(k) = "normal"
    BY <1>0, <2>1, <2>3, <2>4 DEF WithinBudget, Fits, Resident
  <2>5. CASE Class(k) = "control"
    BY <1>0, <2>1, <2>3, <2>5 DEF WithinBudget, Fits, Resident
  <2> QED
    BY <2>2, <2>4, <2>5
<1>2. ASSUME NEW r \in held, Release(r)
      PROVE  WithinBudget'
  <2>1. r \in ResidentRecords
    BY DEF ResidentRecords
  <2> DEFINE class == charges[r.ord].class
             bytes == charges[r.ord].bytes
  <2>2. bytes \in Int /\ bytes > 0 /\ class \in Classes
    BY <2>1, ResidentCharge, ChargeFacts
  <2>3. residentBytes' = [residentBytes EXCEPT ![class] = @ - bytes]
    BY <1>2 DEF Release, Uncharge
  <2>4. class = "normal" \/ class = "control"
    BY <2>2 DEF Classes
  <2> HIDE DEF class, bytes
  <2>5. CASE class = "normal"
    BY <1>0, <2>2, <2>3, <2>5 DEF WithinBudget, Resident
  <2>6. CASE class = "control"
    BY <1>0, <2>2, <2>3, <2>6 DEF WithinBudget, Resident
  <2> QED
    BY <2>4, <2>5, <2>6
<1>3. ASSUME NEW s \in Shards, DrainOne(s)
      PROVE  WithinBudget'
  BY <1>3 DEF DrainOne, budget, WithinBudget, Resident
<1>4. ASSUME UNCHANGED residentBytes
      PROVE  WithinBudget'
  BY <1>4 DEF WithinBudget, Resident
<1> QED
  BY <1>1, <1>2, <1>3, <1>4, QuietStep DEF Next

\* Normal traffic never eats into the control reserve, and the worker never
\* holds more than worker_max_bytes, for every configuration and every order
\* of acceptance, draining and release (ResidentBudget.fits/reserve/release).
THEOREM ControlReserveAlwaysKept == Spec => []ControlReserveKept
<1>1. Core /\ WithinBudget => ControlReserveKept
  <2> SUFFICES ASSUME Core, WithinBudget PROVE ControlReserveKept
    OBVIOUS
  <2>1. /\ residentBytes["normal"] \in Int /\ residentBytes["control"] \in Int
        /\ WorkerMaxBytes \in Int /\ ControlReserve \in Int
    BY BudgetAssumption DEF Core, TypeOK, Classes
  <2>2. \A c \in Charges : c \in Int
    BY ChargeFacts
  <2> QED
    BY <2>1, <2>2 DEF WithinBudget, ControlReserveKept, Resident, Fits
<1>2. Core /\ WithinBudget /\ [Next]_vars => WithinBudget'
  BY BudgetStep
<1> QED
  BY <1>1, <1>2, InitCore, InitBudget, CoreStep, PTL DEF Spec
-----------------------------------------------------------------------------
(* One configuration generation at a time *)

\* The record counters that replacement_for_config trusts are exact.
CountsExact ==
    /\ IsFiniteSet(DOMAIN charges)
    /\ \A c \in Classes : residentCount[c] = Cardinality(OrdsOf(c))

LEMMA InitCounts == Init => CountsExact
<1> SUFFICES ASSUME Init PROVE CountsExact
  OBVIOUS
<1>1. DOMAIN charges = {}
  BY DEF Init
<1>2. \A c \in Classes : OrdsOf(c) = {}
  BY <1>1 DEF OrdsOf
<1> QED
  BY <1>1, <1>2, FS_EmptySet DEF Init, CountsExact

LEMMA AcceptCounts ==
    ASSUME Core, CountsExact, NEW k \in Keys, NEW s \in Shards, NEW c \in Charges,
           NEW a \in BOOLEAN, Accept(k, s, c, a)
    PROVE  CountsExact'
<1>0. TypeOK /\ OrdinalsUnique /\ ChargedWhileResident
  BY DEF Core
<1>1. /\ DOMAIN charges' = DOMAIN charges \cup {nextOrdinal}
      /\ charges'[nextOrdinal].class = Class(k)
      /\ \A o \in DOMAIN charges : o # nextOrdinal => charges'[o] = charges[o]
      /\ residentCount' = [residentCount EXCEPT ![Class(k)] = @ + 1]
  BY DEF Accept, Reserve
<1>2. nextOrdinal \notin DOMAIN charges
  <2>1. \A r \in AllQueued : r.ord # nextOrdinal
    <3>1. \A t \in Shards : \A i \in DOMAIN queues[t] : queues[t][i] \in Record
      BY <1>0 DEF TypeOK
    <3>2. \A t \in Shards : \A i \in DOMAIN queues[t] : queues[t][i].ord < nextOrdinal
                                                       /\ queues[t][i].ord \in Nat
      BY <1>0, <3>1 DEF OrdinalsUnique, Record
    <3> QED
      BY <1>0, <3>2 DEF AllQueued, Queued, TypeOK
  <2>2. \A r \in held : r.ord # nextOrdinal
    BY <1>0 DEF OrdinalsUnique, TypeOK, Record
  <2> QED
    BY <1>0, <2>1, <2>2 DEF ChargedWhileResident, ResidentRecords
<1>3. /\ OrdsOf(Class(k))' = OrdsOf(Class(k)) \cup {nextOrdinal}
      /\ nextOrdinal \notin OrdsOf(Class(k))
      /\ \A d \in Classes \ {Class(k)} : OrdsOf(d)' = OrdsOf(d)
  BY <1>1, <1>2 DEF OrdsOf
<1>4. IsFiniteSet(DOMAIN charges')
  BY <1>1, FS_AddElement DEF CountsExact
<1>5. \A d \in Classes : IsFiniteSet(OrdsOf(d))
  BY FS_Subset DEF OrdsOf, CountsExact
<1>6. Class(k) \in Classes
  BY ChargeFacts
<1>7. Cardinality(OrdsOf(Class(k))') = Cardinality(OrdsOf(Class(k))) + 1
  BY <1>3, <1>5, <1>6, FS_AddElement
<1>8. residentCount \in [Classes -> Int]
  BY <1>0 DEF TypeOK
<1>9. ASSUME NEW d \in Classes
      PROVE  residentCount'[d] = Cardinality(OrdsOf(d)')
  <2>1. residentCount[d] = Cardinality(OrdsOf(d))
    BY DEF CountsExact
  <2>2. CASE d = Class(k)
    BY <1>1, <1>7, <1>8, <2>1, <2>2
  <2>3. CASE d # Class(k)
    <3>1. OrdsOf(d)' = OrdsOf(d)
      BY <1>3, <2>3
    <3>2. residentCount'[d] = residentCount[d]
      BY <1>1, <1>8, <2>3
    <3> QED
      BY <2>1, <3>1, <3>2
  <2> QED
    BY <2>2, <2>3
<1> QED
  BY <1>4, <1>9 DEF CountsExact

LEMMA ReleaseCounts ==
    ASSUME Core, CountsExact, NEW r \in held, Release(r)
    PROVE  CountsExact'
<1>0. residentCount \in [Classes -> Int]
  BY DEF Core, TypeOK
<1>1. r \in ResidentRecords
  BY DEF ResidentRecords
<1>2. /\ charges[r.ord].class \in Classes
      /\ r.ord \in DOMAIN charges
  BY <1>1, ResidentCharge
<1>c. PICK class \in Classes : class = charges[r.ord].class
  BY <1>2
<1>3. /\ DOMAIN charges' = DOMAIN charges \ {r.ord}
      /\ \A o \in DOMAIN charges' : charges'[o] = charges[o]
      /\ residentCount' = [residentCount EXCEPT ![class] = @ - 1]
  BY <1>c DEF Release, Uncharge
<1>4. /\ OrdsOf(class)' = OrdsOf(class) \ {r.ord}
      /\ r.ord \in OrdsOf(class)
      /\ \A d \in Classes \ {class} : OrdsOf(d)' = OrdsOf(d)
  BY <1>2, <1>3, <1>c DEF OrdsOf
<1>5. IsFiniteSet(DOMAIN charges')
  BY <1>3, FS_RemoveElement DEF CountsExact
<1>6. \A d \in Classes : IsFiniteSet(OrdsOf(d))
  BY FS_Subset DEF OrdsOf, CountsExact
<1>7. Cardinality(OrdsOf(class)') = Cardinality(OrdsOf(class)) - 1
  BY <1>2, <1>4, <1>6, FS_RemoveElement
<1>8. ASSUME NEW d \in Classes
      PROVE  residentCount'[d] = Cardinality(OrdsOf(d)')
  <2>1. residentCount[d] = Cardinality(OrdsOf(d))
    BY DEF CountsExact
  <2>2. CASE d = class
    BY <1>0, <1>3, <1>7, <2>1, <2>2
  <2>3. CASE d # class
    <3>1. OrdsOf(d)' = OrdsOf(d)
      BY <1>4, <2>3
    <3>2. residentCount'[d] = residentCount[d]
      BY <1>0, <1>3, <2>3
    <3> QED
      BY <2>1, <3>1, <3>2
  <2> QED
    BY <2>2, <2>3
<1> QED
  BY <1>5, <1>8 DEF CountsExact

LEMMA CountsStep ==
    ASSUME Core, CountsExact, [Next]_vars
    PROVE  CountsExact'
<1>1. ASSUME UNCHANGED <<charges, residentCount>>
      PROVE  CountsExact'
  BY <1>1 DEF CountsExact, OrdsOf
<1>2. ASSUME NEW s \in Shards, DrainOne(s)
      PROVE  CountsExact'
  BY <1>1, <1>2 DEF DrainOne, budget
<1> QED
  BY <1>1, <1>2, AcceptCounts, ReleaseCounts, QuietStep DEF Next

\* A quiescent ingress holds no record at all, queued or in the writer's hands.
LEMMA QuiescentEmpty ==
    ASSUME Core, CountsExact, Quiescent
    PROVE  ResidentRecords = {}
<1>1. \A c \in Classes : /\ IsFiniteSet(OrdsOf(c))
                         /\ residentCount[c] = Cardinality(OrdsOf(c))
                         /\ residentCount[c] \in Nat
  BY FS_Subset, FS_CardinalityType DEF CountsExact, OrdsOf
<1>2. "normal" \in Classes /\ "control" \in Classes /\ Classes = {"normal", "control"}
  BY DEF Classes
<1>3. residentCount["normal"] = 0 /\ residentCount["control"] = 0
  BY <1>1, <1>2 DEF Quiescent
<1>4. \A c \in Classes : OrdsOf(c) = {}
  BY <1>1, <1>2, <1>3, FS_EmptySet
<1>5. \A o \in DOMAIN charges : charges[o].class \in Classes
  BY DEF Core, TypeOK
<1>6. DOMAIN charges = {}
  BY <1>4, <1>5 DEF OrdsOf
<1> QED
  BY <1>6 DEF Core, ChargedWhileResident

LEMMA GenerationStep ==
    ASSUME Core, CountsExact, SingleGeneration, [Next]_vars
    PROVE  SingleGeneration'
<1>1. ASSUME NEW k \in Keys, NEW s \in Shards, NEW c \in Charges, NEW a \in BOOLEAN,
             Accept(k, s, c, a)
      PROVE  SingleGeneration'
  <2> DEFINE rec == [ord |-> nextOrdinal, key |-> k, seq |-> nextSeq[k], gen |-> generation]
  <2>1. /\ generation' = generation
        /\ held' = held
        /\ queues' = [queues EXCEPT ![s] = Append(@, rec)]
    BY <1>1 DEF Accept
  <2>2. rec.gen = generation /\ rec \in Record
    BY DEF Core, TypeOK, Record
  <2> HIDE DEF rec
  <2>3. \A t \in Shards : \A i \in DOMAIN queues'[t] :
           (i \in DOMAIN queues[t] /\ queues'[t][i] = queues[t][i]) \/ queues'[t][i] = rec
    BY <2>1, <2>2 DEF Core, TypeOK
  <2> QED
    BY <2>1, <2>2, <2>3 DEF SingleGeneration, ResidentRecords, AllQueued, Queued
<1>2. ASSUME NEW s \in Shards, DrainOne(s)
      PROVE  SingleGeneration'
  <2>1. TypeOK /\ queues[s] # << >>
    BY <1>2 DEF Core, DrainOne
  <2>2. /\ Head(queues[s]) \in ResidentRecords
        /\ \A i \in DOMAIN Tail(queues[s]) :
              Tail(queues[s])[i] = queues[s][i + 1] /\ i + 1 \in DOMAIN queues[s]
    BY <2>1, HeadFacts
  <2>3. /\ queues' = [queues EXCEPT ![s] = Tail(@)]
        /\ held' = held \cup {Head(queues[s])}
        /\ generation' = generation
    BY <1>2 DEF DrainOne
  <2>4. \A t \in Shards : Queued(t)' \subseteq Queued(t)
    BY <2>1, <2>2, <2>3 DEF Queued, TypeOK
  <2>5. ResidentRecords' \subseteq ResidentRecords
    BY <2>2, <2>3, <2>4 DEF ResidentRecords, AllQueued
  <2> QED
    BY <2>3, <2>5 DEF SingleGeneration
<1>3. ASSUME NEW r \in held, Release(r)
      PROVE  SingleGeneration'
  <2>1. held' \subseteq held /\ queues' = queues /\ generation' = generation
    BY <1>3 DEF Release
  <2>2. ResidentRecords' \subseteq ResidentRecords
    BY <2>1 DEF ResidentRecords, AllQueued, Queued
  <2> QED
    BY <2>1, <2>2 DEF SingleGeneration
<1>4. CASE ReplaceForConfig
  <2>1. Quiescent
    BY <1>4 DEF ReplaceForConfig
  <2> QED
    BY <1>4, <2>1, QuiescentEmpty, QuietStep, QuietCore DEF SingleGeneration
<1>5. ASSUME \/ \E k \in Keys, s \in Shards, c \in Charges : Overflow(k, s, c)
             \/ \E r \in held : TakeControlAssociation(r)
             \/ UNCHANGED vars
      PROVE  SingleGeneration'
  <2>1. generation' = generation
    BY <1>5 DEF Overflow, TakeControlAssociation, vars
  <2>2. ResidentRecords' = ResidentRecords
    BY <1>5, QuietStep, QuietCore
  <2> QED
    BY <2>1, <2>2 DEF SingleGeneration
<1> QED
  BY <1>1, <1>2, <1>3, <1>4, <1>5 DEF Next

\* A configuration change never leaves a record of the old generation behind:
\* replacement_for_config succeeds only when the byte budget, the counters and
\* the queues all say so, and together they are exact.
THEOREM AlwaysSingleGeneration == Spec => []SingleGeneration
<1>1. Init => SingleGeneration
  BY DEF Init, SingleGeneration, ResidentRecords, AllQueued, Queued
<1>2. Core /\ CountsExact /\ [Next]_vars => CountsExact'
  BY CountsStep
<1>3. Core /\ CountsExact /\ SingleGeneration /\ [Next]_vars => SingleGeneration'
  BY GenerationStep
<1> QED
  BY <1>1, <1>2, <1>3, InitCore, InitCounts, CoreStep, PTL DEF Spec

\* Ordinals, sequences and shard bindings are never handed out again, whatever
\* is drained, refused or replaced in between (try_accept, replacement_for_config).
THEOREM IdentitiesNeverReusedThm == Spec => IdentitiesNeverReused
<1> DEFINE Grows ==
      /\ nextOrdinal' >= nextOrdinal
      /\ \A k \in Keys : /\ nextSeq'[k] >= nextSeq[k]
                         /\ shardOf[k] # NoShard => shardOf'[k] = shardOf[k]
<1>1. Core /\ [Next]_vars => [Grows]_vars
  <2> SUFFICES ASSUME Core, [Next]_vars PROVE Grows
    OBVIOUS
  <2>0. /\ nextOrdinal \in Nat
        /\ nextSeq \in [Keys -> Nat]
        /\ shardOf \in [Keys -> Shards \cup {NoShard}]
    BY DEF Core, TypeOK
  <2>1. ASSUME NEW k \in Keys, NEW s \in Shards, NEW c \in Charges, NEW a \in BOOLEAN,
               Accept(k, s, c, a)
        PROVE  Grows
    <3>1. /\ nextOrdinal' = nextOrdinal + 1
          /\ nextSeq' = [nextSeq EXCEPT ![k] = @ + 1]
          /\ shardOf' = [shardOf EXCEPT ![k] = s]
          /\ shardOf[k] \in {NoShard, s}
      BY <2>1 DEF Accept, ShardAllowed
    <3> QED
      BY <2>0, <3>1
  <2>2. ASSUME UNCHANGED <<nextOrdinal, nextSeq, shardOf>>
        PROVE  Grows
    BY <2>0, <2>2
  <2>3. ASSUME NEW s \in Shards, DrainOne(s)
        PROVE  Grows
    BY <2>2, <2>3 DEF DrainOne
  <2>4. ASSUME NEW r \in held, Release(r)
        PROVE  Grows
    BY <2>2, <2>4 DEF Release
  <2> HIDE DEF Grows
  <2> QED
    BY <2>1, <2>2, <2>3, <2>4, QuietStep DEF Next
<1> QED
  BY <1>1, InitCore, CoreStep, PTL DEF Spec, IdentitiesNeverReused
-----------------------------------------------------------------------------
(* Sums over finite sets *)

\* The bytes of the charges c of a set of ordinals.
Total(c, S) == MapThenSumSet(LAMBDA o : c[o].bytes, S)
Bytes(c, S) == \A o \in S : c[o].bytes \in Int
ByteWeights(c, S) == [o \in S |-> c[o].bytes]

\* It is the sum of the weights that the charges give.
LEMMA TotalIsSum ==
    ASSUME NEW c, NEW S, IsFiniteSet(S), Bytes(c, S)
    PROVE  Total(c, S) = SumOf(ByteWeights(c, S), S) /\ Weighed(ByteWeights(c, S), S)
<1> DEFINE w == ByteWeights(c, S)
           Summing(g) == g = [s \in SUBSET S |-> IF s = {} THEN 0
                              ELSE c[CHOOSE x \in s : TRUE].bytes + g[s \ {CHOOSE x \in s : TRUE}]]
           F == CHOOSE g : Summing(g)
<1>1. Total(c, S) = F[S]
  BY DEF Total, MapThenSumSet, MapThenFoldSet
<1>2. Weighed(w, S)
  BY DEF Weighed, Bytes, ByteWeights
<1>3. ASSUME NEW g PROVE Summing(g) <=> IsSum(w, S, g)
  <2>1. ASSUME NEW s \in SUBSET S
        PROVE  SumStep(w, g, s) = IF s = {} THEN 0
                  ELSE c[CHOOSE x \in s : TRUE].bytes + g[s \ {CHOOSE x \in s : TRUE}]
    BY DEF SumStep, Picked, ByteWeights
  <2> HIDE DEF w
  <2> QED
    BY <2>1 DEF IsSum
<1>4. PICK g : IsSum(w, S, g) /\ SumOf(w, S) = g[S]
  <2> HIDE DEF w
  <2> QED
    BY <1>2, SumIs
<1> HIDE DEF w, Summing
<1>5. Summing(F)
  BY <1>3, <1>4, Zenon
<1>6. IsSum(w, S, F)
  BY <1>3, <1>5
<1> HIDE DEF F
<1>7. F[S] = g[S]
  BY <1>4, <1>6, SumsAgree
<1> QED
  BY <1>1, <1>2, <1>4, <1>7 DEF w

\* What the proofs use: the empty sum, one charge more, one charge less, and
\* charges that changed elsewhere.
LEMMA TotalFacts ==
    ASSUME NEW c, NEW S, IsFiniteSet(S), Bytes(c, S)
    PROVE  /\ Total(c, S) \in Int
           /\ S = {} => Total(c, S) = 0
           /\ \A x \in S : Total(c, S \ {x}) = Total(c, S) - c[x].bytes
           /\ \A d : (\A o \in S : c[o] = d[o]) => Total(d, S) = Total(c, S)
<1>1. /\ Total(c, S) = SumOf(ByteWeights(c, S), S) /\ Weighed(ByteWeights(c, S), S)
      /\ SumOf(ByteWeights(c, S), S) \in Int
      /\ S = {} => SumOf(ByteWeights(c, S), S) = 0
  BY TotalIsSum, SumFacts
<1>2. ASSUME NEW x \in S PROVE Total(c, S \ {x}) = Total(c, S) - c[x].bytes
  <2>1. IsFiniteSet(S \ {x}) /\ Bytes(c, S \ {x})
    BY FS_RemoveElement DEF Bytes
  <2>2. /\ Total(c, S \ {x}) = SumOf(ByteWeights(c, S \ {x}), S \ {x})
        /\ Weighed(ByteWeights(c, S \ {x}), S \ {x})
    BY <2>1, TotalIsSum
  <2>3. \A o \in S \ {x} : ByteWeights(c, S \ {x})[o] = ByteWeights(c, S)[o]
    BY DEF ByteWeights
  <2>4. SumOf(ByteWeights(c, S), S \ {x}) = SumOf(ByteWeights(c, S \ {x}), S \ {x})
    BY <2>1, <2>2, <2>3, SumFacts
  <2>5. SumOf(ByteWeights(c, S), S \ {x}) = SumOf(ByteWeights(c, S), S) - ByteWeights(c, S)[x]
    BY <1>1, SumFacts
  <2> QED
    BY <1>1, <2>2, <2>4, <2>5 DEF ByteWeights
<1>3. ASSUME NEW d, \A o \in S : c[o] = d[o] PROVE Total(d, S) = Total(c, S)
  <2>1. Bytes(d, S) /\ ByteWeights(d, S) = ByteWeights(c, S)
    BY <1>3 DEF Bytes, ByteWeights
  <2> QED
    BY <1>1, <2>1, TotalIsSum
<1> QED
  BY <1>1, <1>2, <1>3

LEMMA TotalAdd ==
    ASSUME NEW c, NEW d, NEW S, IsFiniteSet(S), Bytes(c, S), NEW x, x \notin S,
           \A o \in S : c[o] = d[o], d[x].bytes \in Int
    PROVE  Total(d, S \cup {x}) = Total(c, S) + d[x].bytes
<1>1. IsFiniteSet(S \cup {x}) /\ Bytes(d, S \cup {x}) /\ (S \cup {x}) \ {x} = S
  BY FS_AddElement DEF Bytes
<1>2. Total(d, S) = Total(d, S \cup {x}) - d[x].bytes /\ Total(d, S \cup {x}) \in Int
  <2>1. x \in S \cup {x}
    OBVIOUS
  <2>2. Total(d, (S \cup {x}) \ {x}) = Total(d, S \cup {x}) - d[x].bytes
    BY <1>1, <2>1, TotalFacts
  <2>3. Total(d, S \cup {x}) \in Int
    BY <1>1, TotalFacts
  <2> QED
    BY <1>1, <2>2, <2>3
<1>3. Total(d, S) = Total(c, S)
  BY TotalFacts
<1> QED
  BY <1>2, <1>3

LEMMA TotalRemove ==
    ASSUME NEW c, NEW d, NEW S, IsFiniteSet(S), Bytes(c, S), NEW x \in S,
           \A o \in S \ {x} : c[o] = d[o]
    PROVE  Total(d, S \ {x}) = Total(c, S) - c[x].bytes
<1>1. IsFiniteSet(S \ {x}) /\ Bytes(c, S \ {x})
  BY FS_RemoveElement DEF Bytes
<1>2. Total(d, S \ {x}) = Total(c, S \ {x})
  BY <1>1, TotalFacts
<1>3. Total(c, S \ {x}) = Total(c, S) - c[x].bytes
  BY TotalFacts
<1> QED
  BY <1>2, <1>3
-----------------------------------------------------------------------------
(* The byte counters *)

OrdsIn(s) == {r.ord : r \in Queued(s)}

\* What admission compares with its limits, in bytes.
Sums ==
    /\ \A d \in Classes : residentBytes[d] = Total(charges, OrdsOf(d))
    /\ \A s \in Shards : queuedBytes[s] = Total(charges, OrdsIn(s))

LEMMA SumsSay ==
    ASSUME CountsExact, Sums
    PROVE  BudgetConserved /\ QueuedBytesExact
BY DEF CountsExact, Sums, BudgetConserved, QueuedBytesExact, BytesOf, Total, OrdsIn

\* The sets that are summed are finite sets of charged ordinals.
LEMMA SummedFacts ==
    ASSUME Core, CountsExact
    PROVE  /\ \A S \in SUBSET DOMAIN charges : IsFiniteSet(S) /\ Bytes(charges, S)
           /\ \A d \in Classes : OrdsOf(d) \in SUBSET DOMAIN charges
           /\ \A s \in Shards : OrdsIn(s) \in SUBSET DOMAIN charges
           /\ nextOrdinal \notin DOMAIN charges
<1>0. TypeOK /\ OrdinalsUnique /\ ChargedWhileResident
  BY DEF Core
<1>1. \A o \in DOMAIN charges : charges[o].bytes \in Int
  BY <1>0, ChargeFacts DEF TypeOK
<1>2. \A s \in Shards : OrdsIn(s) \in SUBSET DOMAIN charges
  BY <1>0 DEF OrdsIn, ChargedWhileResident, ResidentRecords, AllQueued
<1>3. \A r \in ResidentRecords : r.ord \in Nat /\ r.ord < nextOrdinal
  <2>1. \A t \in Shards : \A i \in DOMAIN queues[t] : queues[t][i] \in Record
    BY <1>0 DEF TypeOK
  <2>2. \A r \in AllQueued : r.ord \in Nat /\ r.ord < nextOrdinal
    BY <1>0, <2>1 DEF OrdinalsUnique, AllQueued, Queued, Record
  <2>3. \A r \in held : r.ord \in Nat /\ r.ord < nextOrdinal
    BY <1>0 DEF OrdinalsUnique, TypeOK, Record
  <2> QED
    BY <2>2, <2>3 DEF ResidentRecords
<1>4. nextOrdinal \notin DOMAIN charges
  BY <1>0, <1>3 DEF ChargedWhileResident, TypeOK
<1> QED
  BY <1>1, <1>2, <1>4, FS_Subset DEF CountsExact, OrdsOf, Bytes

LEMMA InitSums == Init => Sums
<1> SUFFICES ASSUME Init PROVE Sums
  OBVIOUS
<1>1. \A d \in Classes : OrdsOf(d) = {}
  BY DEF Init, OrdsOf
<1>2. \A s \in Shards : OrdsIn(s) = {}
  BY DEF Init, OrdsIn, Queued
<1>3. Total(charges, {}) = 0
  BY FS_EmptySet, TotalFacts DEF Bytes
<1> QED
  BY <1>1, <1>2, <1>3 DEF Init, Sums

\* try_accept appends one record to one queue and leaves the others.
LEMMA AcceptQueues ==
    ASSUME TypeOK, NEW k \in Keys, NEW s \in Shards, NEW c \in Charges, NEW a \in BOOLEAN,
           Accept(k, s, c, a), NEW rec,
           rec = [ord |-> nextOrdinal, key |-> k, seq |-> nextSeq[k], gen |-> generation]
    PROVE  /\ Len(queues[s]) \in Nat
           /\ DOMAIN queues[s] = 1 .. Len(queues[s])
           /\ DOMAIN queues'[s] = 1 .. Len(queues[s]) + 1
           /\ queues'[s][Len(queues[s]) + 1] = rec
           /\ \A i \in DOMAIN queues[s] : queues'[s][i] = queues[s][i]
           /\ \A t \in Shards \ {s} : queues'[t] = queues[t]
           /\ Queued(s)' = Queued(s) \cup {rec}
           /\ \A t \in Shards \ {s} : Queued(t)' = Queued(t)
           /\ held' = held
<1>1. /\ rec \in Record
      /\ held' = held
      /\ queues' = [queues EXCEPT ![s] = Append(@, rec)]
  BY DEF Accept, Record, TypeOK
<1>2. /\ Len(queues[s]) \in Nat
      /\ DOMAIN queues[s] = 1 .. Len(queues[s])
      /\ DOMAIN queues'[s] = 1 .. Len(queues[s]) + 1
      /\ queues'[s][Len(queues[s]) + 1] = rec
      /\ \A i \in DOMAIN queues[s] : queues'[s][i] = queues[s][i]
      /\ \A t \in Shards \ {s} : queues'[t] = queues[t]
  BY <1>1 DEF TypeOK
<1>3. Queued(s)' \subseteq Queued(s) \cup {rec}
  BY <1>2 DEF Queued
<1>4. Queued(s) \subseteq Queued(s)'
  BY <1>2 DEF Queued
<1>5. Len(queues[s]) + 1 \in DOMAIN queues'[s]
  BY <1>2
<1>6. rec \in Queued(s)'
  BY <1>2, <1>5 DEF Queued
<1>7. \A t \in Shards \ {s} : Queued(t)' = Queued(t)
  BY <1>2 DEF Queued
<1> QED
  BY <1>1, <1>2, <1>3, <1>4, <1>6, <1>7

LEMMA AcceptSums ==
    ASSUME Core, CountsExact, Sums, NEW k \in Keys, NEW s \in Shards, NEW c \in Charges,
           NEW a \in BOOLEAN, Accept(k, s, c, a)
    PROVE  Sums'
<1>1. /\ DOMAIN charges' = DOMAIN charges \cup {nextOrdinal}
      /\ charges'[nextOrdinal].class = Class(k) /\ charges'[nextOrdinal].bytes = c
      /\ \A o \in DOMAIN charges : o # nextOrdinal => charges'[o] = charges[o]
      /\ residentBytes' = [residentBytes EXCEPT ![Class(k)] = @ + c]
      /\ queuedBytes' = [queuedBytes EXCEPT ![s] = @ + c]
  BY DEF Accept, Reserve
<1>2. nextOrdinal \notin DOMAIN charges /\ c \in Int /\ Class(k) \in Classes
  BY SummedFacts, ChargeFacts
<1>3. residentBytes \in [Classes -> Int] /\ queuedBytes \in [Shards -> Int]
  BY DEF Core, TypeOK
<1>4. ASSUME NEW S \in SUBSET DOMAIN charges
      PROVE  /\ Total(charges', S) = Total(charges, S)
             /\ Total(charges', S \cup {nextOrdinal}) = Total(charges, S) + c
  <2>1. IsFiniteSet(S) /\ Bytes(charges, S) /\ nextOrdinal \notin S
    BY <1>2, SummedFacts
  <2>2. \A o \in S : charges[o] = charges'[o]
    BY <1>1, <1>2
  <2> QED
    BY <1>1, <1>2, <2>1, <2>2, TotalFacts, TotalAdd
<1>5. /\ OrdsOf(Class(k))' = OrdsOf(Class(k)) \cup {nextOrdinal}
      /\ \A d \in Classes \ {Class(k)} : OrdsOf(d)' = OrdsOf(d)
  BY <1>1, <1>2 DEF OrdsOf
<1>6. /\ OrdsIn(s)' = OrdsIn(s) \cup {nextOrdinal}
      /\ \A t \in Shards \ {s} : OrdsIn(t)' = OrdsIn(t)
  <2>1. PICK rec : rec = [ord |-> nextOrdinal, key |-> k, seq |-> nextSeq[k], gen |-> generation]
    OBVIOUS
  <2>2. Queued(s)' = Queued(s) \cup {rec} /\ \A t \in Shards \ {s} : Queued(t)' = Queued(t)
    BY <2>1, AcceptQueues DEF Core
  <2>3. rec.ord = nextOrdinal
    BY <2>1
  <2> QED
    BY <2>2, <2>3 DEF OrdsIn
<1>7. ASSUME NEW d \in Classes PROVE residentBytes'[d] = Total(charges', OrdsOf(d)')
  <2>1. OrdsOf(d) \in SUBSET DOMAIN charges /\ residentBytes[d] = Total(charges, OrdsOf(d))
    BY SummedFacts DEF Sums
  <2> QED
    BY <1>1, <1>3, <1>4, <1>5, <2>1
<1>8. ASSUME NEW t \in Shards PROVE queuedBytes'[t] = Total(charges', OrdsIn(t)')
  <2>1. OrdsIn(t) \in SUBSET DOMAIN charges /\ queuedBytes[t] = Total(charges, OrdsIn(t))
    BY SummedFacts DEF Sums
  <2> QED
    BY <1>1, <1>3, <1>4, <1>6, <2>1
<1> QED
  BY <1>7, <1>8 DEF Sums

\* drain_one moves the head's charge out of its shard's bytes.
LEMMA DrainQueues ==
    ASSUME Core, NEW s \in Shards, DrainOne(s)
    PROVE  /\ OrdsIn(s)' = OrdsIn(s) \ {Head(queues[s]).ord}
           /\ Head(queues[s]).ord \in OrdsIn(s)
           /\ \A t \in Shards \ {s} : OrdsIn(t)' = OrdsIn(t)
           /\ ResidentRecords' = ResidentRecords
<1>0. TypeOK /\ OrdinalsUnique /\ queues[s] # << >>
  BY DEF Core, DrainOne
<1>1. /\ queues' = [queues EXCEPT ![s] = Tail(@)]
      /\ held' = held \cup {Head(queues[s])}
  BY DEF DrainOne
<1>2. PICK rec : rec = Head(queues[s])
  OBVIOUS
<1>3. /\ rec = queues[s][1] /\ 1 \in DOMAIN queues[s]
      /\ DOMAIN Tail(queues[s]) = 1 .. Len(queues[s]) - 1
      /\ \A i \in DOMAIN Tail(queues[s]) :
            Tail(queues[s])[i] = queues[s][i + 1] /\ i + 1 \in DOMAIN queues[s]
  BY <1>0, <1>2, HeadFacts
<1>4. /\ queues'[s] = Tail(queues[s])
      /\ \A t \in Shards \ {s} : queues'[t] = queues[t]
      /\ Len(queues[s]) \in Nat /\ DOMAIN queues[s] = 1 .. Len(queues[s])
  BY <1>0, <1>1 DEF TypeOK
<1>5. \A j \in DOMAIN queues[s] : j = 1 \/ (j - 1 \in DOMAIN queues'[s]
                                         /\ queues'[s][j - 1] = queues[s][j])
  BY <1>3, <1>4
<1>6. Queued(s) = Queued(s)' \cup {rec}
  <2>1. Queued(s) \subseteq Queued(s)' \cup {rec}
    BY <1>3, <1>5 DEF Queued
  <2>2. Queued(s)' \subseteq Queued(s) /\ rec \in Queued(s)
    BY <1>3, <1>4 DEF Queued
  <2> QED
    BY <2>1, <2>2
<1>7. \A r \in Queued(s)' : r.ord # rec.ord
  <2> SUFFICES ASSUME NEW i \in DOMAIN queues'[s] PROVE queues'[s][i].ord # rec.ord
    BY DEF Queued
  <2>1. i + 1 \in DOMAIN queues[s] /\ queues'[s][i] = queues[s][i + 1] /\ i + 1 # 1
    BY <1>3, <1>4
  <2> QED
    BY <1>0, <1>3, <2>1 DEF OrdinalsUnique
<1>8. \A t \in Shards \ {s} : Queued(t)' = Queued(t)
  BY <1>4 DEF Queued
<1>9. ResidentRecords' = ResidentRecords
  BY <1>1, <1>2, <1>6, <1>8 DEF ResidentRecords, AllQueued
<1> QED
  BY <1>2, <1>6, <1>7, <1>8, <1>9 DEF OrdsIn

LEMMA DrainSums ==
    ASSUME Core, CountsExact, Sums, NEW s \in Shards, DrainOne(s)
    PROVE  Sums'
<1>1. /\ queuedBytes' = [queuedBytes EXCEPT ![s] = @ - charges[Head(queues[s]).ord].bytes]
      /\ UNCHANGED <<charges, residentBytes>>
  BY DEF DrainOne, budget
<1>2. PICK o : o = Head(queues[s]).ord
  OBVIOUS
<1>3. /\ OrdsIn(s)' = OrdsIn(s) \ {o} /\ o \in OrdsIn(s)
      /\ \A t \in Shards \ {s} : OrdsIn(t)' = OrdsIn(t)
  BY <1>2, DrainQueues
<1>4. \A d \in Classes : OrdsOf(d)' = OrdsOf(d)
  BY <1>1 DEF OrdsOf
<1>5. IsFiniteSet(OrdsIn(s)) /\ Bytes(charges, OrdsIn(s))
  BY SummedFacts
<1>6. Total(charges, OrdsIn(s) \ {o}) = Total(charges, OrdsIn(s)) - charges[o].bytes
  BY <1>3, <1>5, TotalFacts
<1>7. queuedBytes \in [Shards -> Int]
  BY DEF Core, TypeOK
<1>8. ASSUME NEW t \in Shards PROVE queuedBytes'[t] = Total(charges', OrdsIn(t)')
  BY <1>1, <1>2, <1>3, <1>6, <1>7 DEF Sums
<1> QED
  BY <1>1, <1>4, <1>8 DEF Sums

LEMMA ReleaseSums ==
    ASSUME Core, CountsExact, Sums, NEW r \in held, Release(r)
    PROVE  Sums'
<1>0. OrdinalsUnique /\ residentBytes \in [Classes -> Int]
  BY DEF Core, TypeOK
<1>1. r.ord \in DOMAIN charges /\ charges[r.ord].class \in Classes
  BY ResidentCharge DEF ResidentRecords
<1>o. PICK o \in DOMAIN charges : o = r.ord
  BY <1>1
<1>2. PICK class \in Classes : o = r.ord /\ class = charges[o].class
  BY <1>1, <1>o
<1>3. /\ DOMAIN charges' = DOMAIN charges \ {o}
      /\ \A p \in DOMAIN charges \ {o} : charges'[p] = charges[p]
      /\ residentBytes' = [residentBytes EXCEPT ![class] = @ - charges[o].bytes]
      /\ UNCHANGED <<queues, queuedBytes>>
  BY <1>2 DEF Release, Uncharge
<1>4. /\ OrdsOf(class)' = OrdsOf(class) \ {o}
      /\ o \in OrdsOf(class)
      /\ \A d \in Classes \ {class} : OrdsOf(d)' = OrdsOf(d) /\ o \notin OrdsOf(d)
  BY <1>1, <1>2, <1>3 DEF OrdsOf
<1>5. \A s \in Shards : OrdsIn(s)' = OrdsIn(s) /\ o \notin OrdsIn(s)
  BY <1>0, <1>2, <1>3 DEF OrdsIn, Queued, OrdinalsUnique
<1>6. ASSUME NEW S \in SUBSET DOMAIN charges, o \notin S
      PROVE  Total(charges', S) = Total(charges, S)
  <2>1. IsFiniteSet(S) /\ Bytes(charges, S) /\ \A p \in S : charges[p] = charges'[p]
    BY <1>3, <1>6, SummedFacts
  <2> QED
    BY <2>1, TotalFacts
<1>7. ASSUME NEW d \in Classes PROVE residentBytes'[d] = Total(charges', OrdsOf(d)')
  <2>1. OrdsOf(d) \in SUBSET DOMAIN charges /\ residentBytes[d] = Total(charges, OrdsOf(d))
    BY SummedFacts DEF Sums
  <2>2. CASE d = class
    <3>1. /\ IsFiniteSet(OrdsOf(d)) /\ Bytes(charges, OrdsOf(d)) /\ o \in OrdsOf(d)
          /\ \A p \in OrdsOf(d) \ {o} : charges[p] = charges'[p]
      BY <1>3, <1>4, <2>1, <2>2, SummedFacts
    <3>2. Total(charges', OrdsOf(d) \ {o}) = Total(charges, OrdsOf(d)) - charges[o].bytes
      BY <3>1, TotalRemove
    <3> QED
      BY <1>0, <1>3, <1>4, <2>1, <2>2, <3>2
  <2>3. CASE d # class
    BY <1>0, <1>3, <1>4, <1>6, <2>1, <2>3
  <2> QED
    BY <2>2, <2>3
<1>8. ASSUME NEW s \in Shards PROVE queuedBytes'[s] = Total(charges', OrdsIn(s)')
  <2>1. OrdsIn(s) \in SUBSET DOMAIN charges /\ queuedBytes[s] = Total(charges, OrdsIn(s))
    BY SummedFacts DEF Sums
  <2> QED
    BY <1>3, <1>5, <1>6, <2>1
<1> QED
  BY <1>7, <1>8 DEF Sums

LEMMA SumsStep ==
    ASSUME Core, CountsExact, Sums, [Next]_vars
    PROVE  Sums'
<1>1. ASSUME UNCHANGED <<charges, residentBytes, queues, queuedBytes>>
      PROVE  Sums'
  BY <1>1 DEF Sums, OrdsOf, OrdsIn, Queued
<1> QED
  BY <1>1, AcceptSums, DrainSums, ReleaseSums, QuietStep DEF Next
-----------------------------------------------------------------------------
(* The sequences of the queues and the pending associations *)

LEMMA AcceptSequences ==
    ASSUME Core, SequenceOrder, NEW k \in Keys, NEW s \in Shards, NEW c \in Charges,
           NEW a \in BOOLEAN, Accept(k, s, c, a)
    PROVE  SequenceOrder'
<1>0. /\ TypeOK /\ nextSeq \in [Keys -> Nat] /\ shardOf \in [Keys -> Shards \cup {NoShard}]
      /\ NoShard \notin Shards
  BY ShardAssumption DEF Core, TypeOK
<1>1. PICK rec : rec = [ord |-> nextOrdinal, key |-> k, seq |-> nextSeq[k], gen |-> generation]
  OBVIOUS
<1>2. /\ Len(queues[s]) \in Nat
      /\ DOMAIN queues[s] = 1 .. Len(queues[s])
      /\ DOMAIN queues'[s] = 1 .. Len(queues[s]) + 1
      /\ queues'[s][Len(queues[s]) + 1] = rec
      /\ \A i \in DOMAIN queues[s] : queues'[s][i] = queues[s][i]
      /\ \A t \in Shards \ {s} : queues'[t] = queues[t]
  BY <1>0, <1>1, AcceptQueues
<1>3. /\ nextSeq' = [nextSeq EXCEPT ![k] = @ + 1]
      /\ shardOf' = [shardOf EXCEPT ![k] = s]
      /\ shardOf[k] \in {NoShard, s}
  BY DEF Accept, ShardAllowed
<1>4. \A t \in Shards : \A i \in DOMAIN queues[t] :
         /\ queues[t][i].key \in Keys /\ queues[t][i].seq \in Nat /\ i \in Int
         /\ shardOf[queues[t][i].key] = t /\ queues[t][i].seq < nextSeq[queues[t][i].key]
  <2>1. \A t \in Shards : \A i \in DOMAIN queues[t] : queues[t][i] \in Record /\ i \in Int
    BY <1>0 DEF TypeOK
  <2> QED
    BY <2>1 DEF SequenceOrder, Record
<1>5. rec.key = k /\ rec.seq = nextSeq[k]
  BY <1>1
<1> DEFINE Good(t, i) ==
             LET r == queues'[t][i]
                 later == {j \in DOMAIN queues'[t] : j > i /\ queues'[t][j].key = r.key}
             IN /\ shardOf'[r.key] = t
                /\ r.seq < nextSeq'[r.key]
                /\ \A j \in later : r.seq < queues'[t][j].seq
                /\ \/ r.seq + 1 = nextSeq'[r.key]
                   \/ \E j \in later : queues'[t][j].seq = r.seq + 1
<1>6. ASSUME NEW t \in Shards, t # s, NEW i \in DOMAIN queues'[t] PROVE Good(t, i)
  <2>1. queues'[t] = queues[t] /\ i \in DOMAIN queues[t]
    BY <1>2, <1>6
  <2>2. queues[t][i].key # k
    BY <1>0, <1>3, <1>4, <1>6, <2>1
  <2>3. /\ shardOf'[queues[t][i].key] = shardOf[queues[t][i].key]
        /\ nextSeq'[queues[t][i].key] = nextSeq[queues[t][i].key]
    BY <1>0, <1>3, <1>4, <2>1, <2>2
  <2> QED
    BY <2>1, <2>3 DEF SequenceOrder
<1>7. Good(s, Len(queues[s]) + 1)
  <2>1. ~ \E j \in DOMAIN queues'[s] : j > Len(queues[s]) + 1
    BY <1>2
  <2>2. nextSeq'[k] = nextSeq[k] + 1 /\ nextSeq[k] \in Nat /\ shardOf'[k] = s
    BY <1>0, <1>3
  <2> QED
    BY <1>2, <1>5, <2>1, <2>2
<1>8. ASSUME NEW i \in DOMAIN queues[s] PROVE Good(s, i)
  <2> DEFINE r == queues[s][i]
             n == Len(queues[s]) + 1
  <2>1. /\ queues'[s][i] = r /\ r.key \in Keys /\ r.seq \in Nat /\ i \in Int /\ i < n
        /\ r.seq < nextSeq[r.key] /\ n \in DOMAIN queues'[s] /\ queues'[s][n] = rec
    BY <1>2, <1>4
  <2>2. /\ \A j \in DOMAIN queues[s] : (j > i /\ queues[s][j].key = r.key) => r.seq < queues[s][j].seq
        /\ \/ r.seq + 1 = nextSeq[r.key]
           \/ \E j \in DOMAIN queues[s] : /\ j > i /\ queues[s][j].key = r.key
                                          /\ queues[s][j].seq = r.seq + 1
    BY DEF SequenceOrder
  <2>3. /\ shardOf'[r.key] = s
        /\ nextSeq'[r.key] = IF r.key = k THEN nextSeq[k] + 1 ELSE nextSeq[r.key]
        /\ nextSeq[k] \in Nat /\ nextSeq[r.key] \in Nat
    BY <1>0, <1>3, <1>4, <2>1
  <2> HIDE DEF r, n
  <2>4. ASSUME NEW j \in DOMAIN queues'[s], j > i, queues'[s][j].key = r.key
        PROVE  r.seq < queues'[s][j].seq
    <3>1. CASE j = n
      BY <1>5, <2>1, <2>4, <3>1
    <3>2. CASE j # n
      <4>1. j \in DOMAIN queues[s] /\ queues'[s][j] = queues[s][j]
        BY <1>2, <3>2 DEF n
      <4> QED
        BY <2>2, <2>4, <4>1
    <3> QED
      BY <3>1, <3>2
  <2>5. \/ r.seq + 1 = nextSeq'[r.key]
        \/ \E j \in DOMAIN queues'[s] : /\ j > i /\ queues'[s][j].key = r.key
                                        /\ queues'[s][j].seq = r.seq + 1
    <3>1. CASE r.seq + 1 = nextSeq[r.key]
      <4>1. CASE r.key = k
        BY <1>5, <2>1, <3>1, <4>1
      <4>2. CASE r.key # k
        BY <2>3, <3>1, <4>2
      <4> QED
        BY <4>1, <4>2
    <3>2. CASE \E j \in DOMAIN queues[s] : /\ j > i /\ queues[s][j].key = r.key
                                           /\ queues[s][j].seq = r.seq + 1
      <4>1. \A j \in DOMAIN queues[s] : j \in DOMAIN queues'[s] /\ queues'[s][j] = queues[s][j]
        BY <1>2
      <4> QED
        BY <3>2, <4>1
    <3> QED
      BY <2>2, <3>1, <3>2
  <2> QED
    BY <2>1, <2>3, <2>4, <2>5
<1> HIDE DEF Good
<1>9. \A t \in Shards : \A i \in DOMAIN queues'[t] : Good(t, i)
  BY <1>2, <1>6, <1>7, <1>8
<1> QED
  BY <1>9 DEF Good, SequenceOrder

LEMMA DrainSequences ==
    ASSUME Core, SequenceOrder, NEW s \in Shards, DrainOne(s)
    PROVE  SequenceOrder'
<1>0. TypeOK /\ queues[s] # << >>
  BY DEF Core, DrainOne
<1>1. /\ queues' = [queues EXCEPT ![s] = Tail(@)]
      /\ UNCHANGED <<nextSeq, shardOf>>
  BY DEF DrainOne
<1>2. /\ \A t \in Shards \ {s} : queues'[t] = queues[t]
      /\ Len(queues[s]) \in Nat /\ Len(queues[s]) > 0 /\ DOMAIN queues[s] = 1 .. Len(queues[s])
      /\ DOMAIN queues'[s] = 1 .. Len(queues[s]) - 1
      /\ \A i \in DOMAIN queues'[s] : queues'[s][i] = queues[s][i + 1] /\ i + 1 \in DOMAIN queues[s]
  BY <1>0, <1>1, HeadFacts DEF TypeOK
<1> DEFINE Good(t, i) ==
             LET r == queues'[t][i]
                 later == {j \in DOMAIN queues'[t] : j > i /\ queues'[t][j].key = r.key}
             IN /\ shardOf'[r.key] = t
                /\ r.seq < nextSeq'[r.key]
                /\ \A j \in later : r.seq < queues'[t][j].seq
                /\ \/ r.seq + 1 = nextSeq'[r.key]
                   \/ \E j \in later : queues'[t][j].seq = r.seq + 1
<1>3. ASSUME NEW t \in Shards, t # s, NEW i \in DOMAIN queues'[t] PROVE Good(t, i)
  <2>1. queues'[t] = queues[t] /\ i \in DOMAIN queues[t] /\ nextSeq' = nextSeq /\ shardOf' = shardOf
    BY <1>1, <1>2, <1>3
  <2> QED
    BY <2>1 DEF SequenceOrder
<1>4. ASSUME NEW i \in DOMAIN queues'[s] PROVE Good(s, i)
  <2> DEFINE r == queues[s][i + 1]
  <2>1. queues'[s][i] = r /\ i + 1 \in DOMAIN queues[s] /\ i \in Int
    BY <1>2
  <2>2. /\ shardOf[r.key] = s /\ r.seq < nextSeq[r.key]
        /\ \A j \in DOMAIN queues[s] :
              (j > i + 1 /\ queues[s][j].key = r.key) => r.seq < queues[s][j].seq
        /\ \/ r.seq + 1 = nextSeq[r.key]
           \/ \E j \in DOMAIN queues[s] : /\ j > i + 1 /\ queues[s][j].key = r.key
                                          /\ queues[s][j].seq = r.seq + 1
    BY <2>1 DEF SequenceOrder
  <2> HIDE DEF r
  <2>3. ASSUME NEW j \in DOMAIN queues'[s], j > i, queues'[s][j].key = r.key
        PROVE  r.seq < queues'[s][j].seq
    <3>1. queues'[s][j] = queues[s][j + 1] /\ j + 1 \in DOMAIN queues[s] /\ j + 1 > i + 1
      BY <1>2, <2>1, <2>3
    <3> QED
      BY <2>2, <2>3, <3>1
  <2>4. ASSUME NEW j \in DOMAIN queues[s], j > i + 1, queues[s][j].key = r.key,
               queues[s][j].seq = r.seq + 1
        PROVE  \E l \in DOMAIN queues'[s] : /\ l > i /\ queues'[s][l].key = r.key
                                            /\ queues'[s][l].seq = r.seq + 1
    <3>1. j - 1 \in DOMAIN queues'[s] /\ j - 1 > i /\ queues'[s][j - 1] = queues[s][j]
      BY <1>2, <2>1, <2>4
    <3> QED
      BY <2>4, <3>1
  <2> QED
    BY <1>1, <2>1, <2>2, <2>3, <2>4
<1> HIDE DEF Good
<1>5. \A t \in Shards : \A i \in DOMAIN queues'[t] : Good(t, i)
  BY <1>3, <1>4
<1> QED
  BY <1>5 DEF Good, SequenceOrder

LEMMA SequencesStep ==
    ASSUME Core, SequenceOrder, [Next]_vars
    PROVE  SequenceOrder'
<1>1. ASSUME UNCHANGED <<queues, nextSeq, shardOf>>
      PROVE  SequenceOrder'
  BY <1>1 DEF SequenceOrder
<1>2. ASSUME NEW r \in held, Release(r) PROVE SequenceOrder'
  BY <1>1, <1>2 DEF Release
<1> QED
  BY <1>1, <1>2, AcceptSequences, DrainSequences, QuietStep DEF Next

LEMMA PendingStep ==
    ASSUME Core, PendingResident, [Next]_vars
    PROVE  PendingResident'
<1> DEFINE Controls == {x \in ResidentRecords : x.key = ControlKey}
<1>1. ASSUME pending' \subseteq pending, ResidentRecords \subseteq ResidentRecords'
      PROVE  PendingResident'
  BY <1>1 DEF PendingResident
<1>2. ASSUME NEW k \in Keys, NEW s \in Shards, NEW c \in Charges, NEW a \in BOOLEAN,
             Accept(k, s, c, a)
      PROVE  PendingResident'
  <2>1. PICK rec : rec = [ord |-> nextOrdinal, key |-> k, seq |-> nextSeq[k], gen |-> generation]
    OBVIOUS
  <2>2. /\ Queued(s)' = Queued(s) \cup {rec} /\ \A t \in Shards \ {s} : Queued(t)' = Queued(t)
        /\ held' = held
    BY <1>2, <2>1, AcceptQueues DEF Core
  <2>3. ResidentRecords' = ResidentRecords \cup {rec}
    BY <2>2 DEF ResidentRecords, AllQueued
  <2>4. CASE a
    <3>1. rec.key = ControlKey /\ rec.ord = nextOrdinal /\ pending' = pending \cup {nextOrdinal}
      BY <1>2, <2>1, <2>4 DEF Accept
    <3> QED
      BY <2>3, <3>1 DEF PendingResident
  <2>5. CASE ~a
    BY <1>1, <1>2, <2>3, <2>5 DEF Accept
  <2> QED
    BY <2>4, <2>5
<1>3. ASSUME NEW s \in Shards, DrainOne(s) PROVE PendingResident'
  BY <1>1, <1>3, DrainQueues DEF DrainOne
<1>4. ASSUME NEW r \in held, Release(r) PROVE PendingResident'
  <2>1. pending' = pending /\ r.ord \notin pending /\ queues' = queues /\ held' = held \ {r}
    BY <1>4 DEF Release
  <2>2. ResidentRecords \subseteq ResidentRecords' \cup {r}
    BY <2>1 DEF ResidentRecords, AllQueued, Queued
  <2> QED
    BY <2>1, <2>2 DEF PendingResident
<1> QED
  BY <1>1, <1>2, <1>3, <1>4, QuietStep, QuietCore DEF Next

\* The ingress agrees with itself for every configuration: the byte and record
\* counters that ResidentBudget.fits and the shard limits compare are the sums of
\* what is outstanding, each queue is a run of its keys' sequences, and no
\* association outlives its record.
THEOREM IngressAlwaysConsistent == Spec => []IngressConsistent
<1>1. Init => SequenceOrder /\ PendingResident
  BY DEF Init, SequenceOrder, PendingResident
<1>2. Core /\ CountsExact /\ [Next]_vars => CountsExact'
  BY CountsStep
<1>3. Core /\ CountsExact /\ Sums /\ [Next]_vars => Sums'
  BY SumsStep
<1>4. Core /\ SequenceOrder /\ [Next]_vars => SequenceOrder'
  BY SequencesStep
<1>5. Core /\ PendingResident /\ [Next]_vars => PendingResident'
  BY PendingStep
<1>6. Core /\ CountsExact /\ Sums /\ SequenceOrder /\ PendingResident => IngressConsistent
  BY SumsSay DEF Core, IngressConsistent
<1> QED
  BY <1>1, <1>2, <1>3, <1>4, <1>5, <1>6, InitCore, InitCounts, InitSums, CoreStep, PTL DEF Spec
=============================================================================
