-------------------------- MODULE WriterServiceProofs --------------------------
(***************************************************************************)
(* Proofs about the writer's actor, for any streams, shards, hours, frame  *)
(* size, commands and storage failures: no row is lost, duplicated,        *)
(* misrouted or reordered between the ingress and its part (RowsKept).     *)
(*                                                                         *)
(* RowsKept is not inductive.  WInv adds why each step finds what it needs:*)
(*  - Commands: for which command the actor works, and that a config change*)
(*    or a close has detached every part before it goes on;                *)
(*  - ActiveNewest, OpenActive, Claims: the active part of a stream is its *)
(*    newest and the only one that takes rows, a part is reserved only     *)
(*    while its file is made, a claim exists only while it is in flight;   *)
(*  - HandWhere, HandOnce, HandFirst, HandPart: the rows the drain has     *)
(*    taken from the queues and not yet placed are older than what their   *)
(*    queues still hold, their shards are closed to the nested drain, and  *)
(*    their part is there or being made;                                   *)
(*  - Queues, QueuedWhere, RowStages, OnePart, Waiting, Order: where a     *)
(*    record of each stage is, and what precedes it.                       *)
(* A writer that stopped keeps its types and its routing only.             *)
(*                                                                         *)
(* Steps are proved by what they move: nothing (Calm, Keep), the stage of  *)
(* rows in place (Resettled: seals and completions), one row into a part   *)
(* (Comes: the drain and the nested drain; Joins: the deferred rows), or   *)
(* parts only (Restated, Reserves).                                        *)
(***************************************************************************)
EXTENDS WriterService, SequenceTheorems, FiniteSetTheorems, WellFoundedInduction, TLAPS

-----------------------------------------------------------------------------
(* The inductive invariant *)

Increasing(q) == \A i, j \in 1..Len(q) : i < j => q[i] < q[j]
Distinct(q) == \A i, j \in 1..Len(q) : q[i] = q[j] => i = j
ShardOfRow(n) == ShardOf[rec[n].stream]
PartOf(n) == active[rec[n].stream]

RecType == [stream : Streams, hour : Hours, cfg : Nat, big : BOOLEAN, targets : SUBSET Nat]
States == {"reserved", "open", "retired", "published", "discarded"}
PartType == [stream : Streams, hour : Hours, cfg : Nat, state : States, buf : Seq(Nat),
             claimed : SUBSET Nat, done : SUBSET Nat, deferred : Seq(Nat), folded : SUBSET Nat]
CmdType == [kind : Kinds \cup {"none"}, wm : Nat, cfg : Nat]
LocType == [todo : SUBSET Shards, busy : SUBSET Shards, held : Seq(Nat), roll : Seq(Nat),
            size : SUBSET Nat, cold : BOOLEAN, moved : BOOLEAN,
            from : {"none", "cold", "sweep", "roll"}, pop : Nat]
OpType == [kind : {"none", "sync", "close", "materialize", "discard", "publish"},
           files : SUBSET Nat, pumped : BOOLEAN, failed : {"no", "storage", "oldest", "deadline"}]

\* The shapes of the variables, each on its own.
LoopShapes ==
    /\ cmds \in Seq(CmdType) /\ cmd \in CmdType /\ cfg \in Nat /\ submitted \in Nat
    /\ work \in BOOLEAN /\ due \in BOOLEAN /\ nest \in BOOLEAN /\ wakeAfter \in BOOLEAN
    /\ oldest \in BOOLEAN /\ closing \in BOOLEAN
    /\ life \in {"ACCEPTING", "ROTATING", "CLOSING", "CLOSED", "CRITICAL"}
    /\ adm \in {"OPEN", "CLOSED"}
    /\ mode \in {"main", "cmd", "crit"}
    /\ cause \in {"none", "contract", "storage", "oldest", "deadline", "incomplete"}
Shapes ==
    /\ rec \in Seq(RecType) /\ stage \in [Ords -> Stages]
    /\ queue \in [Shards -> Seq(Nat)]
    /\ part \in Seq(PartType)
    /\ active \in [Streams -> Nat]
    /\ loc \in LocType /\ op \in OpType
    /\ LoopShapes

\* What names a record or a part names one that there is.
Names ==
    /\ \A n \in Ords : rec[n].targets \subseteq Gens
    /\ \A s \in Shards : ToSet(queue[s]) \subseteq Ords
    /\ \A g \in Gens : Rows(g) \cup DeferredRows(g) \cup part[g].folded \subseteq Ords
    /\ \A s \in Streams : active[s] \in Gens \cup {0}
    /\ retiring \subseteq Gens /\ pendingHour \subseteq Gens /\ members \subseteq Gens
    /\ assoc \subseteq Ords
    /\ op.files \subseteq Gens /\ loc.size \subseteq Gens /\ loc.pop \in Gens \cup {0}
    /\ InHand \subseteq Ords

\* A command is active only when the actor works for it, and one that closes
\* every part has detached the active parts when it closes them.
Commands ==
    /\ mode = "main" => cmd = NoCmd
    /\ pc \in {"idle", "commands", "yield"} => mode = "main"
    /\ pc \in {"rotate", "rotated"} => cmd.kind \notin {"rotate_config", "close"}
    /\ pc \in {"discard", "discarded", "closed"} /\ cmd.kind \in {"rotate_config", "close"} =>
          \A s \in Streams : active[s] = 0

\* The active part of a stream is its newest, and the only one that takes rows.
ActiveNewest ==
    \A s \in Streams : active[s] # 0 =>
       /\ part[active[s]].stream = s /\ part[active[s]].cfg = cfg
       /\ part[active[s]].state \in {"open", "reserved"}
       /\ \A g \in Gens : part[g].stream = s => g <= active[s] \/ (pc = "ensured" /\ g = Len(part))
OpenActive ==
    /\ \A g \in Gens : part[g].state = "open" => active[part[g].stream] = g
    /\ \A g \in Gens : part[g].state = "reserved" =>
          \/ pc \in {"materialized", "rotated"} /\ active[part[g].stream] = g
          \/ pc = "ensured" /\ g = Len(part)
    /\ \A g \in members \cup pendingHour : part[g].state \notin {"open", "reserved"}
    /\ \A g \in Gens : pc = "ensured" /\ g = Len(part) => part[g].state = "reserved"

\* A claim is in flight: its part is still being written, or the write failed.
Claims ==
    \A g \in Gens : part[g].claimed # {} =>
       op.kind \in {"sync", "close"} /\ (g \in op.files \/ op.failed # "no")

\* The rows in the drain's hands: when there are any, one for each shard at most,
\* older than what its queue still has, and the shard is closed to the nested drain.
HandWhere ==
    /\ loc.held # << >> => pc \in {"materialized", "ensured", "place"}
    /\ loc.roll # << >> => pc \in {"sweep", "ensured", "place"}
    /\ pc = "place" => loc.from # "none"
    /\ pc = "materialized" => loc.from = "cold"
    /\ loc.from = "cold" => loc.roll = << >>
HandOnce ==
    /\ Distinct(loc.held) /\ Distinct(loc.roll) /\ ToSet(loc.held) \cap ToSet(loc.roll) = {}
    /\ \A n, m \in InHand : ShardOfRow(n) = ShardOfRow(m) => n = m
HandFirst ==
    \A n \in InHand : /\ ShardOfRow(n) \in loc.busy
                      /\ loc.from = "cold" \/ ShardOfRow(n) \notin loc.todo
                      /\ \A m \in ToSet(queue[ShardOfRow(n)]) : n < m

\* Their part is ready, or being made.
HandPart ==
    /\ \A n \in InHand : PartOf(n) # 0
    /\ \A n \in ToSet(loc.roll) : part[PartOf(n)].hour = rec[n].hour
    /\ \A n \in ToSet(loc.held) : pc # "ensured" => part[PartOf(n)].hour = rec[n].hour
    /\ \A n \in ToSet(loc.held) : loc.from = "cold" => part[PartOf(n)].buf = << >>
    /\ pc = "ensured" =>
          /\ loc.from = "sweep" /\ Len(loc.held) = 1 /\ Len(part) > 0
          /\ part[Len(part)].stream = rec[loc.held[1]].stream
          /\ part[Len(part)].hour = rec[loc.held[1]].hour
          /\ part[Len(part)].cfg = cfg /\ PartOf(loc.held[1]) # Len(part)

Queues ==
    \A s \in Shards : /\ Increasing(queue[s])
                      /\ \A n \in ToSet(queue[s]) : ShardOfRow(n) = s

\* Where a record of each stage is.
QueuedWhere ==
    /\ \A n \in Ords : stage[n] = "queued" <=> n \in InQueues \cup InHand
    /\ InQueues \cap InHand = {}
    /\ \A n \in Ords : stage[n] = "queued" => rec[n].cfg = cfg
RowStages ==
    \A g \in Gens :
       /\ \A n \in ToSet(part[g].buf) : stage[n] = "buffered"
       /\ \A n \in part[g].claimed : stage[n] \in {"inflight", "durable", "uncertain"}
       /\ \A n \in part[g].done : stage[n] = "durable"
       /\ part[g].claimed \cap part[g].done = {}
OnePart ==
    /\ \A g, h \in Gens : \A n \in Rows(g) : n \in Rows(h) => g = h
    /\ \A n \in Ords : stage[n] # "queued" => \E g \in Gens : n \in Rows(g) \cup DeferredRows(g)

\* A deferred row is in no other place; the one that is written directly leaves
\* its list when the write is done.
Popping(g, n) == pc = "pop" /\ g = loc.pop /\ n = part[g].deferred[1]
Waiting ==
    /\ \A g \in Gens :
          /\ Increasing(part[g].deferred)
          /\ \A n \in DeferredRows(g) :
                \/ stage[n] = "buffered" /\ \A h \in Gens : n \notin Rows(h)
                \/ Popping(g, n) /\ n \in Rows(g) /\ stage[n] # "buffered"
    /\ \A g, h \in Gens : \A n \in DeferredRows(g) : n \in DeferredRows(h) => g = h
    /\ pc = "pop" => /\ loc.pop # 0 /\ part[loc.pop].deferred # << >>
                      /\ part[loc.pop].deferred[1] \in Rows(loc.pop)

Order ==
    \A n, m \in Ords :
       (n < m /\ rec[n].stream = rec[m].stream) =>
         \A h \in Gens :
           /\ m \in Rows(h) => \E g \in 1..h : n \in Rows(g) \/ (g < h /\ n \in DeferredRows(g))
           /\ m \in DeferredRows(h) => n \notin InQueues \cup InHand

RowsInv == Queues /\ QueuedWhere /\ RowStages /\ OnePart /\ Waiting /\ Order
PartsInv == ActiveNewest /\ OpenActive /\ Claims
HandInv == HandWhere /\ HandOnce /\ HandFirst /\ HandPart
Running == Commands /\ PartsInv /\ HandInv /\ RowsInv
Ended == op = NoOp /\ nest = FALSE
TypeInv == Shapes /\ Names
WInv == TypeInv /\ RoutedRight /\ (IF pc = "stopped" THEN Ended ELSE Running)
-----------------------------------------------------------------------------
(* Sequences *)

\* What ToSet says of a sequence.
LEMMA ToSetFacts ==
    ASSUME NEW S, NEW q \in Seq(S)
    PROVE  /\ Len(q) \in Nat /\ DOMAIN q = 1..Len(q)
           /\ ToSet(q) \subseteq S
           /\ \A i \in 1..Len(q) : q[i] \in ToSet(q)
           /\ \A x \in ToSet(q) : \E i \in 1..Len(q) : q[i] = x
           /\ q = << >> <=> ToSet(q) = {}
           /\ q = << >> <=> Len(q) = 0
<1>1. Len(q) \in Nat /\ DOMAIN q = 1..Len(q) /\ q \in [1..Len(q) -> S]
  OBVIOUS
<1>2. q = << >> <=> Len(q) = 0
  BY <1>1
<1>3. /\ ToSet(q) \subseteq S
      /\ \A i \in 1..Len(q) : q[i] \in ToSet(q)
      /\ \A x \in ToSet(q) : \E i \in 1..Len(q) : q[i] = x
  BY <1>1 DEF ToSet
<1>4. ASSUME Len(q) # 0 PROVE ToSet(q) # {}
  BY <1>1, <1>3, <1>4
<1>5. ASSUME Len(q) = 0 PROVE ToSet(q) = {}
  BY <1>1, <1>3, <1>5
<1> QED
  BY <1>1, <1>2, <1>3, <1>4, <1>5

\* The empty sequence has no elements.
LEMMA ToSetEmpty == ToSet(<< >>) = {} /\ Len(<< >>) = 0 /\ \A S : << >> \in Seq(S)
BY DEF ToSet

\* What appending changes.
LEMMA AppendFacts ==
    ASSUME NEW S, NEW q \in Seq(S), NEW x \in S
    PROVE  /\ Append(q, x) \in Seq(S) /\ Len(Append(q, x)) = Len(q) + 1
           /\ \A i \in 1..Len(q) : Append(q, x)[i] = q[i]
           /\ Append(q, x)[Len(q) + 1] = x
           /\ ToSet(Append(q, x)) = ToSet(q) \cup {x}
           /\ Append(q, x) # << >>
<1>1. /\ Append(q, x) \in Seq(S) /\ Len(Append(q, x)) = Len(q) + 1
      /\ \A i \in 1..Len(q) : Append(q, x)[i] = q[i]
      /\ Append(q, x)[Len(q) + 1] = x
      /\ Len(q) \in Nat
  OBVIOUS
<1>2. ToSet(Append(q, x)) = ToSet(q) \cup {x}
  <2>1. /\ DOMAIN q = 1..Len(q) /\ DOMAIN Append(q, x) = 1..(Len(q) + 1)
    BY <1>1
  <2>2. ASSUME NEW y \in ToSet(Append(q, x)) PROVE y \in ToSet(q) \cup {x}
    BY <1>1, <2>1 DEF ToSet
  <2>3. ASSUME NEW y \in ToSet(q) PROVE y \in ToSet(Append(q, x))
    <3>1. PICK i \in 1..Len(q) : q[i] = y
      BY <2>1 DEF ToSet
    <3>2. i \in DOMAIN Append(q, x) /\ Append(q, x)[i] = y
      BY <1>1, <2>1, <3>1
    <3> QED
      BY <3>2 DEF ToSet
  <2>4. x \in ToSet(Append(q, x))
    <3>1. Len(q) + 1 \in DOMAIN Append(q, x) /\ Append(q, x)[Len(q) + 1] = x
      BY <1>1, <2>1
    <3> QED
      BY <3>1 DEF ToSet
  <2> QED
    BY <2>2, <2>3, <2>4
<1>3. Append(q, x) # << >>
  BY <1>1
<1> QED
  BY <1>1, <1>2, <1>3

\* What taking the head off leaves.
LEMMA TailFacts ==
    ASSUME NEW S, NEW q \in Seq(S), q # << >>
    PROVE  /\ Head(q) \in S /\ Tail(q) \in Seq(S) /\ Len(q) \in Nat \ {0}
           /\ Len(Tail(q)) = Len(q) - 1
           /\ \A i \in 1..Len(Tail(q)) : Tail(q)[i] = q[i + 1]
           /\ Head(q) = q[1] /\ Head(q) \in ToSet(q)
           /\ ToSet(q) = {Head(q)} \cup ToSet(Tail(q))
<1>1. /\ Head(q) \in S /\ Tail(q) \in Seq(S) /\ Len(q) \in Nat \ {0}
      /\ Len(Tail(q)) = Len(q) - 1
      /\ \A i \in 1..Len(Tail(q)) : Tail(q)[i] = q[i + 1]
      /\ Head(q) = q[1]
  OBVIOUS
<1>2. DOMAIN q = 1..Len(q) /\ DOMAIN Tail(q) = 1..(Len(q) - 1)
  BY <1>1
<1>3. Head(q) \in ToSet(q)
  <2>1. 1 \in DOMAIN q
    BY <1>1, <1>2
  <2> QED
    BY <2>1, <1>1 DEF ToSet
<1>4. ASSUME NEW y \in ToSet(Tail(q)) PROVE y \in ToSet(q)
  <2>1. PICK i \in 1..(Len(q) - 1) : Tail(q)[i] = y
    BY <1>2 DEF ToSet
  <2>2. i + 1 \in DOMAIN q /\ q[i + 1] = y
    BY <1>1, <1>2, <2>1
  <2> QED
    BY <2>2 DEF ToSet
<1>5. ASSUME NEW y \in ToSet(q), y # Head(q) PROVE y \in ToSet(Tail(q))
  <2>1. PICK i \in 1..Len(q) : q[i] = y
    BY <1>2 DEF ToSet
  <2>2. i - 1 \in 1..(Len(q) - 1) /\ i = (i - 1) + 1
    BY <1>1, <1>5, <2>1
  <2>3. i - 1 \in DOMAIN Tail(q) /\ Tail(q)[i - 1] = y
    BY <1>1, <1>2, <2>1, <2>2
  <2> QED
    BY <2>3 DEF ToSet
<1> QED
  BY <1>1, <1>3, <1>4, <1>5

\* The first of an increasing sequence is less than the others.
LEMMA IncreasingTail ==
    ASSUME NEW q \in Seq(Nat), q # << >>, Increasing(q)
    PROVE  /\ Increasing(Tail(q))
           /\ \A x \in ToSet(Tail(q)) : Head(q) < x
           /\ ToSet(Tail(q)) = ToSet(q) \ {Head(q)}
           /\ \A x \in ToSet(q) : Head(q) <= x
<1>1. /\ Head(q) \in Nat /\ Tail(q) \in Seq(Nat) /\ Len(q) \in Nat \ {0}
      /\ Len(Tail(q)) = Len(q) - 1
      /\ \A i \in 1..Len(Tail(q)) : Tail(q)[i] = q[i + 1]
      /\ Head(q) = q[1]
      /\ ToSet(q) = {Head(q)} \cup ToSet(Tail(q))
  BY TailFacts, Zenon
<1>2. Increasing(Tail(q))
  BY <1>1 DEF Increasing
<1>3. ASSUME NEW x \in ToSet(Tail(q)) PROVE Head(q) < x
  <2>1. PICK i \in 1..Len(Tail(q)) : Tail(q)[i] = x
    BY <1>1, ToSetFacts
  <2> QED
    BY <1>1, <2>1 DEF Increasing
<1>4. Head(q) \notin ToSet(Tail(q))
  BY <1>1, <1>3
<1>5. ToSet(Tail(q)) \subseteq Nat
  BY <1>1, ToSetFacts
<1> QED
  BY <1>1, <1>2, <1>3, <1>4, <1>5

\* A list stays in order when a larger number is appended.
LEMMA IncreasingAppend ==
    ASSUME NEW q \in Seq(Nat), Increasing(q), NEW x \in Nat, \A y \in ToSet(q) : y < x
    PROVE  Increasing(Append(q, x))
<1>1. /\ Len(Append(q, x)) = Len(q) + 1 /\ Len(q) \in Nat
      /\ \A i \in 1..Len(q) : Append(q, x)[i] = q[i] /\ q[i] < x
      /\ Append(q, x)[Len(q) + 1] = x
  BY AppendFacts, ToSetFacts
<1> QED
  BY <1>1 DEF Increasing

\* Without its head, a list without repetition lacks exactly that element.
LEMMA DistinctTail ==
    ASSUME NEW q \in Seq(Nat), q # << >>, Distinct(q)
    PROVE  Distinct(Tail(q)) /\ ToSet(Tail(q)) = ToSet(q) \ {Head(q)}
<1>1. /\ Head(q) \in Nat /\ Tail(q) \in Seq(Nat) /\ Len(q) \in Nat \ {0}
      /\ Len(Tail(q)) = Len(q) - 1
      /\ \A i \in 1..Len(Tail(q)) : Tail(q)[i] = q[i + 1]
      /\ Head(q) = q[1]
      /\ ToSet(q) = {Head(q)} \cup ToSet(Tail(q))
  BY TailFacts, Zenon
<1>2. Distinct(Tail(q))
  BY <1>1 DEF Distinct
<1>3. Head(q) \notin ToSet(Tail(q))
  <2>1. SUFFICES ASSUME Head(q) \in ToSet(Tail(q)) PROVE FALSE
    OBVIOUS
  <2>2. PICK i \in 1..Len(Tail(q)) : Tail(q)[i] = Head(q)
    BY <1>1, <2>1, ToSetFacts
  <2> QED
    BY <1>1, <2>2 DEF Distinct
<1> QED
  BY <1>1, <1>2, <1>3

\* A new element repeats nothing.
LEMMA DistinctAppend ==
    ASSUME NEW q \in Seq(Nat), Distinct(q), NEW x \in Nat, x \notin ToSet(q)
    PROVE  Distinct(Append(q, x))
<1>1. /\ Len(Append(q, x)) = Len(q) + 1 /\ Len(q) \in Nat
      /\ \A i \in 1..Len(q) : Append(q, x)[i] = q[i] /\ q[i] # x
      /\ Append(q, x)[Len(q) + 1] = x
  BY AppendFacts, ToSetFacts
<1> QED
  BY <1>1 DEF Distinct

\* The list of one row.
LEMMA OneRow ==
    ASSUME NEW x \in Nat
    PROVE  /\ <<x>> \in Seq(Nat) /\ <<x>> # << >> /\ Len(<<x>>) = 1 /\ <<x>>[1] = x
           /\ ToSet(<<x>>) = {x} /\ Distinct(<<x>>)
BY DEF ToSet, Distinct

\* The empty list is in order and repeats nothing.
LEMMA NoRows == Distinct(<< >>) /\ Increasing(<< >>)
BY DEF Distinct, Increasing

\* Every set of numbers that has one has a least one.
LEMMA LeastNumber ==
    ASSUME NEW T, T \subseteq Nat, T # {}
    PROVE  \E x \in T : \A y \in T : x <= y
<1> DEFINE R == {ss \in Nat \X Nat : ss[1] < ss[2]}
<1>1. IsWellFoundedOn(R, Nat)
  BY NatLessThanWellFounded DEF OpToRel
<1>2. PICK x \in T : \A y \in T : <<y, x>> \notin R
  <2> HIDE DEF R
  <2> QED
    BY <1>1, WFMin
<1>3. ASSUME NEW y \in T PROVE x <= y
  <2>1. x \in Nat /\ y \in Nat /\ <<y, x>> \notin R
    BY <1>2
  <2> QED
    BY <2>1
<1> QED
  BY <1>3

\* Min is the least number of a set of numbers.
LEMMA MinFacts ==
    ASSUME NEW T, T \subseteq Nat, T # {}
    PROVE  Min(T) \in T /\ \A y \in T : Min(T) <= y
<1>1. \E x \in T : \A y \in T : x <= y
  BY LeastNumber
<1> QED
  BY <1>1 DEF Min

\* A finite set of numbers can be listed in order, and InOrder lists it.
LEMMA OrderExists ==
    ASSUME NEW S, IsFiniteSet(S), S \subseteq Nat
    PROVE  \E f \in [1..Cardinality(S) -> S] :
              \A i, j \in 1..Cardinality(S) : i < j => f[i] < f[j]
<1> DEFINE Listed(s) == \E f \in [1..Cardinality(s) -> s] :
                           \A i, j \in 1..Cardinality(s) : i < j => f[i] < f[j]
           Bad == {s \in SUBSET S : ~Listed(s)}
           Sizes == {Cardinality(s) : s \in Bad}
<1>0. \A s \in SUBSET S : IsFiniteSet(s) /\ Cardinality(s) \in Nat
  BY FS_Subset, FS_CardinalityType
<1>1. SUFFICES ASSUME Bad # {} PROVE FALSE
  OBVIOUS
<1>2. Sizes \subseteq Nat /\ Sizes # {}
  BY <1>0, <1>1
<1>3. PICK k \in Sizes : \A y \in Sizes : k <= y
  <2> HIDE DEF Sizes
  <2> QED
    BY <1>2, LeastNumber
<1>4. PICK s \in Bad : k = Cardinality(s)
  OBVIOUS
<1>5. s # {}
  <2>1. SUFFICES ASSUME s = {} PROVE Listed({})
    BY <1>4
  <2>2. 1..Cardinality({}) = {} /\ [x \in {} |-> 0] \in [{} -> {}]
    BY FS_EmptySet
  <2> QED
    BY <2>2
<1>6. PICK x \in s : \A y \in s : x <= y
  BY <1>5, LeastNumber
<1>7. /\ s \in SUBSET S /\ s \ {x} \in SUBSET S /\ Cardinality(s) \in Nat \ {0}
      /\ Cardinality(s \ {x}) = Cardinality(s) - 1
  BY <1>0, <1>5, FS_RemoveElement, FS_EmptySet
<1>8. s \ {x} \notin Bad
  <2>1. SUFFICES ASSUME s \ {x} \in Bad PROVE FALSE
    OBVIOUS
  <2>2. Cardinality(s \ {x}) \in Sizes
    BY <2>1
  <2> HIDE DEF Sizes
  <2> QED
    BY <1>2, <1>3, <1>4, <1>7, <2>2
<1>9. PICK f \in [1..Cardinality(s \ {x}) -> s \ {x}] :
         \A i, j \in 1..Cardinality(s \ {x}) : i < j => f[i] < f[j]
  BY <1>7, <1>8
<1> DEFINE g == [i \in 1..Cardinality(s) |-> IF i = 1 THEN x ELSE f[i - 1]]
<1>10. \A i \in 2..Cardinality(s) : /\ i - 1 \in 1..Cardinality(s \ {x})
                                    /\ f[i - 1] \in s \ {x} /\ x < f[i - 1]
  <2>0. ASSUME NEW c \in Nat \ {0}, NEW d, d = c - 1, NEW i \in 2..c PROVE i - 1 \in 1..d
    BY <2>0
  <2>1. ASSUME NEW i \in 2..Cardinality(s) PROVE i - 1 \in 1..Cardinality(s \ {x})
    BY <1>7, <2>0
  <2>2. ASSUME NEW y \in s \ {x} PROVE x < y
    <3>1. x \in Nat /\ y \in Nat /\ y # x
      BY <1>7
    <3>2. x <= y
      BY <1>6
    <3> QED
      BY <3>1, <3>2
  <2> QED
    BY <1>9, <2>1, <2>2
<1>11. g \in [1..Cardinality(s) -> s]
  <2>1. ASSUME NEW i \in 1..Cardinality(s) PROVE (IF i = 1 THEN x ELSE f[i - 1]) \in s
    <3>1. i # 1 => i \in 2..Cardinality(s)
      BY <1>7
    <3> QED
      BY <1>10, <3>1
  <2> QED
    BY <2>1
<1>12. ASSUME NEW i \in 1..Cardinality(s), NEW j \in 1..Cardinality(s), i < j
       PROVE  g[i] < g[j]
  <2>1. j \in 2..Cardinality(s) /\ g[j] = f[j - 1]
    BY <1>7, <1>12
  <2>2. CASE i = 1
    BY <1>10, <2>1, <2>2
  <2>3. CASE i # 1
    <3>1. i \in 2..Cardinality(s) /\ g[i] = f[i - 1] /\ i - 1 < j - 1
      BY <1>7, <1>12, <2>3
    <3> QED
      BY <1>9, <1>10, <2>1, <3>1
  <2> QED
    BY <2>2, <2>3
<1> QED
  <2> HIDE DEF g
  <2> QED
    BY <1>4, <1>11, <1>12

\* An increasing function on 1..n is a list without repetition.
LEMMA Listing ==
    ASSUME NEW n \in Nat, NEW S, S \subseteq Nat, NEW f \in [1..n -> S],
           \A i, j \in 1..n : i < j => f[i] < f[j]
    PROVE  /\ f \in Seq(Nat) /\ Len(f) = n /\ Distinct(f) /\ f \in Injection(1..n, S)
           /\ DOMAIN f = 1..n /\ \A i \in 1..n : f[i] \in S
<1>1. \A i \in 1..n : f[i] \in S /\ f[i] \in Nat
  OBVIOUS
<1>2. f \in [1..n -> Nat] /\ DOMAIN f = 1..n
  BY <1>1
<1>3. f \in Seq(Nat) /\ Len(f) = n
  BY <1>2
<1>4. ASSUME NEW i \in 1..n, NEW j \in 1..n, f[i] = f[j] PROVE i = j
  <2>1. f[i] \in Nat /\ ~(f[i] < f[j]) /\ ~(f[j] < f[i])
    BY <1>1, <1>4
  <2> QED
    BY <2>1
<1>5. Distinct(f)
  BY <1>3, <1>4 DEF Distinct
<1>6. f \in Injection(1..n, S)
  BY <1>2, <1>4, Zenon DEF Injection, IsInjective
<1> QED
  BY <1>1, <1>2, <1>3, <1>5, <1>6

\* InOrder lists each number of a finite set once.
LEMMA InOrderFacts ==
    ASSUME NEW S, IsFiniteSet(S), S \subseteq Nat
    PROVE  /\ InOrder(S) \in Seq(Nat) /\ ToSet(InOrder(S)) = S /\ Distinct(InOrder(S))
           /\ DOMAIN InOrder(S) = 1..Len(InOrder(S))
           /\ InOrder(S) = << >> <=> S = {}
           /\ \A i \in DOMAIN InOrder(S) : InOrder(S)[i] \in S
<1>0. Cardinality(S) \in Nat
  BY FS_CardinalityType
<1>1. PICK n \in Nat : n = Cardinality(S)
  BY <1>0
<1>2. PICK f : f = InOrder(S)
  OBVIOUS
<1>3. f \in [1..n -> S] /\ \A i, j \in 1..n : i < j => f[i] < f[j]
  BY <1>1, <1>2, OrderExists DEF InOrder
<1>4. /\ f \in Seq(Nat) /\ Len(f) = n /\ Distinct(f) /\ f \in Injection(1..n, S)
      /\ DOMAIN f = 1..n /\ \A i \in 1..n : f[i] \in S
  BY <1>3, Listing
<1>5. Cardinality(1..n) = Cardinality(S)
  BY <1>1, FS_Interval
<1>6. f \in Surjection(1..n, S)
  BY <1>4, <1>5, FS_Injection
<1>7. \A x \in S : \E i \in 1..n : f[i] = x
  BY <1>6, Zenon DEF Surjection
<1>8. ToSet(f) = S
  BY <1>4, <1>7 DEF ToSet
<1>9. f = << >> <=> S = {}
  BY <1>4, <1>8, ToSetFacts
<1> QED
  BY <1>2, <1>4, <1>8, <1>9
-----------------------------------------------------------------------------
(* What the shapes say of one record and one part *)

\* The fields of a record, its shard and the part of its stream.
LEMMA RecFacts ==
    ASSUME TypeInv
    PROVE  /\ Ords = 1..Len(rec) /\ Len(rec) \in Nat
           /\ \A n \in Ords : /\ n \in Nat /\ rec[n] \in RecType
                              /\ rec[n].stream \in Streams /\ rec[n].hour \in Hours
                              /\ rec[n].cfg \in Nat /\ rec[n].big \in BOOLEAN
                              /\ ShardOfRow(n) \in Shards
                              /\ PartOf(n) \in Gens \cup {0} /\ PartOf(n) \in Nat
                              /\ stage[n] \in Stages
<1>1. Ords = 1..Len(rec) /\ Len(rec) \in Nat /\ \A n \in Ords : n \in Nat /\ rec[n] \in RecType
  BY DEF TypeInv, Shapes, Ords
<1>2. \A r \in RecType : r.stream \in Streams /\ r.hour \in Hours /\ r.cfg \in Nat /\ r.big \in BOOLEAN
  BY DEF RecType
<1>3. \A s \in Streams : ShardOf[s] \in Shards /\ active[s] \in Gens \cup {0} /\ active[s] \in Nat
  BY ServiceAssumption DEF TypeInv, Names, Shapes
<1>4. \A n \in Ords : stage[n] \in Stages
  BY DEF TypeInv, Shapes
<1> QED
  BY <1>1, <1>2, <1>3, <1>4 DEF ShardOfRow, PartOf

\* The fields of a part.
LEMMA PartFacts ==
    ASSUME TypeInv
    PROVE  /\ Gens = 1..Len(part) /\ Len(part) \in Nat
           /\ \A g \in Gens : /\ g \in Nat /\ g # 0 /\ part[g] \in PartType
                              /\ part[g].stream \in Streams /\ part[g].hour \in Hours
                              /\ part[g].cfg \in Nat /\ part[g].state \in States
                              /\ part[g].buf \in Seq(Nat) /\ part[g].deferred \in Seq(Nat)
                              /\ part[g].claimed \subseteq Nat /\ part[g].done \subseteq Nat
                              /\ part[g].folded \subseteq Nat
                              /\ Rows(g) \subseteq Ords /\ DeferredRows(g) \subseteq Ords
                              /\ ToSet(part[g].buf) \subseteq Ords /\ part[g].claimed \subseteq Ords
                              /\ part[g].done \subseteq Ords
<1>1. Gens = 1..Len(part) /\ Len(part) \in Nat /\ \A g \in Gens : g \in Nat /\ g # 0 /\ part[g] \in PartType
  BY DEF TypeInv, Shapes, Gens
<1>2. \A p \in PartType : /\ p.stream \in Streams /\ p.hour \in Hours
                          /\ p.cfg \in Nat /\ p.state \in States
                          /\ p.buf \in Seq(Nat) /\ p.deferred \in Seq(Nat)
                          /\ p.claimed \subseteq Nat /\ p.done \subseteq Nat /\ p.folded \subseteq Nat
  BY DEF PartType
<1>3. \A g \in Gens : Rows(g) \subseteq Ords /\ DeferredRows(g) \subseteq Ords
  BY DEF TypeInv, Names
<1>4. \A g \in Gens : /\ ToSet(part[g].buf) \subseteq Ords /\ part[g].claimed \subseteq Ords
                      /\ part[g].done \subseteq Ords
  BY <1>3 DEF Rows
<1> QED
  BY <1>1, <1>2, <1>3, <1>4

\* The rows in the drain's hands are accepted records.
LEMMA HandFacts ==
    ASSUME TypeInv
    PROVE  /\ loc.held \in Seq(Nat) /\ loc.roll \in Seq(Nat)
           /\ ToSet(loc.held) \subseteq InHand /\ ToSet(loc.roll) \subseteq InHand
           /\ InHand \subseteq Ords
           /\ loc.todo \subseteq Shards /\ loc.busy \subseteq Shards
<1>1. loc \in LocType /\ InHand \subseteq Ords
  BY DEF TypeInv, Shapes, Names
<1>2. \A x \in LocType : /\ x.held \in Seq(Nat) /\ x.roll \in Seq(Nat)
                         /\ x.todo \subseteq Shards /\ x.busy \subseteq Shards
  BY DEF LocType
<1>3. ToSet(loc.held) \subseteq InHand /\ ToSet(loc.roll) \subseteq InHand
  BY DEF InHand
<1> QED
  BY <1>1, <1>2, <1>3

\* A queue holds accepted records.
LEMMA QueueFacts ==
    ASSUME TypeInv, NEW s \in Shards
    PROVE  queue[s] \in Seq(Nat) /\ ToSet(queue[s]) \subseteq Ords /\ ToSet(queue[s]) \subseteq InQueues
BY DEF TypeInv, Shapes, Names, InQueues

-----------------------------------------------------------------------------
(* Steps that move no row *)

SameRow(g) ==
    /\ part'[g].stream = part[g].stream /\ part'[g].hour = part[g].hour
    /\ part'[g].cfg = part[g].cfg
    /\ part'[g].buf = part[g].buf /\ part'[g].claimed = part[g].claimed
    /\ part'[g].done = part[g].done /\ part'[g].deferred = part[g].deferred
FreshPart(g) ==
    /\ part'[g].buf = << >> /\ part'[g].claimed = {} /\ part'[g].done = {}
    /\ part'[g].deferred = << >>

\* No row is accepted, placed or settled; rows may go from the queues into the
\* drain's hands, and parts may be added.
Kept ==
    /\ rec' = rec /\ stage' = stage
    /\ InQueues' \cup InHand' = InQueues \cup InHand
    /\ Gens \subseteq Gens'
    /\ \A g \in Gens : SameRow(g)
    /\ \A g \in Gens' : g \in Gens \/ FreshPart(g)

\* No row is moved at all.
KeepRows ==
    /\ rec' = rec /\ stage' = stage /\ queue' = queue
    /\ InHand' = InHand
    /\ Gens \subseteq Gens'
    /\ \A g \in Gens : SameRow(g)
    /\ \A g \in Gens' : g \in Gens \/ FreshPart(g)

SamePop == \/ pc # "pop" /\ pc' # "pop"
           \/ pc' = pc /\ loc'.pop = loc.pop

\* A step that leaves hands and queues alone is one that moves no row.
LEMMA KeepRowsKept ==
    ASSUME KeepRows
    PROVE  Kept /\ InQueues' = InQueues
BY DEF KeepRows, Kept, InQueues

\* After a step that moves no row each part holds what it held.
LEMMA RowsKeptViews ==
    ASSUME Kept
    PROVE  /\ \A g \in Gens : Rows(g)' = Rows(g) /\ DeferredRows(g)' = DeferredRows(g)
           /\ \A g \in Gens' : g \in Gens \/ (Rows(g)' = {} /\ DeferredRows(g)' = {})
           /\ InQueues' \cup InHand' = InQueues \cup InHand /\ Ords' = Ords
           /\ rec' = rec /\ stage' = stage
           /\ Gens \subseteq Gens'
<1>1. \A g \in Gens : Rows(g)' = Rows(g) /\ DeferredRows(g)' = DeferredRows(g)
  BY DEF Kept, SameRow, Rows, DeferredRows
<1>2. \A g \in Gens' : g \in Gens \/ (Rows(g)' = {} /\ DeferredRows(g)' = {})
  BY ToSetEmpty DEF Kept, FreshPart, Rows, DeferredRows
<1>4. Ords' = Ords
  BY DEF Kept, Ords
<1> QED
  BY <1>1, <1>2, <1>4 DEF Kept

\* Such a step misroutes nothing.
LEMMA KeptRouted ==
    ASSUME Kept, RoutedRight
    PROVE  RoutedRight'
<1>1. SUFFICES ASSUME NEW g \in Gens', NEW n \in Rows(g)' \cup DeferredRows(g)'
               PROVE  /\ rec'[n].stream = part'[g].stream
                      /\ rec'[n].hour = part'[g].hour
                      /\ rec'[n].cfg = part'[g].cfg
  BY DEF RoutedRight
<1>2. g \in Gens /\ n \in Rows(g) \cup DeferredRows(g)
  BY RowsKeptViews
<1>3. SameRow(g) /\ rec' = rec
  BY <1>2 DEF Kept
<1> QED
  BY <1>2, <1>3 DEF RoutedRight, SameRow

\* It reorders nothing: the old parts keep their numbers, the new ones are empty.
LEMMA KeptOrder ==
    ASSUME TypeInv, Kept, Order, part' \in Seq(PartType)
    PROVE  Order'
<1>0. Gens = 1..Len(part) /\ Gens' = 1..Len(part') /\ Len(part) \in Nat /\ Len(part') \in Nat
  BY DEF TypeInv, Shapes, Gens
<1>1. SUFFICES ASSUME NEW n \in Ords, NEW m \in Ords, n < m, rec[n].stream = rec[m].stream,
                      NEW h \in Gens'
               PROVE  /\ m \in Rows(h)' =>
                            \E g \in 1..h : n \in Rows(g)' \/ (g < h /\ n \in DeferredRows(g)')
                      /\ m \in DeferredRows(h)' => n \notin InQueues' \cup InHand'
  BY RowsKeptViews DEF Order
<1>2. CASE h \in Gens
  <2>1. ASSUME m \in Rows(h)
        PROVE  \E g \in 1..h : n \in Rows(g)' \/ (g < h /\ n \in DeferredRows(g)')
    <3>1. PICK g \in 1..h : n \in Rows(g) \/ (g < h /\ n \in DeferredRows(g))
      BY <1>1, <1>2, <2>1 DEF Order
    <3>2. g \in Gens
      BY <1>0, <1>2
    <3> QED
      BY <3>1, <3>2, RowsKeptViews
  <2>2. m \in DeferredRows(h) => n \notin InQueues \cup InHand
    BY <1>1, <1>2 DEF Order
  <2>3. /\ Rows(h)' = Rows(h) /\ DeferredRows(h)' = DeferredRows(h)
        /\ InQueues' \cup InHand' = InQueues \cup InHand
    BY <1>2, RowsKeptViews
  <2>4. m \in DeferredRows(h)' => n \notin InQueues' \cup InHand'
    BY <2>2, <2>3
  <2>5. m \in Rows(h)' => \E g \in 1..h : n \in Rows(g)' \/ (g < h /\ n \in DeferredRows(g)')
    BY <2>1, <2>3
  <2> QED
    BY <2>4, <2>5
<1>3. CASE h \notin Gens
  BY <1>3, RowsKeptViews
<1> QED
  BY <1>2, <1>3

\* It keeps the queues in order.
LEMMA KeepRowsQueues == ASSUME KeepRows, Queues PROVE Queues'
BY DEF KeepRows, Queues, ShardOfRow

\* It leaves the queued records where they are; a new configuration needs none.
LEMMA KeptQueued ==
    ASSUME Kept, QueuedWhere, InQueues' \cap InHand' = {},
           cfg' = cfg \/ \A n \in Ords : stage[n] # "queued"
    PROVE  QueuedWhere'
BY RowsKeptViews DEF QueuedWhere

\* It leaves the stages true.
LEMMA KeptStages == ASSUME Kept, RowStages PROVE RowStages'
<1>1. SUFFICES ASSUME NEW g \in Gens'
               PROVE  /\ \A n \in ToSet(part'[g].buf) : stage'[n] = "buffered"
                      /\ \A n \in part'[g].claimed : stage'[n] \in {"inflight", "durable", "uncertain"}
                      /\ \A n \in part'[g].done : stage'[n] = "durable"
                      /\ part'[g].claimed \cap part'[g].done = {}
  BY DEF RowStages
<1>2. CASE g \in Gens
  BY <1>2 DEF Kept, RowStages, SameRow
<1>3. CASE g \notin Gens
  BY <1>3, ToSetEmpty DEF Kept, FreshPart
<1> QED
  BY <1>2, <1>3

\* It leaves each row in its one part.
LEMMA KeptOnePart == ASSUME Kept, OnePart PROVE OnePart'
<1>1. ASSUME NEW g \in Gens', NEW h \in Gens', NEW n \in Rows(g)', n \in Rows(h)' PROVE g = h
  BY <1>1, RowsKeptViews DEF OnePart
<1>2. ASSUME NEW n \in Ords, stage[n] # "queued"
      PROVE  \E g \in Gens' : n \in Rows(g)' \cup DeferredRows(g)'
  <2>1. PICK g \in Gens : n \in Rows(g) \cup DeferredRows(g)
    BY <1>2 DEF OnePart
  <2> QED
    BY <2>1, RowsKeptViews
<1> QED
  BY <1>1, <1>2, RowsKeptViews DEF OnePart

\* It leaves the deferred rows waiting.
LEMMA KeptWaiting ==
    ASSUME TypeInv, Kept, Waiting, SamePop, pc' = "pop" => loc'.pop \in Gens'
    PROVE  Waiting'
<1>1. ASSUME NEW g \in Gens'
      PROVE  /\ Increasing(part'[g].deferred)
             /\ \A n \in DeferredRows(g)' :
                   \/ stage'[n] = "buffered" /\ \A h \in Gens' : n \notin Rows(h)'
                   \/ Popping(g, n)' /\ n \in Rows(g)' /\ stage'[n] # "buffered"
  <2>1. CASE g \in Gens
    <3>1. Increasing(part'[g].deferred) /\ part'[g].deferred = part[g].deferred
      BY <2>1 DEF Kept, SameRow, Waiting
    <3>2. ASSUME NEW n \in DeferredRows(g)'
          PROVE  \/ stage'[n] = "buffered" /\ \A h \in Gens' : n \notin Rows(h)'
                 \/ Popping(g, n)' /\ n \in Rows(g)' /\ stage'[n] # "buffered"
      <4>1. n \in DeferredRows(g)
        BY <2>1, RowsKeptViews
      <4>2. CASE stage[n] = "buffered" /\ \A h \in Gens : n \notin Rows(h)
        BY <4>2, RowsKeptViews
      <4>3. CASE Popping(g, n) /\ n \in Rows(g) /\ stage[n] # "buffered"
        BY <2>1, <3>1, <4>3, RowsKeptViews DEF Popping, SamePop
      <4> QED
        BY <2>1, <4>1, <4>2, <4>3 DEF Waiting
    <3> QED
      BY <3>1, <3>2
  <2>2. CASE g \notin Gens
    BY <2>2, RowsKeptViews, NoRows DEF Kept, FreshPart
  <2> QED
    BY <2>1, <2>2
<1>2. ASSUME NEW g \in Gens', NEW h \in Gens', NEW n \in DeferredRows(g)', n \in DeferredRows(h)'
      PROVE  g = h
  BY <1>2, RowsKeptViews DEF Waiting
<1>3. ASSUME pc' = "pop"
      PROVE  /\ loc'.pop # 0 /\ part'[loc'.pop].deferred # << >>
             /\ part'[loc'.pop].deferred[1] \in Rows(loc.pop)'
  <2>1. /\ loc'.pop = loc.pop /\ loc.pop # 0 /\ part[loc.pop].deferred # << >> /\ loc.pop \in Gens
        /\ part[loc.pop].deferred[1] \in Rows(loc.pop)
    BY <1>3 DEF SamePop, Waiting, TypeInv, Names
  <2>2. part'[loc.pop].deferred = part[loc.pop].deferred
    BY <2>1 DEF Kept, SameRow
  <2>3. Rows(loc.pop)' = Rows(loc.pop)
    BY <2>1, <2>2 DEF Kept, SameRow, Rows
  <2> QED
    BY <2>1, <2>2, <2>3
<1> QED
  BY <1>1, <1>2, <1>3 DEF Waiting

\* A step that moves no row between hands, queues and parts keeps RowsInv.
LEMMA KeptInv ==
    ASSUME TypeInv, RoutedRight, RowsInv, Kept, SamePop, TypeInv', Queues',
           InQueues' \cap InHand' = {},
           cfg' = cfg \/ \A n \in Ords : stage[n] # "queued"
    PROVE  RowsInv' /\ RoutedRight'
<1>1. part' \in Seq(PartType) /\ (pc' = "pop" => loc'.pop \in Gens')
  <2>1. ASSUME pc' = "pop" PROVE loc'.pop \in Gens'
    <3>1. pc = "pop" /\ loc'.pop = loc.pop /\ loc.pop \in Gens
      BY <2>1 DEF SamePop, RowsInv, Waiting, TypeInv, Names
    <3> QED
      BY <3>1 DEF Kept
  <2> QED
    BY <2>1 DEF TypeInv, Shapes
<1>2. RoutedRight'
  BY KeptRouted
<1>3. Order'
  BY <1>1, KeptOrder DEF RowsInv
<1>4. QueuedWhere' /\ RowStages' /\ OnePart'
  BY KeptQueued, KeptStages, KeptOnePart DEF RowsInv
<1>5. Waiting'
  BY <1>1, KeptWaiting DEF RowsInv
<1> QED
  BY <1>2, <1>3, <1>4, <1>5 DEF RowsInv

\* So does one that leaves the queues and the hands as they are.
LEMMA KeepRowsInv ==
    ASSUME TypeInv, RoutedRight, RowsInv, KeepRows, SamePop, TypeInv',
           cfg' = cfg \/ \A n \in Ords : stage[n] # "queued"
    PROVE  RowsInv' /\ RoutedRight'
<1>1. Kept /\ InQueues' = InQueues /\ InHand' = InHand
  BY KeepRowsKept DEF KeepRows
<1>2. Queues'
  BY KeepRowsQueues DEF RowsInv
<1>3. InQueues' \cap InHand' = {}
  BY <1>1 DEF RowsInv, QueuedWhere
<1> QED
  BY <1>1, <1>2, <1>3, KeptInv
-----------------------------------------------------------------------------
(* What a step leaves alone of the other parts of the invariant *)

\* With nothing in hand, HandInv asks for nothing.
LEMMA EmptyHand ==
    ASSUME loc'.held = << >>, loc'.roll = << >>, pc' \notin {"place", "materialized", "ensured"}
    PROVE  HandInv'
<1>1. InHand' = {} /\ ToSet(loc'.held) = {} /\ ToSet(loc'.roll) = {}
  BY ToSetEmpty DEF InHand
<1>2. HandWhere'
  BY DEF HandWhere
<1>3. HandOnce'
  BY <1>1, NoRows DEF HandOnce
<1>4. HandFirst'
  BY <1>1 DEF HandFirst
<1>5. HandPart'
  BY <1>1 DEF HandPart
<1> QED
  BY <1>2, <1>3, <1>4, <1>5 DEF HandInv

\* Rows in hand have a part.
LEMMA PartOfHand ==
    ASSUME TypeInv, HandPart, NEW n \in InHand
    PROVE  n \in Ords /\ rec[n].stream \in Streams /\ PartOf(n) \in Gens
<1>1. n \in Ords
  BY DEF TypeInv, Names
<1> QED
  BY <1>1, RecFacts DEF HandPart

\* What is in hand keeps its part when rows, queues and active parts stay.
LEMMA SameHand ==
    ASSUME TypeInv, HandInv, KeepRows, active' = active, cfg' = cfg, Len(part') = Len(part),
           loc' = loc, pc' = pc
    PROVE  HandInv'
<1>1. InHand' = InHand /\ rec' = rec /\ queue' = queue
  BY DEF KeepRows
<1>2. HandWhere'
  BY DEF HandWhere, HandInv
<1>3. HandOnce'
  BY <1>1 DEF HandOnce, HandInv, ShardOfRow
<1>4. HandFirst'
  BY <1>1 DEF HandFirst, HandInv, ShardOfRow
<1>5. \A n \in InHand : /\ PartOf(n)' = PartOf(n) /\ PartOf(n) # 0
                        /\ part'[PartOf(n)].hour = part[PartOf(n)].hour
                        /\ part'[PartOf(n)].buf = part[PartOf(n)].buf
  <2>1. ASSUME NEW n \in InHand PROVE PartOf(n) \in Gens /\ PartOf(n) # 0 /\ PartOf(n)' = PartOf(n)
    BY <1>1, PartOfHand DEF HandInv, HandPart, PartOf
  <2>2. \A g \in Gens : part'[g].hour = part[g].hour /\ part'[g].buf = part[g].buf
    BY DEF KeepRows, SameRow
  <2> QED
    BY <2>1, <2>2
<1>6. \A n \in ToSet(loc.held) \cup ToSet(loc.roll) : n \in InHand
  BY DEF InHand
<1>7. ASSUME pc = "ensured"
      PROVE  /\ loc.from = "sweep" /\ Len(loc.held) = 1 /\ Len(part) > 0
             /\ part'[Len(part)].stream = rec[loc.held[1]].stream
             /\ part'[Len(part)].hour = rec[loc.held[1]].hour
             /\ part'[Len(part)].cfg = cfg /\ PartOf(loc.held[1])' # Len(part)
  <2>1. Len(part) \in Gens
    BY <1>7 DEF HandInv, HandPart, TypeInv, Shapes, Gens
  <2>2. SameRow(Len(part))
    BY <2>1 DEF KeepRows
  <2>3. PartOf(loc.held[1])' = PartOf(loc.held[1])
    BY <1>1 DEF PartOf
  <2> QED
    BY <1>7, <2>2, <2>3 DEF SameRow, HandInv, HandPart
<1>8. HandPart'
  BY <1>1, <1>5, <1>6, <1>7 DEF HandPart, HandInv
<1> QED
  BY <1>2, <1>3, <1>4, <1>8 DEF HandInv

\* Where parts may be reserved.
Making == {"materialized", "rotated", "ensured"}

\* ActiveNewest and OpenActive survive a step that leaves the parts alone.
LEMMA SameActive ==
    ASSUME ActiveNewest, OpenActive, active' = active, cfg' = cfg, part' = part,
           members' \cup pendingHour' \subseteq members \cup pendingHour,
           pc' = pc \/ (pc \notin Making /\ pc' \notin Making)
    PROVE  ActiveNewest' /\ OpenActive'
<1>1. ActiveNewest'
  BY DEF ActiveNewest, Making, Gens
<1>2. OpenActive'
  BY DEF OpenActive, Making, Gens
<1> QED
  BY <1>1, <1>2

\* Claims survive a step that makes none.
LEMMA SameClaims ==
    ASSUME Claims, \A g \in Gens' : part'[g].claimed = {} \/ (g \in Gens /\ part'[g].claimed = part[g].claimed),
           op' = op
    PROVE  Claims'
BY DEF Claims

\* Without an operation in flight there is no claim.
LEMMA NoClaims ==
    ASSUME Claims, op = NoOp
    PROVE  \A g \in Gens : part[g].claimed = {}
BY DEF Claims, NoOp

\* Without a claim there is nothing to say.
LEMMA StillNoClaims ==
    ASSUME \A g \in Gens' : part'[g].claimed = {}
    PROVE  Claims'
BY DEF Claims

\* A step of the actor or of a client that leaves rows and parts alone.
Calm ==
    /\ UNCHANGED <<rec, queue, stage, part, active, cfg>>
    /\ members' \cup pendingHour' \subseteq members \cup pendingHour

SameHands == loc' = loc /\ pc' = pc
EmptyHands ==
    /\ loc.held = << >> /\ loc.roll = << >> /\ loc'.held = << >> /\ loc'.roll = << >>
    /\ pc \notin Making \cup {"pop"} /\ pc' \notin Making \cup {"pop", "place"}

\* A calm step moves no row.
LEMMA CalmRows ==
    ASSUME Calm, InHand' = InHand
    PROVE  KeepRows
BY DEF Calm, KeepRows, SameRow, Gens

\* A calm step keeps the invariant if it keeps types, claims and commands.
LEMMA CalmStep ==
    ASSUME WInv, pc # "stopped", pc' # "stopped", Calm, SameHands \/ EmptyHands,
           TypeInv', Claims', Commands'
    PROVE  WInv'
<1>0. TypeInv /\ RoutedRight /\ Running
  BY DEF WInv
<1>1. InHand' = InHand
  BY DEF SameHands, EmptyHands, InHand
<1>2. KeepRows
  BY <1>1, CalmRows
<1>3. SamePop
  BY DEF SamePop, SameHands, EmptyHands
<1>4. RowsInv' /\ RoutedRight'
  BY <1>0, <1>2, <1>3, KeepRowsInv DEF Running, Calm
<1>5. ActiveNewest' /\ OpenActive'
  BY <1>0, SameActive DEF Running, PartsInv, Calm, SameHands, EmptyHands
<1>6. HandInv'
  <2>1. CASE SameHands
    BY <1>0, <1>2, <2>1, SameHand DEF Running, Calm, SameHands
  <2>2. CASE EmptyHands
    BY <2>2, EmptyHand DEF EmptyHands, Making
  <2> QED
    BY <2>1, <2>2
<1> QED
  BY <1>4, <1>5, <1>6 DEF WInv, Running, PartsInv
-----------------------------------------------------------------------------
(* Types of the calm steps *)

\* Typing after a calm step.
LEMMA CalmTypes ==
    ASSUME TypeInv, UNCHANGED <<rec, queue, stage, part, active>>,
           retiring' \subseteq Gens, pendingHour' \subseteq Gens, members' \subseteq Gens,
           assoc' \subseteq Ords, op' \in OpType, op'.files \subseteq Gens,
           loc' \in LocType, loc'.size \subseteq Gens, loc'.pop \in Gens \cup {0},
           InHand' \subseteq Ords, LoopShapes'
    PROVE  TypeInv'
<1>1. Shapes'
  BY DEF TypeInv, Shapes, Ords
<1>2. Names'
  BY DEF TypeInv, Names, Ords, Gens, Rows, DeferredRows
<1> QED
  BY <1>1, <1>2 DEF TypeInv

\* The fresh locals of a drain.
LEMMA NoLocalsFacts ==
    /\ NoLocals \in LocType /\ NoLocals.held = << >> /\ NoLocals.roll = << >>
    /\ NoLocals.size = {} /\ NoLocals.pop = 0 /\ NoLocals.todo = {} /\ NoLocals.busy = {}
    /\ NoLocals.from = "none"
BY DEF NoLocals, LocType

\* No operation and no command.
LEMMA NoOpFacts ==
    /\ NoOp \in OpType /\ NoOp.files = {} /\ NoOp.kind = "none" /\ NoOp.pumped = FALSE
    /\ NoCmd \in CmdType /\ NoCmd.kind = "none"
BY DEF NoOp, OpType, NoCmd, CmdType

\* Whoever takes a step finds a writer that runs.
LEMMA StillRuns ==
    ASSUME WInv, \/ Suspended \/ nest \/ op # NoOp \/ (\E p : At(p) /\ p # "stopped")
    PROVE  pc # "stopped" /\ TypeInv /\ RoutedRight /\ Running
<1>1. pc # "stopped"
  BY DEF WInv, Ended, Suspended, At
<1> QED
  BY <1>1 DEF WInv

\* At a step of the actor itself nothing is in flight.
LEMMA AtFacts ==
    ASSUME WInv, NEW p, At(p), p # "stopped"
    PROVE  /\ pc = p /\ op = NoOp /\ nest = FALSE
           /\ TypeInv /\ RoutedRight /\ Running /\ Commands /\ PartsInv /\ HandInv /\ RowsInv
           /\ \A g \in Gens : part[g].claimed = {}
<1>1. TypeInv /\ RoutedRight /\ Running
  BY StillRuns
<1>2. \A g \in Gens : part[g].claimed = {}
  BY <1>1, NoClaims DEF Running, PartsInv, At
<1>3. nest = FALSE
  BY <1>1 DEF TypeInv, Shapes, LoopShapes, At
<1> QED
  BY <1>1, <1>2, <1>3 DEF Running, At

\* _enter_terminal_error, with any settlement made just before.
LEMMA TerminalW ==
    ASSUME WInv, NEW why \in {"contract", "storage", "oldest", "deadline", "incomplete"},
           NEW settled, settled \in [Ords -> Stages], TerminalFrom(why, settled)
    PROVE  WInv'
<1>0. TypeInv /\ RoutedRight
  BY DEF WInv
<1>1. /\ UNCHANGED <<rec, queue, active, retiring, pendingHour, assoc, cmd, cfg, mode, members,
                     oldest, submitted, closing>>
      /\ pc' = "stopped" /\ op' = NoOp /\ nest' = FALSE /\ loc' = NoLocals
      /\ cmds' = << >> /\ work' = FALSE /\ due' = FALSE /\ wakeAfter' = FALSE
      /\ life' = "CRITICAL" /\ adm' = "CLOSED" /\ cause' = why
      /\ stage' = Uncertain(settled)
      /\ part' = [g \in Gens |-> [part[g] EXCEPT !.deferred = << >>]]
  BY DEF TerminalFrom, ingressVars, histVars
<1>2. /\ Gens' = Gens /\ Ords' = Ords /\ part' \in Seq(PartType)
      /\ \A g \in Gens : /\ part'[g] = [part[g] EXCEPT !.deferred = << >>]
                         /\ part'[g].deferred = << >> /\ part'[g].buf = part[g].buf
                         /\ part'[g].claimed = part[g].claimed /\ part'[g].done = part[g].done
                         /\ part'[g].folded = part[g].folded
                         /\ part'[g].stream = part[g].stream /\ part'[g].hour = part[g].hour
                         /\ part'[g].cfg = part[g].cfg
  <2>1. Ords' = Ords /\ Gens' = Gens
    BY <1>1 DEF Ords, Gens
  <2>3. Gens = 1..Len(part) /\ Len(part) \in Nat /\ \A g \in Gens : part[g] \in PartType
    BY <1>0, PartFacts
  <2>4. \A g \in Gens : part'[g] = [part[g] EXCEPT !.deferred = << >>]
    BY <1>1
  <2>5. ASSUME NEW g \in Gens
        PROVE  /\ part'[g] \in PartType
               /\ part'[g].deferred = << >> /\ part'[g].buf = part[g].buf
               /\ part'[g].claimed = part[g].claimed /\ part'[g].done = part[g].done
               /\ part'[g].folded = part[g].folded
               /\ part'[g].stream = part[g].stream /\ part'[g].hour = part[g].hour
               /\ part'[g].cfg = part[g].cfg
    <3>1. part[g] \in PartType
      BY <2>3
    <3>2. part'[g] = [part[g] EXCEPT !.deferred = << >>]
      BY <2>4
    <3>3. << >> \in Seq(Nat)
      OBVIOUS
    <3> QED
      BY <3>1, <3>2, <3>3 DEF PartType
  <2>6. part' \in [1..Len(part) -> PartType]
    BY <1>1, <2>3, <2>4, <2>5
  <2>7. part' \in Seq(PartType)
    BY <2>3, <2>6
  <2> QED
    BY <2>1, <2>4, <2>5, <2>7
<1>3. stage' \in [Ords' -> Stages]
  BY <1>1, <1>2 DEF Uncertain, Stages
<1>4. Shapes'
  BY <1>0, <1>1, <1>2, <1>3, NoLocalsFacts, NoOpFacts, ToSetEmpty DEF TypeInv, Shapes, LoopShapes
<1>5. \A g \in Gens : Rows(g)' = Rows(g) /\ DeferredRows(g)' = {}
  BY <1>2, ToSetEmpty DEF Rows, DeferredRows
<1>6. InHand' = {}
  BY <1>1, NoLocalsFacts, ToSetEmpty DEF InHand
<1>7. Names'
  <2>1. ASSUME NEW g \in Gens'
        PROVE  Rows(g)' \cup DeferredRows(g)' \cup part'[g].folded \subseteq Ords'
    <3>1. g \in Gens /\ Rows(g) \cup part[g].folded \subseteq Ords
      BY <1>0, <1>2 DEF TypeInv, Names
    <3> QED
      BY <1>2, <1>5, <3>1
  <2> QED
    BY <1>0, <1>1, <1>2, <1>6, <2>1, NoLocalsFacts, NoOpFacts DEF TypeInv, Names
<1>8. RoutedRight'
  BY <1>0, <1>1, <1>2, <1>5 DEF RoutedRight
<1> QED
  BY <1>1, <1>4, <1>7, <1>8 DEF WInv, TypeInv, Ended

\* The stages as they are count as a settlement.
LEMMA StageIsSettled ==
    ASSUME TypeInv
    PROVE  stage \in [Ords -> Stages]
BY DEF TypeInv, Shapes

\* _enter_terminal_error with the stages as they are.
LEMMA TerminalNowW ==
    ASSUME WInv, NEW why \in {"contract", "storage", "oldest", "deadline", "incomplete"}, Terminal(why)
    PROVE  WInv'
BY StageIsSettled, TerminalW DEF Terminal, WInv
-----------------------------------------------------------------------------
(* Clients, the timer and the turns of the actor that move nothing *)

\* A calm step that leaves the operation and the sets of parts alone.
LEMMA CalmOpStep ==
    ASSUME WInv, pc # "stopped", pc' # "stopped",
           UNCHANGED <<rec, queue, stage, part, active, retiring, pendingHour, assoc, cfg, members, op>>,
           \/ SameHands
           \/ EmptyHands /\ loc' \in LocType /\ loc'.size \subseteq Gens /\ loc'.pop \in Gens \cup {0},
           LoopShapes', Commands'
    PROVE  WInv'
<1>0. TypeInv /\ Running
  BY DEF WInv
<1>1. InHand' = InHand
  BY DEF SameHands, EmptyHands, InHand
<1>2. loc' \in LocType /\ loc'.size \subseteq Gens /\ loc'.pop \in Gens \cup {0}
  BY <1>0 DEF SameHands, TypeInv, Shapes, Names
<1>3. TypeInv'
  BY <1>0, <1>1, <1>2, CalmTypes DEF TypeInv, Shapes, Names
<1>4. Claims'
  BY <1>0, SameClaims DEF Running, PartsInv, Gens
<1>5. Calm
  BY DEF Calm
<1> QED
  BY <1>3, <1>4, <1>5, CalmStep

\* The timer.
LEMMA TickW == ASSUME WInv, Tick PROVE WInv'
<1>0. pc # "stopped" /\ TypeInv /\ Running
  BY StillRuns DEF Tick
<1>1. /\ UNCHANGED <<rec, queue, stage, part, active, retiring, pendingHour, assoc, cfg, members, op>>
      /\ SameHands /\ UNCHANGED <<cmds, cmd, life, adm, mode, nest, wakeAfter, oldest, cause,
                                  submitted, closing>>
      /\ work' = TRUE /\ due' = TRUE
  BY DEF Tick, ingressVars, partVars, ctlVars, histVars, SameHands
<1>2. LoopShapes'
  BY <1>0, <1>1 DEF TypeInv, Shapes, LoopShapes
<1>3. Commands'
  BY <1>0, <1>1 DEF Running, Commands, SameHands
<1> QED
  BY <1>0, <1>1, <1>2, <1>3, CalmOpStep DEF SameHands

\* A client's command.
LEMMA SubmitW == ASSUME WInv, NEW k \in Kinds, Submit(k) PROVE WInv'
<1>0. pc # "stopped" /\ TypeInv /\ Running
  BY StillRuns DEF Submit
<1>1. /\ UNCHANGED <<rec, queue, stage, part, active, retiring, pendingHour, assoc, cfg, members, op>>
      /\ SameHands /\ UNCHANGED <<cmd, due, mode, nest, wakeAfter, oldest, cause>>
      /\ work' = TRUE /\ cmds' = Append(cmds, Command(k)) /\ submitted' = submitted + 1
      /\ closing' = (closing \/ k = "close")
  BY DEF Submit, Enqueued, ingressVars, partVars, ctlVars, SameHands
<1>2. adm' \in {"OPEN", "CLOSED"}
  BY <1>0 DEF Submit, GateAfter, TypeInv, Shapes, LoopShapes
<1>3. life' \in {"ACCEPTING", "ROTATING", "CLOSING", "CLOSED", "CRITICAL"}
  BY <1>0 DEF Submit, TypeInv, Shapes, LoopShapes
<1>4. cmds' \in Seq(CmdType)
  <2>1. Command(k) \in CmdType
    BY <1>0, RecFacts DEF Command, CmdType, TypeInv, Shapes, LoopShapes
  <2> QED
    BY <1>0, <1>1, <2>1 DEF TypeInv, Shapes, LoopShapes
<1>5. LoopShapes'
  <2>1. submitted' \in Nat /\ closing' \in BOOLEAN
    BY <1>0, <1>1 DEF TypeInv, Shapes, LoopShapes
  <2> QED
    BY <1>0, <1>1, <1>2, <1>3, <1>4, <2>1 DEF TypeInv, Shapes, LoopShapes
<1>6. Commands'
  BY <1>0, <1>1 DEF Running, Commands, SameHands
<1> QED
  BY <1>0, <1>1, <1>5, <1>6, CalmOpStep DEF SameHands

\* Outside the drain nothing is in hand.
LEMMA NoneInHand ==
    ASSUME HandWhere, pc \notin {"materialized", "ensured", "place", "sweep"}
    PROVE  loc.held = << >> /\ loc.roll = << >>
BY DEF HandWhere

\* The top of the loop.
LEMMA WakeUpW == ASSUME WInv, WakeUp PROVE WInv'
<1>0. /\ pc = "idle" /\ TypeInv /\ Running /\ HandInv /\ Commands
  BY AtFacts DEF WakeUp
<1>1. /\ UNCHANGED <<rec, queue, stage, part, active, retiring, pendingHour, assoc, cfg, members, op>>
      /\ UNCHANGED <<due, cmds, cmd, life, adm, nest, wakeAfter, oldest, cause, submitted, closing>>
      /\ work' = FALSE /\ mode' = "main" /\ loc' = NoLocals /\ pc' \in {"deferred", "commands"}
  BY DEF WakeUp, ingressVars, partVars, histVars
<1>2. EmptyHands
  BY <1>0, <1>1, NoneInHand, NoLocalsFacts DEF EmptyHands, Making, HandInv
<1>3. LoopShapes'
  BY <1>0, <1>1 DEF TypeInv, Shapes, LoopShapes
<1>4. Commands'
  BY <1>0, <1>1 DEF Commands
<1> QED
  BY <1>0, <1>1, <1>2, <1>3, <1>4, CalmOpStep, NoLocalsFacts

\* The actor resumes after its yield.
LEMMA ResumedW == ASSUME WInv, Resumed PROVE WInv'
<1>0. /\ pc = "yield" /\ TypeInv /\ Running /\ HandInv /\ Commands
  BY AtFacts DEF Resumed
<1>1. /\ UNCHANGED <<rec, queue, stage, part, active, retiring, pendingHour, assoc, cfg, members, op>>
      /\ UNCHANGED <<work, due, cmds, cmd, life, adm, mode, nest, wakeAfter, oldest, cause,
                     submitted, closing, loc>>
      /\ pc' = "drained"
  BY DEF Resumed, ingressVars, partVars, loopVars, histVars
<1>2. EmptyHands
  BY <1>0, <1>1, NoneInHand DEF EmptyHands, Making, HandInv
<1>3. LoopShapes'
  BY <1>0, <1>1 DEF TypeInv, Shapes, LoopShapes
<1>4. Commands'
  BY <1>0, <1>1 DEF Commands
<1> QED
  BY <1>0, <1>1, <1>2, <1>3, <1>4, CalmOpStep DEF TypeInv, Names, Shapes

\* The drain returns.
LEMMA DrainedW == ASSUME WInv, Drained PROVE WInv'
<1>0. /\ pc = "drained" /\ TypeInv /\ Running /\ HandInv /\ Commands
  BY AtFacts DEF Drained
<1>1. /\ UNCHANGED <<rec, queue, stage, part, active, retiring, pendingHour, assoc, cfg, members, op>>
      /\ UNCHANGED <<work, due, cmds, cmd, life, adm, nest, wakeAfter, oldest, cause,
                     submitted, closing>>
      /\ loc' = NoLocals
  BY DEF Drained, ingressVars, partVars, loopVars, histVars
<1>2. /\ mode' \in {"main", "cmd", "crit"} /\ pc' \in {"deferred", "commands", "exec", "critSync"}
      /\ pc' = "commands" => mode = "main" /\ mode' = mode
      /\ mode' = "main" => mode = "main"
  <2>1. mode \in {"main", "cmd", "crit"}
    BY <1>0 DEF TypeInv, Shapes, LoopShapes
  <2> QED
    BY <2>1 DEF Drained
<1>3. EmptyHands
  BY <1>0, <1>1, <1>2, NoneInHand, NoLocalsFacts DEF EmptyHands, Making, HandInv
<1>4. LoopShapes'
  BY <1>0, <1>1, <1>2 DEF TypeInv, Shapes, LoopShapes
<1>5. Commands'
  BY <1>0, <1>1, <1>2 DEF Commands
<1> QED
  BY <1>0, <1>1, <1>2, <1>3, <1>4, <1>5, CalmOpStep, NoLocalsFacts

\* The next command.
LEMMA NextCommandW == ASSUME WInv, NextCommand PROVE WInv'
<1>0. /\ pc = "commands" /\ TypeInv /\ Running /\ HandInv /\ Commands /\ cmds # << >>
  BY AtFacts DEF NextCommand
<1>1. /\ UNCHANGED <<rec, queue, stage, part, active, retiring, pendingHour, assoc, cfg, members, op>>
      /\ UNCHANGED <<work, due, life, adm, nest, wakeAfter, oldest, cause, submitted, closing, loc>>
      /\ cmd' = Head(cmds) /\ cmds' = Tail(cmds) /\ mode' = "cmd" /\ pc' = "deferred"
  BY DEF NextCommand, ingressVars, partVars, histVars
<1>2. EmptyHands
  BY <1>0, <1>1, NoneInHand DEF EmptyHands, Making, HandInv
<1>3. LoopShapes'
  <2>1. cmd' \in CmdType /\ cmds' \in Seq(CmdType)
    BY <1>0, <1>1 DEF TypeInv, Shapes, LoopShapes
  <2> QED
    BY <1>0, <1>1, <2>1 DEF TypeInv, Shapes, LoopShapes
<1>4. Commands'
  BY <1>0, <1>1 DEF Commands
<1> QED
  BY <1>0, <1>1, <1>2, <1>3, <1>4, CalmOpStep DEF TypeInv, Names, Shapes

\* The nested drain ends.
LEMMA NestEndW == ASSUME WInv, NestEnd PROVE WInv'
<1>0. pc # "stopped" /\ TypeInv /\ Running
  BY StillRuns DEF NestEnd
<1>1. /\ UNCHANGED <<rec, queue, stage, part, active, retiring, pendingHour, assoc, cfg, members, op>>
      /\ SameHands /\ UNCHANGED <<work, due, cmds, cmd, life, adm, mode, oldest, cause, submitted, closing>>
      /\ nest' = FALSE /\ wakeAfter' = (wakeAfter \/ Nonempty # {} \/ Deferred # {})
  BY DEF NestEnd, ingressVars, partVars, loopVars, histVars, SameHands
<1>2. LoopShapes'
  <2>1. wakeAfter' \in BOOLEAN
    BY <1>1
  <2> QED
    BY <1>0, <1>1, <2>1 DEF TypeInv, Shapes, LoopShapes
<1>3. Commands'
  BY <1>0, <1>1 DEF Running, Commands, SameHands
<1> QED
  BY <1>0, <1>1, <1>2, <1>3, CalmOpStep DEF SameHands

\* A wake-up inside _pump_task.
LEMMA PumpWakeW == ASSUME WInv, NEW late \in Ages, PumpWake(late) PROVE WInv'
<1>0. pc # "stopped" /\ TypeInv /\ Running
  <2>1. op # NoOp
    BY NoOpFacts DEF PumpWake
  <2> QED
    BY <2>1, StillRuns
<1>1. /\ UNCHANGED <<rec, queue, stage, part, active, retiring, pendingHour, assoc, cfg, members, op>>
      /\ SameHands /\ UNCHANGED <<due, cmds, cmd, mode, cause, submitted, closing>>
      /\ work' = FALSE
  BY DEF PumpWake, ingressVars, partVars, histVars, SameHands
<1>2. nest' \in BOOLEAN /\ wakeAfter' \in BOOLEAN
  BY DEF PumpWake, NestAllowed
<1>3. /\ oldest' \in BOOLEAN /\ adm' \in {"OPEN", "CLOSED"}
      /\ life' \in {"ACCEPTING", "ROTATING", "CLOSING", "CLOSED", "CRITICAL"}
  <2>1. BeginOldest \/ UNCHANGED <<oldest, life, adm>>
    BY DEF PumpWake
  <2> QED
    BY <1>0, <2>1 DEF BeginOldest, TypeInv, Shapes, LoopShapes
<1>4. LoopShapes'
  BY <1>0, <1>1, <1>2, <1>3 DEF TypeInv, Shapes, LoopShapes
<1>5. Commands'
  BY <1>0, <1>1 DEF Running, Commands, SameHands
<1> QED
  BY <1>0, <1>1, <1>4, <1>5, CalmOpStep DEF SameHands
-----------------------------------------------------------------------------
(* The end of a rotation, a config change or a close *)

\* A calm step outside the drain: the operation or the sets of parts may change.
LEMMA CalmMove ==
    ASSUME WInv, NEW p, At(p), p \notin Making \cup {"pop", "place", "sweep", "stopped"},
           pc' \notin Making \cup {"pop", "place", "stopped"},
           UNCHANGED <<rec, queue, stage, part, active, cfg, assoc>>,
           retiring' \subseteq Gens, pendingHour' \subseteq pendingHour,
           members' \subseteq members \cup pendingHour,
           op' \in OpType, op'.files \subseteq Gens,
           loc' = loc \/ loc' = NoLocals,
           LoopShapes', Commands'
    PROVE  WInv'
<1>0. pc = p /\ TypeInv /\ Running /\ HandInv /\ PartsInv /\ \A g \in Gens : part[g].claimed = {}
  BY AtFacts
<1>1. loc.held = << >> /\ loc.roll = << >>
  BY <1>0, NoneInHand DEF HandInv, Making
<1>2. EmptyHands
  BY <1>0, <1>1, NoLocalsFacts DEF EmptyHands
<1>3. InHand' = InHand
  BY <1>2 DEF EmptyHands, InHand
<1>4. loc' \in LocType /\ loc'.size \subseteq Gens /\ loc'.pop \in Gens \cup {0}
  BY <1>0, NoLocalsFacts DEF TypeInv, Shapes, Names
<1>5. TypeInv'
  BY <1>0, <1>3, <1>4, CalmTypes DEF TypeInv, Names
<1>6. Claims'
  BY <1>0, StillNoClaims DEF Gens
<1>7. Calm
  BY DEF Calm
<1> QED
  BY <1>0, <1>2, <1>5, <1>6, <1>7, CalmStep

\* Empty parts are sent to be discarded.
LEMMA DiscardEmptyW == ASSUME WInv, DiscardEmpty PROVE WInv'
<1>0. pc = "discard" /\ TypeInv /\ Running
  BY AtFacts DEF DiscardEmpty
<1>1. /\ UNCHANGED <<rec, queue, stage, part, active, retiring, pendingHour, assoc, cfg, members, loc>>
      /\ UNCHANGED <<work, due, cmds, cmd, life, adm, mode, nest, wakeAfter, oldest, cause,
                     submitted, closing>>
      /\ op' = FileOp("discard", FALSE) /\ pc' = "discarded"
  BY DEF DiscardEmpty, ingressVars, partVars, loopVars, histVars
<1>2. op' \in OpType /\ op'.files = {}
  BY <1>1 DEF FileOp, OpType
<1>3. LoopShapes'
  BY <1>0, <1>1 DEF TypeInv, Shapes, LoopShapes
<1>4. Commands'
  BY <1>0, <1>1 DEF Running, Commands
<1>5. retiring' \subseteq Gens
  BY <1>0, <1>1 DEF TypeInv, Names
<1>6. At("discard")
  BY DEF DiscardEmpty
<1> QED
  BY <1>1, <1>2, <1>3, <1>4, <1>5, <1>6, CalmMove DEF Making

\* Where the actor goes after a rotation.
LEMMA RotationReturnsFacts ==
    ASSUME TypeInv, RotationReturns
    PROVE  pc' \in {"commands", "idle"} /\ cmd' = NoCmd /\ mode' = "main"
BY DEF RotationReturns

\* The active parts of a config change or a close are detached when it ends.
LEMMA DetachedWhenClosed ==
    ASSUME Commands, pc = "closed", cmd.kind \in {"rotate_config", "close"}
    PROVE  \A s \in Streams : active[s] = 0
BY DEF Commands

\* The configuration changes: nothing is queued and no part is active.
LEMMA ClosedConfig ==
    ASSUME WInv, At("closed"), cmd.kind = "rotate_config", Unsettled = {},
           cfg' = cmd.cfg, pc' = "commands", mode' = "main", cmd' = NoCmd,
           UNCHANGED <<rec, queue, stage, part, active, assoc, op, loc>>,
           retiring' \subseteq retiring, pendingHour' \subseteq pendingHour, members' = {},
           LoopShapes'
    PROVE  WInv'
<1>0. /\ pc = "closed" /\ TypeInv /\ Running /\ HandInv /\ PartsInv /\ Commands /\ RowsInv
      /\ RoutedRight /\ \A g \in Gens : part[g].claimed = {}
  BY AtFacts
<1>1. loc.held = << >> /\ loc.roll = << >>
  BY <1>0, NoneInHand DEF HandInv
<1>2. InHand' = InHand
  BY DEF InHand
<1>3. TypeInv'
  BY <1>0, <1>2, CalmTypes DEF TypeInv, Names, Shapes
<1>4. \A n \in Ords : stage[n] # "queued"
  BY DEF Unsettled
<1>5. KeepRows
  BY <1>2 DEF KeepRows, SameRow, Gens
<1>6. RowsInv' /\ RoutedRight'
  BY <1>0, <1>3, <1>4, <1>5, KeepRowsInv DEF SamePop
<1>7. ActiveNewest'
  BY <1>0, DetachedWhenClosed DEF ActiveNewest
<1>8. OpenActive'
  BY <1>0 DEF OpenActive, PartsInv, Gens
<1>9. Claims'
  BY <1>0, StillNoClaims DEF Gens
<1>10. HandInv'
  BY <1>1, EmptyHand
<1>11. Commands'
  BY DEF Commands
<1> QED
  BY <1>3, <1>6, <1>7, <1>8, <1>9, <1>10, <1>11 DEF WInv, Running, PartsInv

\* What follows the final barrier.
LEMMA ClosedW == ASSUME WInv, Closed PROVE WInv'
<1>0. /\ pc = "closed" /\ TypeInv /\ Running /\ HandInv /\ Commands /\ RoutedRight /\ op = NoOp
      /\ nest = FALSE /\ At("closed")
  BY AtFacts DEF Closed
<1>1. CASE /\ cmd.kind \in {"none", "sync", "rotate_due"}
           /\ life' = "ACCEPTING"
           /\ retiring' = retiring \ members /\ pendingHour' = pendingHour \ members
           /\ members' = {}
           /\ RotationReturns
           /\ UNCHANGED <<ingressVars, stage, part, active, assoc, work, due, cmds, adm, cfg, op,
                          nest, wakeAfter, loc, oldest, cause, rotations, submitted, closing>>
  <2>1. pc' \in {"commands", "idle"} /\ cmd' = NoCmd /\ mode' = "main"
    BY <1>0, <1>1, RotationReturnsFacts
  <2>2. UNCHANGED <<rec, queue, stage, part, active, cfg, assoc, op, loc>>
    BY <1>1 DEF ingressVars
  <2>3. retiring' \subseteq Gens /\ op' \in OpType /\ op'.files \subseteq Gens
    BY <1>0, <1>1 DEF TypeInv, Names, Shapes
  <2>4. LoopShapes'
    BY <1>0, <1>1, <2>1, NoOpFacts DEF TypeInv, Shapes, LoopShapes
  <2>5. Commands'
    BY <2>1 DEF Commands
  <2> QED
    BY <1>0, <1>1, <2>1, <2>2, <2>3, <2>4, <2>5, CalmMove DEF Making
<1>2. CASE cmd.kind = "rotate_config" /\ Unsettled # {} /\ Terminal("contract")
  BY <1>2, TerminalNowW
<1>3. CASE /\ cmd.kind = "rotate_config" /\ Unsettled = {}
           /\ cfg' = cmd.cfg /\ life' = "ACCEPTING" /\ adm' = "OPEN"
           /\ retiring' = retiring \ members /\ pendingHour' = pendingHour \ members
           /\ members' = {}
           /\ cmd' = NoCmd /\ mode' = "main" /\ pc' = "commands"
           /\ UNCHANGED <<ingressVars, stage, part, active, assoc, work, due, cmds, op, nest,
                          wakeAfter, loc, oldest, cause, histVars>>
  <2>1. UNCHANGED <<rec, queue, stage, part, active, assoc, op, loc>>
    BY <1>3 DEF ingressVars
  <2>2. cmd.cfg \in Nat
    BY <1>0 DEF TypeInv, Shapes, LoopShapes, CmdType
  <2>3. LoopShapes'
    BY <1>0, <1>3, <2>2, NoOpFacts DEF TypeInv, Shapes, LoopShapes, histVars
  <2> QED
    BY <1>0, <1>3, <2>1, <2>3, ClosedConfig
<1>4. CASE /\ cmd.kind = "close"
           /\ life' = "CLOSED" /\ adm' = "CLOSED"
           /\ retiring' = retiring \ members /\ pendingHour' = pendingHour \ members
           /\ members' = {}
           /\ cmds' = << >> /\ pc' = "stopped"
           /\ UNCHANGED <<ingressVars, stage, part, active, assoc, work, due, cmd, cfg, mode, op,
                          nest, wakeAfter, loc, oldest, cause, histVars>>
  <2>1. UNCHANGED <<rec, queue, stage, part, active, assoc, op, loc, nest>>
    BY <1>4 DEF ingressVars
  <2>2. InHand' = InHand
    BY <2>1 DEF InHand
  <2>3. LoopShapes'
    BY <1>0, <1>4, ToSetEmpty DEF TypeInv, Shapes, LoopShapes, histVars
  <2>4. TypeInv'
    BY <1>0, <1>4, <2>1, <2>2, <2>3, CalmTypes DEF TypeInv, Names, Shapes
  <2>5. RoutedRight'
    BY <1>0, <2>1 DEF RoutedRight, Gens, Rows, DeferredRows
  <2> QED
    BY <1>0, <1>4, <2>1, <2>4, <2>5 DEF WInv, Ended
<1> QED
  BY <1>1, <1>2, <1>3, <1>4 DEF Closed

\* A rotation that chooses no part.
LEMMA RotateCalm ==
    ASSUME WInv, NEW chosen, Rotate(chosen), oldest \/ chosen = {}
    PROVE  WInv'
<1>0. /\ pc = "rotate" /\ TypeInv /\ Running /\ HandInv /\ Commands /\ At("rotate")
  BY AtFacts DEF Rotate
<1>1. /\ UNCHANGED <<rec, queue, stage, part, active, retiring, pendingHour, assoc, cfg, op, loc>>
      /\ UNCHANGED <<work, due, cmds, adm, nest, wakeAfter, oldest, cause, submitted, closing>>
  BY DEF Rotate, ingressVars
<1>2. /\ life' \in {life, "ROTATING"}
      /\ members' = members \/ members' = pendingHour
      /\ \/ mode' = "crit" /\ pc' = "deferred" /\ cmd' = cmd
         \/ RotationReturns
         \/ pc' = "discard" /\ mode' = mode /\ cmd' = cmd
  BY DEF Rotate
<1>3. /\ pc' \in {"deferred", "commands", "idle", "discard"}
      /\ pc' \in {"commands", "idle"} => mode' = "main"
      /\ mode' \in {"main", "cmd", "crit"} /\ cmd' \in {cmd, NoCmd}
      /\ mode' = "main" => cmd' = NoCmd
      /\ cmd'.kind \notin {"rotate_config", "close"}
  <2>1. mode \in {"main", "cmd", "crit"} /\ (mode = "main" => cmd = NoCmd)
        /\ cmd.kind \notin {"rotate_config", "close"}
    BY <1>0 DEF TypeInv, Shapes, LoopShapes, Commands
  <2> QED
    BY <1>2, <2>1, NoOpFacts DEF RotationReturns
<1>4. LoopShapes'
  BY <1>0, <1>1, <1>2, <1>3, NoOpFacts DEF TypeInv, Shapes, LoopShapes
<1>5. Commands'
  BY <1>3 DEF Commands
<1>6. retiring' \subseteq Gens /\ op' \in OpType /\ op'.files \subseteq Gens
  BY <1>0, <1>1 DEF TypeInv, Names, Shapes
<1> QED
  BY <1>0, <1>1, <1>2, <1>3, <1>4, <1>5, <1>6, CalmMove DEF Making

\* The incomplete command.
LEMMA ExecIncompleteW == ASSUME WInv, ExecIncomplete PROVE WInv'
BY TerminalNowW DEF ExecIncomplete

\* A deferred row without an owned part.
LEMMA DeferredLostW == ASSUME WInv, DeferredLost PROVE WInv'
BY TerminalNowW DEF DeferredLost
-----------------------------------------------------------------------------
(* Steps that change the state of parts or add parts *)

\* Typing after a step that changes states of parts or adds empty parts.
LEMMA KeepTypes ==
    ASSUME TypeInv, UNCHANGED <<rec, stage>>,
           queue' \in [Shards -> Seq(Nat)], \A s \in Shards : ToSet(queue'[s]) \subseteq Ords,
           part' \in Seq(PartType), Gens \subseteq Gens',
           \A g \in Gens : SameRow(g) /\ part'[g].folded = part[g].folded,
           \A g \in Gens' : g \in Gens \/ (FreshPart(g) /\ part'[g].folded = {}),
           active' \in [Streams -> Nat], \A s \in Streams : active'[s] \in Gens' \cup {0},
           retiring' \subseteq Gens', pendingHour' \subseteq Gens', members' \subseteq Gens',
           assoc' \subseteq Ords, op' \in OpType, op'.files \subseteq Gens',
           loc' \in LocType, loc'.size \subseteq Gens', loc'.pop \in Gens' \cup {0},
           InHand' \subseteq Ords, LoopShapes'
    PROVE  TypeInv'
<1>1. Ords' = Ords
  BY DEF Ords
<1>2. Shapes'
  BY <1>1 DEF TypeInv, Shapes
<1>3. ASSUME NEW g \in Gens'
      PROVE  Rows(g)' \cup DeferredRows(g)' \cup part'[g].folded \subseteq Ords'
  <2>1. CASE g \in Gens
    <3>1. Rows(g)' = Rows(g) /\ DeferredRows(g)' = DeferredRows(g) /\ part'[g].folded = part[g].folded
      BY <2>1 DEF SameRow, Rows, DeferredRows
    <3> QED
      BY <1>1, <2>1, <3>1 DEF TypeInv, Names
  <2>2. CASE g \notin Gens
    <3>1. FreshPart(g) /\ part'[g].folded = {}
      BY <2>2
    <3> QED
      BY <3>1, ToSetEmpty DEF FreshPart, Rows, DeferredRows
  <2> QED
    BY <2>1, <2>2
<1>4. \A n \in Ords' : rec'[n].targets \subseteq Gens'
  BY <1>1 DEF TypeInv, Names
<1>5. Names'
  BY <1>1, <1>3, <1>4 DEF Names
<1> QED
  BY <1>2, <1>5 DEF TypeInv

Restate(X, v) ==
    part' = [g \in Gens |-> IF g \in X THEN [part[g] EXCEPT !.state = v] ELSE part[g]]

\* Parts that only change their state.
LEMMA Restated ==
    ASSUME TypeInv, NEW X, NEW v \in States, Restate(X, v)
    PROVE  /\ Gens' = Gens /\ Len(part') = Len(part) /\ part' \in Seq(PartType)
           /\ \A g \in Gens : /\ SameRow(g) /\ part'[g].folded = part[g].folded
                              /\ part'[g].stream = part[g].stream /\ part'[g].cfg = part[g].cfg
                              /\ part'[g].hour = part[g].hour /\ part'[g].buf = part[g].buf
                              /\ part'[g].claimed = part[g].claimed
                              /\ part'[g].state = (IF g \in X THEN v ELSE part[g].state)
<1>1. Gens = 1..Len(part) /\ Len(part) \in Nat /\ \A g \in Gens : part[g] \in PartType
  BY PartFacts
<1>2. Gens' = Gens
  BY DEF Gens, Restate
<1>3. ASSUME NEW g \in Gens
      PROVE  /\ part'[g] \in PartType
             /\ part'[g].stream = part[g].stream /\ part'[g].hour = part[g].hour
             /\ part'[g].cfg = part[g].cfg
             /\ part'[g].buf = part[g].buf /\ part'[g].claimed = part[g].claimed
             /\ part'[g].done = part[g].done /\ part'[g].deferred = part[g].deferred
             /\ part'[g].folded = part[g].folded
             /\ part'[g].state = (IF g \in X THEN v ELSE part[g].state)
  <2>1. part[g] \in PartType
    BY <1>1
  <2>2. CASE g \in X
    <3>1. part'[g] = [part[g] EXCEPT !.state = v]
      BY <2>2 DEF Restate
    <3> QED
      BY <2>1, <2>2, <3>1 DEF PartType
  <2>3. CASE g \notin X
    <3>1. part'[g] = part[g]
      BY <2>3 DEF Restate
    <3> QED
      BY <2>1, <2>3, <3>1
  <2> QED
    BY <2>2, <2>3
<1>4. part' \in [1..Len(part) -> PartType]
  BY <1>1, <1>3 DEF Restate
<1>5. part' \in Seq(PartType) /\ Len(part') = Len(part)
  BY <1>1, <1>4
<1> QED
  BY <1>2, <1>3, <1>5 DEF SameRow

\* Parts change their state and nothing else moves.
LEMMA RestatedStep ==
    ASSUME WInv, pc # "stopped", pc' # "stopped", NEW X, NEW v \in States, Restate(X, v),
           UNCHANGED <<rec, queue, stage, assoc, cfg, loc>>, active' \in [Streams -> Nat],
           \A s \in Streams : active'[s] \in Gens \cup {0},
           retiring' \subseteq Gens, pendingHour' \subseteq Gens, members' \subseteq Gens,
           op' \in OpType, op'.files \subseteq Gens, op' = op \/ op = NoOp \/ op.kind \notin {"sync", "close"},
           pc' = pc \/ (pc # "pop" /\ pc' # "pop"), LoopShapes', Commands', ActiveNewest', OpenActive',
           HandInv'
    PROVE  WInv'
<1>0. TypeInv /\ RoutedRight /\ Running
  BY DEF WInv
<1>1. /\ Gens' = Gens /\ Len(part') = Len(part) /\ part' \in Seq(PartType)
      /\ \A g \in Gens : SameRow(g) /\ part'[g].folded = part[g].folded
  BY <1>0, Restated
<1>2. InHand' = InHand
  BY DEF InHand
<1>3. TypeInv'
  BY <1>0, <1>1, <1>2, KeepTypes DEF TypeInv, Names, Shapes
<1>4. KeepRows
  BY <1>1, <1>2 DEF KeepRows
<1>5. RowsInv' /\ RoutedRight'
  BY <1>0, <1>3, <1>4, KeepRowsInv DEF Running, SamePop
<1>6. Claims'
  <2>1. \A g \in Gens' : g \in Gens /\ part'[g].claimed = part[g].claimed
    BY <1>1 DEF SameRow
  <2>2. CASE op' = op
    BY <1>0, <2>1, <2>2, SameClaims DEF Running, PartsInv
  <2>3. CASE op = NoOp \/ op.kind \notin {"sync", "close"}
    <3>1. \A g \in Gens : part[g].claimed = {}
      BY <1>0, <2>3, NoClaims DEF Running, PartsInv, Claims
    <3> QED
      BY <2>1, <3>1, StillNoClaims
  <2> QED
    BY <2>2, <2>3
<1> QED
  BY <1>3, <1>5, <1>6 DEF WInv, Running, PartsInv

\* commit_reserved_batch opens the reserved parts.
LEMMA MaterializedW == ASSUME WInv, Materialized PROVE WInv'
<1>0. /\ pc = "materialized" /\ TypeInv /\ Running /\ HandInv /\ Commands /\ PartsInv /\ op = NoOp
  BY AtFacts DEF Materialized
<1> DEFINE X == {g \in Gens : part[g].state = "reserved"}
<1>1. /\ UNCHANGED <<rec, queue, stage, active, retiring, pendingHour, assoc, cfg, members, loc, op>>
      /\ UNCHANGED <<work, due, cmds, cmd, life, adm, mode, nest, wakeAfter, oldest, cause,
                     submitted, closing>>
      /\ pc' = "place"
      /\ Restate(X, "open")
  BY DEF Materialized, Restate, ingressVars, loopVars, histVars
<1>1x. \A g \in Gens : g \in X <=> part[g].state = "reserved"
  OBVIOUS
<1> HIDE DEF X
<1>2. /\ Gens' = Gens /\ Len(part') = Len(part)
      /\ \A g \in Gens : /\ SameRow(g)
                         /\ part'[g].stream = part[g].stream /\ part'[g].cfg = part[g].cfg
                         /\ part'[g].hour = part[g].hour /\ part'[g].buf = part[g].buf
                         /\ part'[g].state = (IF g \in X THEN "open" ELSE part[g].state)
  <2>1. "open" \in States
    BY DEF States
  <2> QED
    BY <1>0, <1>1, <2>1, Restated
<1>3. LoopShapes'
  BY <1>0, <1>1 DEF TypeInv, Shapes, LoopShapes
<1>4. Commands'
  BY <1>0, <1>1 DEF Commands
<1>5. ActiveNewest'
  <2>1. SUFFICES ASSUME NEW s \in Streams, active[s] # 0
                 PROVE  /\ part'[active[s]].stream = s /\ part'[active[s]].cfg = cfg
                        /\ part'[active[s]].state \in {"open", "reserved"}
                        /\ \A g \in Gens : part'[g].stream = s => g <= active[s]
    BY <1>1, <1>2 DEF ActiveNewest
  <2>2. active[s] \in Gens
    BY <1>0, <2>1 DEF TypeInv, Names
  <2> QED
    BY <1>0, <1>2, <2>1, <2>2 DEF ActiveNewest, PartsInv
<1>6. OpenActive'
  <2>1. ASSUME NEW g \in Gens, part'[g].state = "open" PROVE active[part[g].stream] = g
    BY <1>0, <1>1x, <1>2, <2>1 DEF OpenActive, PartsInv
  <2>2. ASSUME NEW g \in Gens PROVE part'[g].state # "reserved"
    BY <1>1x, <1>2
  <2>3. ASSUME NEW g \in members \cup pendingHour PROVE part'[g].state \notin {"open", "reserved"}
    <3>1. g \in Gens /\ part[g].state \notin {"open", "reserved"}
      BY <1>0 DEF TypeInv, Names, OpenActive, PartsInv
    <3> QED
      BY <1>1x, <1>2, <3>1
  <2> QED
    BY <1>1, <1>2, <2>1, <2>2, <2>3 DEF OpenActive
<1>7. HandInv'
  <2>1. InHand' = InHand /\ InHand \subseteq Ords
    BY <1>0, <1>1 DEF InHand, TypeInv, Names
  <2>2. HandWhere'
    BY <1>0, <1>1 DEF HandInv, HandWhere
  <2>3. HandOnce'
    BY <1>0, <1>1, <2>1 DEF HandInv, HandOnce, ShardOfRow
  <2>4. HandFirst'
    BY <1>0, <1>1, <2>1 DEF HandInv, HandFirst, ShardOfRow
  <2>5. \A n \in InHand : PartOf(n)' = PartOf(n) /\ PartOf(n) \in Gens /\ PartOf(n) # 0
    BY <1>0, <1>1, PartOfHand DEF HandInv, HandPart, PartOf
  <2>6. ToSet(loc.held) \subseteq InHand /\ ToSet(loc.roll) \subseteq InHand
    BY DEF InHand
  <2>7. \A n \in InHand : /\ part'[PartOf(n)].hour = part[PartOf(n)].hour
                           /\ part'[PartOf(n)].buf = part[PartOf(n)].buf
    BY <1>2, <2>5
  <2>8. HandPart
    BY <1>0 DEF HandInv
  <2>9. HandPart'
    BY <1>0, <1>1, <2>1, <2>5, <2>6, <2>7, <2>8 DEF HandPart
  <2> QED
    BY <2>2, <2>3, <2>4, <2>9 DEF HandInv
<1>8. /\ \A s \in Streams : active'[s] \in Gens \cup {0}
      /\ retiring' \subseteq Gens /\ pendingHour' \subseteq Gens /\ members' \subseteq Gens
      /\ op' \in OpType /\ op'.files \subseteq Gens /\ active' \in [Streams -> Nat]
  BY <1>0, <1>1 DEF TypeInv, Names, Shapes
<1> QED
  BY <1>0, <1>1, <1>3, <1>4, <1>5, <1>6, <1>7, <1>8, RestatedStep DEF States
\* commit_rotations opens the reserved parts.
LEMMA RotatedW == ASSUME WInv, Rotated PROVE WInv'
<1>0. /\ pc = "rotated" /\ TypeInv /\ Running /\ HandInv /\ Commands /\ PartsInv /\ op = NoOp
  BY AtFacts DEF Rotated
<1> DEFINE X == {g \in Gens : part[g].state = "reserved"}
<1>1. /\ UNCHANGED <<rec, queue, stage, active, retiring, pendingHour, assoc, cfg, loc, op>>
      /\ UNCHANGED <<work, due, cmds, cmd, adm, mode, nest, wakeAfter, oldest, cause,
                     submitted, closing>>
      /\ pc' = "discard" /\ life' = "ROTATING" /\ members' = members \cup pendingHour
      /\ Restate(X, "open")
  BY DEF Rotated, Restate, ingressVars, histVars
<1>1x. \A g \in Gens : g \in X <=> part[g].state = "reserved"
  OBVIOUS
<1> HIDE DEF X
<1>1s. "open" \in States
  BY DEF States
<1>2. /\ Gens' = Gens /\ Len(part') = Len(part)
      /\ \A g \in Gens : /\ SameRow(g)
                         /\ part'[g].stream = part[g].stream /\ part'[g].cfg = part[g].cfg
                         /\ part'[g].state = (IF g \in X THEN "open" ELSE part[g].state)
  BY <1>0, <1>1, <1>1s, Restated
<1>3. LoopShapes'
  BY <1>0, <1>1 DEF TypeInv, Shapes, LoopShapes
<1>4. Commands'
  BY <1>0, <1>1 DEF Commands
<1>5. ActiveNewest'
  <2>1. SUFFICES ASSUME NEW s \in Streams, active[s] # 0
                 PROVE  /\ part'[active[s]].stream = s /\ part'[active[s]].cfg = cfg
                        /\ part'[active[s]].state \in {"open", "reserved"}
                        /\ \A g \in Gens : part'[g].stream = s => g <= active[s]
    BY <1>1, <1>2 DEF ActiveNewest
  <2>2. active[s] \in Gens
    BY <1>0, <2>1 DEF TypeInv, Names
  <2> QED
    BY <1>0, <1>2, <2>1, <2>2 DEF ActiveNewest, PartsInv
<1>6. OpenActive'
  <2>1. ASSUME NEW g \in Gens, part'[g].state = "open" PROVE active[part[g].stream] = g
    BY <1>0, <1>1x, <1>2, <2>1 DEF OpenActive, PartsInv
  <2>2. ASSUME NEW g \in Gens PROVE part'[g].state # "reserved"
    BY <1>1x, <1>2
  <2>3. ASSUME NEW g \in members \cup pendingHour PROVE part'[g].state \notin {"open", "reserved"}
    <3>1. g \in Gens /\ part[g].state \notin {"open", "reserved"}
      BY <1>0 DEF TypeInv, Names, OpenActive, PartsInv
    <3> QED
      BY <1>1x, <1>2, <3>1
  <2> QED
    BY <1>1, <1>2, <2>1, <2>2, <2>3 DEF OpenActive
<1>7. HandInv'
  BY <1>0, <1>1, NoneInHand, EmptyHand DEF HandInv
<1>8. /\ \A s \in Streams : active'[s] \in Gens \cup {0}
      /\ retiring' \subseteq Gens /\ pendingHour' \subseteq Gens /\ members' \subseteq Gens
      /\ op' \in OpType /\ op'.files \subseteq Gens /\ active' \in [Streams -> Nat]
  BY <1>0, <1>1 DEF TypeInv, Names, Shapes
<1> QED
  BY <1>0, <1>1, <1>1s, <1>3, <1>4, <1>5, <1>6, <1>7, <1>8, RestatedStep

\* The empty members are discarded.
LEMMA DiscardedW == ASSUME WInv, Discarded PROVE WInv'
<1>0. /\ pc = "discarded" /\ TypeInv /\ Running /\ HandInv /\ Commands /\ PartsInv /\ op = NoOp
  BY AtFacts DEF Discarded
<1>1. /\ UNCHANGED <<rec, queue, stage, active, assoc, cfg, loc, op>>
      /\ UNCHANGED <<work, due, cmds, cmd, life, adm, mode, nest, wakeAfter, oldest, cause,
                     submitted, closing>>
      /\ pc' = "discard" /\ members' = members \ Empty
      /\ retiring' = retiring \ Empty /\ pendingHour' = pendingHour \ Empty
      /\ Restate(Empty, "discarded")
  BY DEF Discarded, Restate, ingressVars, loopVars, histVars
<1>1s. "discarded" \in States
  BY DEF States
<1>2. /\ Gens' = Gens /\ Len(part') = Len(part)
      /\ \A g \in Gens : /\ SameRow(g)
                         /\ part'[g].stream = part[g].stream /\ part'[g].cfg = part[g].cfg
                         /\ part'[g].state = (IF g \in Empty THEN "discarded" ELSE part[g].state)
  BY <1>0, <1>1, <1>1s, Restated
<1>2e. \A g \in Empty : g \in Gens /\ part[g].state \notin {"open", "reserved"}
  BY <1>0 DEF Empty, TypeInv, Names, PartsInv, OpenActive
<1>3. LoopShapes'
  BY <1>0, <1>1 DEF TypeInv, Shapes, LoopShapes
<1>4. Commands'
  BY <1>0, <1>1 DEF Commands
<1>5. ActiveNewest'
  <2>1. SUFFICES ASSUME NEW s \in Streams, active[s] # 0
                 PROVE  /\ part'[active[s]].stream = s /\ part'[active[s]].cfg = cfg
                        /\ part'[active[s]].state \in {"open", "reserved"}
                        /\ \A g \in Gens : part'[g].stream = s => g <= active[s]
    BY <1>1, <1>2 DEF ActiveNewest
  <2>2. active[s] \in Gens
    BY <1>0, <2>1 DEF TypeInv, Names
  <2> QED
    BY <1>0, <1>2, <1>2e, <2>1, <2>2 DEF ActiveNewest, PartsInv
<1>6. OpenActive'
  <2>1. ASSUME NEW g \in Gens, part'[g].state = "open" PROVE active[part[g].stream] = g
    BY <1>0, <1>2, <2>1 DEF OpenActive, PartsInv
  <2>2. ASSUME NEW g \in Gens PROVE part'[g].state # "reserved"
    BY <1>0, <1>2 DEF OpenActive, PartsInv
  <2>3. ASSUME NEW g \in members \cup pendingHour PROVE part'[g].state \notin {"open", "reserved"}
    <3>1. g \in Gens /\ part[g].state \notin {"open", "reserved"}
      BY <1>0 DEF TypeInv, Names, OpenActive, PartsInv
    <3> QED
      BY <1>2, <3>1
  <2> QED
    BY <1>1, <1>2, <2>1, <2>2, <2>3 DEF OpenActive
<1>7. HandInv'
  BY <1>0, <1>1, NoneInHand, EmptyHand DEF HandInv
<1>8. /\ \A s \in Streams : active'[s] \in Gens \cup {0}
      /\ retiring' \subseteq Gens /\ pendingHour' \subseteq Gens /\ members' \subseteq Gens
      /\ op' \in OpType /\ op'.files \subseteq Gens /\ active' \in [Streams -> Nat]
  BY <1>0, <1>1 DEF TypeInv, Names, Shapes
<1> QED
  BY <1>0, <1>1, <1>1s, <1>3, <1>4, <1>5, <1>6, <1>7, <1>8, RestatedStep

\* rotate_config and close detach every active part.
LEMMA ExecDetachW == ASSUME WInv, NEW late \in Ages, ExecDetach(late) PROVE WInv'
<1>0. /\ pc = "exec" /\ TypeInv /\ Running /\ HandInv /\ Commands /\ PartsInv /\ op = NoOp
  BY AtFacts DEF ExecDetach
<1>1. CASE Terminal("contract") \/ Terminal("deadline")
  BY <1>1, TerminalNowW
<1>2. CASE /\ members' = CloseMembers
           /\ part' = [g \in Gens |-> IF g \in ActiveParts THEN [part[g] EXCEPT !.state = "retired"]
                                                           ELSE part[g]]
           /\ active' = [s \in Streams |-> 0]
           /\ pc' = "discard"
           /\ UNCHANGED <<ingressVars, stage, retiring, pendingHour, assoc, loopVars, mode, op, nest,
                          wakeAfter, loc, oldest, cause, histVars>>
  <2>1. /\ UNCHANGED <<rec, queue, stage, retiring, pendingHour, assoc, cfg, loc, op>>
        /\ UNCHANGED <<work, due, cmds, cmd, life, adm, mode, nest, wakeAfter, oldest, cause,
                       submitted, closing>>
        /\ Restate(ActiveParts, "retired")
    BY <1>2 DEF Restate, ingressVars, loopVars, histVars
  <2>1s. "retired" \in States
    BY DEF States
  <2>2. /\ Gens' = Gens /\ Len(part') = Len(part)
        /\ \A g \in Gens : /\ SameRow(g)
                           /\ part'[g].stream = part[g].stream /\ part'[g].cfg = part[g].cfg
                           /\ part'[g].state = (IF g \in ActiveParts THEN "retired" ELSE part[g].state)
    BY <1>0, <2>1, <2>1s, Restated
  <2>3. LoopShapes'
    BY <1>0, <2>1 DEF TypeInv, Shapes, LoopShapes
  <2>4. Commands'
    BY <1>0, <1>2, <2>1 DEF Commands
  <2>5. ActiveNewest'
    BY <1>2 DEF ActiveNewest
  <2>6. OpenActive'
    <3>1. ASSUME NEW g \in Gens PROVE part'[g].state \notin {"open", "reserved"}
      <4>1. part[g].state = "open" => g \in ActiveParts
        BY <1>0 DEF OpenActive, PartsInv, ActiveParts
      <4>2. part[g].state # "reserved"
        BY <1>0 DEF OpenActive, PartsInv
      <4> QED
        BY <2>2, <4>1, <4>2
    <3>2. members' \cup pendingHour' \subseteq Gens
      BY <1>0, <1>2, <2>1 DEF CloseMembers, ActiveParts, TypeInv, Names
    <3> QED
      BY <1>2, <2>2, <3>1, <3>2 DEF OpenActive
  <2>7. HandInv'
    BY <1>0, <1>2, <2>1, NoneInHand, EmptyHand DEF HandInv
  <2>8. /\ \A s \in Streams : active'[s] \in Gens \cup {0}
        /\ retiring' \subseteq Gens /\ pendingHour' \subseteq Gens /\ members' \subseteq Gens
        /\ op' \in OpType /\ op'.files \subseteq Gens /\ active' \in [Streams -> Nat]
    BY <1>0, <1>2, <2>1 DEF TypeInv, Names, Shapes, CloseMembers, ActiveParts
  <2> QED
    BY <1>0, <1>2, <2>1, <2>1s, <2>3, <2>4, <2>5, <2>6, <2>7, <2>8, RestatedStep
<1> QED
  BY <1>1, <1>2 DEF ExecDetach

\* A batch of syncs is done.
LEMMA BatchDoneW == ASSUME WInv, BatchDone PROVE WInv'
<1>0. pc # "stopped" /\ TypeInv /\ Running /\ PartsInv
  <2>1. op # NoOp
    BY NoOpFacts DEF BatchDone
  <2> QED
    BY <2>1, StillRuns DEF Running
<1>1. CASE ~BatchOk /\ Terminal(op.failed)
  <2>1. op.failed \in {"contract", "storage", "oldest", "deadline", "incomplete"}
    BY <1>0, <1>1 DEF BatchOk, TypeInv, Shapes, OpType
  <2> QED
    BY <1>1, <2>1, TerminalNowW
<1>2. CASE BatchOk /\ op.files = {}
  <2>1. \A g \in Gens : part[g].claimed = {}
    BY <1>0, <1>2 DEF BatchOk, Claims, PartsInv
  <2>2. CASE Resume /\ UNCHANGED part
    <3>1. /\ UNCHANGED <<rec, queue, stage, part, active, retiring, pendingHour, assoc, cfg, members, loc, pc>>
          /\ UNCHANGED <<due, cmds, cmd, life, adm, mode, nest, oldest, cause, submitted, closing>>
          /\ op' = NoOp /\ work' = (work \/ wakeAfter) /\ wakeAfter' = FALSE
      BY <2>2 DEF Resume, ingressVars, histVars
    <3>2. LoopShapes'
      <4>1. work' \in BOOLEAN
        BY <3>1
      <4> QED
        BY <1>0, <3>1, <4>1 DEF TypeInv, Shapes, LoopShapes
    <3>3. Commands'
      BY <1>0, <3>1 DEF Running, Commands
    <3>4. InHand' = InHand
      BY <3>1 DEF InHand
    <3>5. TypeInv'
      BY <1>0, <3>1, <3>2, <3>4, NoOpFacts, CalmTypes DEF TypeInv, Names, Shapes
    <3>6. Claims'
      BY <2>1, <3>1, StillNoClaims DEF Gens
    <3> QED
      BY <1>0, <3>1, <3>3, <3>5, <3>6, CalmStep DEF Calm, SameHands
  <2>3. CASE /\ op' = [op EXCEPT !.kind = "publish"]
             /\ UNCHANGED <<ingressVars, stage, partVars, loopVars, pc, mode, nest, wakeAfter, loc,
                            members, oldest, cause, histVars>>
    <3>1. /\ UNCHANGED <<rec, queue, stage, part, active, retiring, pendingHour, assoc, cfg, members, loc, pc>>
          /\ UNCHANGED <<work, due, cmds, cmd, life, adm, mode, nest, wakeAfter, oldest, cause,
                         submitted, closing>>
      BY <2>3 DEF ingressVars, partVars, loopVars, histVars
    <3>2. LoopShapes'
      BY <1>0, <3>1 DEF TypeInv, Shapes, LoopShapes
    <3>3. Commands'
      BY <1>0, <3>1 DEF Running, Commands
    <3>4. InHand' = InHand
      BY <3>1 DEF InHand
    <3>5. op' \in OpType /\ op'.files \subseteq Gens
      BY <1>0, <2>3 DEF TypeInv, Names, Shapes, OpType
    <3>6. TypeInv'
      BY <1>0, <3>1, <3>2, <3>4, <3>5, CalmTypes DEF TypeInv, Names, Shapes
    <3>7. Claims'
      BY <2>1, <3>1, StillNoClaims DEF Gens
    <3> QED
      BY <1>0, <3>1, <3>3, <3>6, <3>7, CalmStep DEF Calm, SameHands
  <2> QED
    BY <1>2, <2>2, <2>3 DEF BatchDone
<1> QED
  BY <1>1, <1>2 DEF BatchDone

\* Files are created, discarded or published.
LEMMA FileOpDoneW == ASSUME WInv, NEW fails \in StorageFails, FileOpDone(fails) PROVE WInv'
<1>0. pc # "stopped" /\ TypeInv /\ Running /\ PartsInv /\ op.kind \notin {"sync", "close"}
      /\ HandInv /\ Commands
  <2>1. op # NoOp
    BY NoOpFacts DEF FileOpDone
  <2> QED
    BY <2>1, StillRuns DEF Running, FileOpDone
<1>1. CASE Terminal("storage")
  BY <1>1, TerminalNowW
<1>2. CASE Resume /\ part' = [g \in Gens |-> IF op.kind = "publish" /\ g \in members
                                            THEN [part[g] EXCEPT !.state = "published"] ELSE part[g]]
  <2> DEFINE X == {g \in members : op.kind = "publish"}
  <2>1. /\ UNCHANGED <<rec, queue, stage, active, retiring, pendingHour, assoc, cfg, members, loc, pc>>
        /\ UNCHANGED <<due, cmds, cmd, life, adm, mode, nest, oldest, cause, submitted, closing>>
        /\ op' = NoOp /\ work' = (work \/ wakeAfter) /\ wakeAfter' = FALSE
    BY <1>2 DEF Resume, ingressVars, histVars
  <2>1r. Restate(X, "published")
    BY <1>2 DEF Restate
  <2>1x. X \subseteq members
    OBVIOUS
  <2> HIDE DEF X
  <2>1s. "published" \in States
    BY DEF States
  <2>2. /\ Gens' = Gens /\ Len(part') = Len(part)
        /\ \A g \in Gens : /\ SameRow(g)
                           /\ part'[g].stream = part[g].stream /\ part'[g].cfg = part[g].cfg
                           /\ part'[g].state = (IF g \in X THEN "published" ELSE part[g].state)
    BY <1>0, <2>1r, <2>1s, Restated
  <2>2e. \A g \in X : g \in Gens /\ part[g].state \notin {"open", "reserved"}
    BY <1>0, <2>1x DEF TypeInv, Names, PartsInv, OpenActive
  <2>3. LoopShapes'
    <3>1. work' \in BOOLEAN
      BY <2>1
    <3> QED
      BY <1>0, <2>1, <3>1 DEF TypeInv, Shapes, LoopShapes
  <2>4. Commands'
    BY <1>0, <2>1 DEF Commands
  <2>5. ActiveNewest'
    <3>1. SUFFICES ASSUME NEW s \in Streams, active[s] # 0
                   PROVE  /\ part'[active[s]].stream = s /\ part'[active[s]].cfg = cfg
                          /\ part'[active[s]].state \in {"open", "reserved"}
                          /\ \A g \in Gens : part'[g].stream = s =>
                                g <= active[s] \/ (pc = "ensured" /\ g = Len(part))
      BY <2>1, <2>2 DEF ActiveNewest
    <3>2. active[s] \in Gens
      BY <1>0, <3>1 DEF TypeInv, Names
    <3> QED
      BY <1>0, <2>2, <2>2e, <3>1, <3>2 DEF ActiveNewest, PartsInv
  <2>6. OpenActive'
    <3>1. ASSUME NEW g \in Gens, part'[g].state = "open" PROVE active[part[g].stream] = g
      BY <1>0, <2>2, <3>1 DEF OpenActive, PartsInv
    <3>2. ASSUME NEW g \in Gens, part'[g].state = "reserved"
          PROVE  \/ pc \in {"materialized", "rotated"} /\ active[part[g].stream] = g
                 \/ pc = "ensured" /\ g = Len(part)
      BY <1>0, <2>2, <3>2 DEF OpenActive, PartsInv
    <3>3. ASSUME NEW g \in members \cup pendingHour PROVE part'[g].state \notin {"open", "reserved"}
      <4>1. g \in Gens /\ part[g].state \notin {"open", "reserved"}
        BY <1>0 DEF TypeInv, Names, OpenActive, PartsInv
      <4> QED
        BY <2>2, <4>1
    <3>4. ASSUME NEW g \in Gens, pc = "ensured", g = Len(part) PROVE part'[g].state = "reserved"
      <4>1. part[g].state = "reserved" /\ g \notin X
        BY <1>0, <2>2e, <3>4 DEF OpenActive, PartsInv
      <4> QED
        BY <2>2, <4>1
    <3> QED
      BY <2>1, <2>2, <3>1, <3>2, <3>3, <3>4 DEF OpenActive
  <2>7. HandInv'
    <3>1. KeepRows
      BY <2>1, <2>2 DEF KeepRows, InHand
    <3> QED
      BY <1>0, <2>1, <2>2, <3>1, SameHand
  <2>8. /\ \A s \in Streams : active'[s] \in Gens \cup {0}
        /\ retiring' \subseteq Gens /\ pendingHour' \subseteq Gens /\ members' \subseteq Gens
        /\ op' \in OpType /\ op'.files \subseteq Gens /\ active' \in [Streams -> Nat]
    BY <1>0, <2>1, NoOpFacts DEF TypeInv, Names, Shapes
  <2> QED
    BY <1>0, <2>1, <2>1r, <2>1s, <2>3, <2>4, <2>5, <2>6, <2>7, <2>8, RestatedStep
<1> QED
  BY <1>1, <1>2 DEF FileOpDone
-----------------------------------------------------------------------------
(* Turns of the drain and of the loop that move no row *)

\* The drain goes on to the queues.
LEMMA DeferredGoesOn ==
    ASSUME WInv, DeferredSettled, loc.size = {}
    PROVE  WInv'
<1>0. /\ pc = "deferred" /\ TypeInv /\ Running /\ At("deferred") /\ Commands /\ op = NoOp
  BY AtFacts DEF DeferredSettled
<1>1. /\ UNCHANGED <<rec, queue, stage, part, active, retiring, pendingHour, assoc, cfg, members, op>>
      /\ UNCHANGED <<work, due, cmds, cmd, life, adm, mode, nest, wakeAfter, oldest, cause,
                     submitted, closing>>
      /\ loc' = NoLocals /\ pc' = "pass"
  BY DEF DeferredSettled, ingressVars, loopVars, histVars
<1>2. LoopShapes'
  BY <1>0, <1>1 DEF TypeInv, Shapes, LoopShapes
<1>3. Commands'
  BY <1>0, <1>1 DEF Commands
<1>4. retiring' \subseteq Gens /\ op' \in OpType /\ op'.files \subseteq Gens
  BY <1>0, <1>1 DEF TypeInv, Names, Shapes
<1> QED
  BY <1>0, <1>1, <1>2, <1>3, <1>4, CalmMove DEF Making

ColdShards == {s \in Nonempty : /\ Within(Head(queue[s]), Watermark)
                                /\ active[rec[Head(queue[s])].stream] = 0}

\* A turn without heads whose stream has no part.
LEMMA PassGoesOn ==
    ASSUME WInv, Pass, ColdShards = {}
    PROVE  WInv'
<1>0. /\ pc = "pass" /\ TypeInv /\ Running /\ HandInv /\ Commands /\ op = NoOp
  BY AtFacts DEF Pass
<1>1. /\ UNCHANGED <<rec, queue, stage, part, active, retiring, pendingHour, assoc, cfg, members, op>>
      /\ UNCHANGED <<work, due, cmds, cmd, life, adm, mode, nest, wakeAfter, oldest, cause,
                     submitted, closing>>
      /\ \/ pc' = "drained" /\ loc' = loc
         \/ pc' = "sweep" /\ loc' = [loc EXCEPT !.todo = Nonempty, !.cold = FALSE, !.moved = FALSE]
  BY DEF Pass, ColdShards, ingressVars, loopVars, histVars
<1>2. LoopShapes'
  BY <1>0, <1>1 DEF TypeInv, Shapes, LoopShapes
<1>3. Commands'
  BY <1>0, <1>1 DEF Commands
<1>4. /\ loc' \in LocType /\ loc'.size = loc.size /\ loc'.pop = loc.pop
      /\ loc'.held = loc.held /\ loc'.roll = loc.roll
  <2>1. loc \in LocType /\ Nonempty \subseteq Shards
    BY <1>0 DEF TypeInv, Shapes, Nonempty
  <2>2. CASE loc' = loc
    BY <2>1, <2>2
  <2>3. CASE loc' = [loc EXCEPT !.todo = Nonempty, !.cold = FALSE, !.moved = FALSE]
    BY <2>1, <2>3 DEF LocType
  <2> QED
    BY <1>1, <2>2, <2>3
<1>5. EmptyHands
  BY <1>0, <1>1, <1>4, NoneInHand DEF EmptyHands, Making, HandInv
<1>6. loc'.size \subseteq Gens /\ loc'.pop \in Gens \cup {0}
  BY <1>0, <1>4 DEF TypeInv, Names
<1> QED
  BY <1>0, <1>1, <1>2, <1>3, <1>4, <1>5, <1>6, CalmOpStep

\* A turn ends with nothing waiting for a sync.
LEMMA PassEndsEmpty ==
    ASSUME WInv, PassEnd, loc.roll = << >>
    PROVE  WInv'
<1>0. /\ pc = "sweep" /\ TypeInv /\ Running /\ HandInv /\ Commands /\ op = NoOp
  BY AtFacts DEF PassEnd
<1>1. /\ UNCHANGED <<rec, queue, stage, part, active, retiring, pendingHour, assoc, cfg, members, op>>
      /\ UNCHANGED <<due, cmds, cmd, life, adm, mode, nest, wakeAfter, oldest, cause,
                     submitted, closing>>
      /\ loc' = NoLocals /\ work' = (work \/ (loc.cold /\ mode = "main"))
      /\ pc' \in {"yield", "pass", "drained"} /\ (pc' = "yield" => mode = "main")
  BY DEF PassEnd, ingressVars, histVars
<1>2. LoopShapes'
  <2>1. work' \in BOOLEAN
    BY <1>1
  <2> QED
    BY <1>0, <1>1, <2>1 DEF TypeInv, Shapes, LoopShapes
<1>3. Commands'
  BY <1>0, <1>1 DEF Commands
<1>4. EmptyHands
  BY <1>0, <1>1, NoLocalsFacts DEF EmptyHands, Making, HandInv, HandWhere
<1> QED
  BY <1>0, <1>1, <1>2, <1>3, <1>4, CalmOpStep, NoLocalsFacts

\* The periodic work seals nothing.
LEMMA PeriodicCalm ==
    ASSUME WInv, NEW late \in Ages, Periodic(late), ~due \/ oldest \/ (late /\ Unsettled # {})
    PROVE  WInv'
<1>0. /\ pc = "commands" /\ TypeInv /\ Running /\ At("commands") /\ Commands /\ op = NoOp
  BY AtFacts DEF Periodic
<1>1. /\ UNCHANGED <<rec, queue, stage, part, active, retiring, pendingHour, assoc, cfg, members, op, loc>>
      /\ UNCHANGED <<work, cmds, cmd, nest, wakeAfter, cause, submitted, closing>>
      /\ due' = FALSE
      /\ \/ pc' = "idle" /\ UNCHANGED <<mode, oldest, life, adm>>
         \/ pc' = "deferred" /\ mode' = "crit" /\ BeginOldest
  BY DEF Periodic, PeriodicWork, ingressVars, histVars
<1>2. LoopShapes'
  <2>1. /\ mode' \in {"main", "cmd", "crit"} /\ oldest' \in BOOLEAN /\ adm' \in {"OPEN", "CLOSED"}
        /\ life' \in {"ACCEPTING", "ROTATING", "CLOSING", "CLOSED", "CRITICAL"}
    BY <1>0, <1>1 DEF TypeInv, Shapes, LoopShapes, BeginOldest
  <2> QED
    BY <1>0, <1>1, <2>1 DEF TypeInv, Shapes, LoopShapes
<1>3. Commands'
  BY <1>0, <1>1 DEF Commands
<1>4. retiring' \subseteq Gens /\ op' \in OpType /\ op'.files \subseteq Gens
  BY <1>0, <1>1 DEF TypeInv, Names, Shapes
<1> QED
  BY <1>0, <1>1, <1>2, <1>3, <1>4, CalmMove DEF Making

\* The barrier seals nothing.
LEMMA BarrierCalm ==
    ASSUME WInv, Barrier, members = {} \/ ~DependenciesOwned
    PROVE  WInv'
<1>0. /\ pc = "discard" /\ TypeInv /\ Running /\ At("discard") /\ Commands /\ op = NoOp
  BY AtFacts DEF Barrier
<1>1. CASE Terminal("contract")
  BY <1>1, TerminalNowW
<1>2. CASE ~Terminal("contract")
  <2>1. /\ UNCHANGED <<rec, queue, stage, part, active, retiring, pendingHour, assoc, cfg, members, op, loc>>
        /\ UNCHANGED <<work, due, cmds, cmd, life, adm, mode, nest, wakeAfter, oldest, cause,
                       submitted, closing>>
        /\ pc' = "closed"
    BY <1>2 DEF Barrier, ingressVars, partVars, loopVars, histVars
  <2>2. LoopShapes'
    BY <1>0, <2>1 DEF TypeInv, Shapes, LoopShapes
  <2>3. Commands'
    BY <1>0, <2>1 DEF Commands
  <2>4. retiring' \subseteq Gens /\ op' \in OpType /\ op'.files \subseteq Gens
    BY <1>0, <2>1 DEF TypeInv, Names, Shapes
  <2> QED
    BY <1>0, <2>1, <2>2, <2>3, <2>4, CalmMove DEF Making
<1> QED
  BY <1>1, <1>2
-----------------------------------------------------------------------------
(* Steps that change the stage of rows where they are: seals and completions *)

\* Every row stays in its part, and a row that no part holds keeps its stage.
Resettled ==
    /\ rec' = rec /\ queue' = queue /\ InHand' = InHand
    /\ Gens' = Gens
    /\ \A g \in Gens : /\ Rows(g)' = Rows(g) /\ part'[g].deferred = part[g].deferred
                       /\ part'[g].stream = part[g].stream /\ part'[g].hour = part[g].hour
                       /\ part'[g].cfg = part[g].cfg
    /\ \A n \in Ords : /\ (\A g \in Gens : n \notin Rows(g)) => stage'[n] = stage[n]
                       /\ stage[n] # "buffered" => stage'[n] # "buffered"
                       /\ stage'[n] = "queued" => stage[n] = "queued"

\* A queued row is in no part.
LEMMA QueuedNowhere ==
    ASSUME TypeInv, RowsInv, NEW n \in Ords, stage[n] = "queued"
    PROVE  \A g \in Gens : n \notin Rows(g) /\ n \notin DeferredRows(g)
<1>1. SUFFICES ASSUME NEW g \in Gens PROVE n \notin Rows(g) /\ n \notin DeferredRows(g)
  OBVIOUS
<1>2. n \notin Rows(g)
  BY DEF Rows, RowsInv, RowStages
<1>3. n \notin DeferredRows(g)
  BY <1>2 DEF RowsInv, Waiting
<1> QED
  BY <1>2, <1>3

\* A change of stages in place keeps RowsInv if the stages stay true.
LEMMA ResettledInv ==
    ASSUME TypeInv, RoutedRight, RowsInv, Resettled, RowStages', SamePop, cfg' = cfg
    PROVE  RowsInv' /\ RoutedRight'
<1>1. Ords' = Ords /\ InQueues' = InQueues
  BY DEF Resettled, Ords, InQueues
<1>2. \A g \in Gens : DeferredRows(g)' = DeferredRows(g) /\ Rows(g)' = Rows(g)
  BY DEF Resettled, DeferredRows
<1>3. \A n \in Ords : stage'[n] = "queued" <=> stage[n] = "queued"
  BY QueuedNowhere DEF Resettled
<1>4. RoutedRight'
  BY <1>2 DEF RoutedRight, Resettled
<1>5. Queues'
  BY DEF Queues, RowsInv, Resettled, ShardOfRow
<1>6. QueuedWhere'
  BY <1>1, <1>3 DEF QueuedWhere, RowsInv, Resettled
<1>7. OnePart'
  BY <1>1, <1>2, <1>3 DEF OnePart, RowsInv, Resettled
<1>8. Order'
  <2>1. SUFFICES ASSUME NEW n \in Ords, NEW m \in Ords, n < m, rec[n].stream = rec[m].stream,
                        NEW h \in Gens
                 PROVE  /\ m \in Rows(h)' =>
                              \E g \in 1..h : n \in Rows(g)' \/ (g < h /\ n \in DeferredRows(g)')
                        /\ m \in DeferredRows(h)' => n \notin InQueues' \cup InHand'
    BY <1>1 DEF Order, Resettled
  <2>2. m \in Rows(h) => \E g \in 1..h : n \in Rows(g) \/ (g < h /\ n \in DeferredRows(g))
    BY <2>1 DEF Order, RowsInv
  <2>3. 1..h \subseteq Gens
    BY PartFacts
  <2>4. m \in DeferredRows(h) => n \notin InQueues \cup InHand
    BY <2>1 DEF Order, RowsInv
  <2> QED
    BY <1>1, <1>2, <2>2, <2>3, <2>4 DEF Resettled
<1>9. Waiting'
  <2>1. ASSUME NEW g \in Gens, NEW n \in DeferredRows(g)
        PROVE  \/ stage'[n] = "buffered" /\ \A h \in Gens : n \notin Rows(h)'
               \/ Popping(g, n)' /\ n \in Rows(g)' /\ stage'[n] # "buffered"
    <3>1. n \in Ords
      BY PartFacts
    <3>2. CASE stage[n] = "buffered" /\ \A h \in Gens : n \notin Rows(h)
      BY <1>2, <3>1, <3>2 DEF Resettled
    <3>3. CASE Popping(g, n) /\ n \in Rows(g) /\ stage[n] # "buffered"
      BY <1>2, <3>1, <3>3 DEF Resettled, Popping, SamePop
    <3> QED
      BY <3>2, <3>3 DEF RowsInv, Waiting
  <2>2. ASSUME pc' = "pop"
        PROVE  /\ loc'.pop # 0 /\ part'[loc'.pop].deferred # << >>
               /\ part'[loc'.pop].deferred[1] \in Rows(loc.pop)'
    <3>1. /\ loc'.pop = loc.pop /\ loc.pop # 0 /\ part[loc.pop].deferred # << >> /\ loc.pop \in Gens
          /\ part[loc.pop].deferred[1] \in Rows(loc.pop)
      BY <2>2 DEF SamePop, RowsInv, Waiting, TypeInv, Names
    <3>2. part'[loc.pop].deferred = part[loc.pop].deferred
      BY <3>1 DEF Resettled
    <3>3. Rows(loc.pop)' = Rows(loc.pop)
      <4>1. part'[loc.pop].buf = part'[loc'.pop].buf
        BY <3>1
      <4> QED
        BY <3>1 DEF Resettled, Rows
    <3> QED
      BY <3>1, <3>2, <3>3
  <2>3. \A g \in Gens : Increasing(part'[g].deferred)
    BY DEF Resettled, RowsInv, Waiting
  <2>4. \A g, h \in Gens : \A n \in DeferredRows(g) : n \in DeferredRows(h) => g = h
    BY DEF RowsInv, Waiting
  <2>5. Gens' = Gens
    BY DEF Resettled
  <2> QED
    BY <1>2, <2>1, <2>2, <2>3, <2>4, <2>5 DEF Waiting
<1> QED
  BY <1>4, <1>5, <1>6, <1>7, <1>8, <1>9 DEF RowsInv

\* The parts stay as active, open or retired as they were.
LEMMA SameParts ==
    ASSUME ActiveNewest, OpenActive, active' = active, cfg' = cfg, Names,
           Gens' = Gens, Len(part') = Len(part),
           \A g \in Gens : /\ part'[g].stream = part[g].stream /\ part'[g].cfg = part[g].cfg
                           /\ part'[g].state = part[g].state,
           members' \cup pendingHour' \subseteq members \cup pendingHour,
           pc' = pc \/ (pc \notin Making /\ pc' \notin Making)
    PROVE  ActiveNewest' /\ OpenActive'
<1>1. ActiveNewest'
  <2>1. SUFFICES ASSUME NEW s \in Streams, active[s] # 0
                 PROVE  /\ part'[active[s]].stream = s /\ part'[active[s]].cfg = cfg
                        /\ part'[active[s]].state \in {"open", "reserved"}
                        /\ \A g \in Gens : part'[g].stream = s =>
                              g <= active[s] \/ (pc' = "ensured" /\ g = Len(part))
    BY DEF ActiveNewest
  <2>2. active[s] \in Gens
    BY <2>1 DEF Names
  <2> QED
    BY <2>1, <2>2 DEF ActiveNewest, Making
<1>2. OpenActive'
  <2>1. \A g \in Gens : part'[g].state = "open" => active[part'[g].stream] = g
    BY DEF OpenActive
  <2>2. \A g \in Gens : part'[g].state = "reserved" =>
          \/ pc' \in {"materialized", "rotated"} /\ active[part'[g].stream] = g
          \/ pc' = "ensured" /\ g = Len(part)
    BY DEF OpenActive, Making
  <2>3. \A g \in members' \cup pendingHour' : part'[g].state \notin {"open", "reserved"}
    BY DEF OpenActive, Names
  <2>4. \A g \in Gens : pc' = "ensured" /\ g = Len(part) => part'[g].state = "reserved"
    BY DEF OpenActive, Making
  <2> QED
    BY <2>1, <2>2, <2>3, <2>4 DEF OpenActive
<1> QED
  BY <1>1, <1>2

\* HandInv survives when the parts keep their identity and their buffers.
LEMMA SameHandParts ==
    ASSUME TypeInv, HandInv, rec' = rec, queue' = queue, active' = active, cfg' = cfg,
           Len(part') = Len(part), loc' = loc, pc' = pc,
           \A g \in Gens : /\ part'[g].stream = part[g].stream /\ part'[g].hour = part[g].hour
                           /\ part'[g].cfg = part[g].cfg /\ part'[g].buf = part[g].buf
    PROVE  HandInv'
<1>1. InHand' = InHand
  BY DEF InHand
<1>2. HandWhere'
  BY DEF HandWhere, HandInv
<1>3. HandOnce'
  BY <1>1 DEF HandOnce, HandInv, ShardOfRow
<1>4. HandFirst'
  BY <1>1 DEF HandFirst, HandInv, ShardOfRow
<1>5. \A n \in InHand : /\ PartOf(n)' = PartOf(n) /\ PartOf(n) # 0
                        /\ part'[PartOf(n)].hour = part[PartOf(n)].hour
                        /\ part'[PartOf(n)].buf = part[PartOf(n)].buf
  BY PartOfHand DEF HandInv, HandPart, PartOf
<1>6. \A n \in ToSet(loc.held) \cup ToSet(loc.roll) : n \in InHand
  BY DEF InHand
<1>7. ASSUME pc = "ensured"
      PROVE  /\ loc.from = "sweep" /\ Len(loc.held) = 1 /\ Len(part) > 0
             /\ part'[Len(part)].stream = rec[loc.held[1]].stream
             /\ part'[Len(part)].hour = rec[loc.held[1]].hour
             /\ part'[Len(part)].cfg = cfg /\ PartOf(loc.held[1])' # Len(part)
  <2>1. Len(part) \in Gens
    BY <1>7 DEF HandInv, HandPart, TypeInv, Shapes, Gens
  <2>2. PartOf(loc.held[1])' = PartOf(loc.held[1])
    BY DEF PartOf
  <2> QED
    BY <1>7, <2>1, <2>2 DEF HandInv, HandPart
<1>8. HandPart'
  BY <1>1, <1>5, <1>6, <1>7 DEF HandPart, HandInv
<1> QED
  BY <1>2, <1>3, <1>4, <1>8 DEF HandInv

\* Typing after a change of stages in place.
LEMMA ResettledTypes ==
    ASSUME TypeInv, Resettled, part' \in Seq(PartType), stage' \in [Ords -> Stages],
           \A g \in Gens : part'[g].folded \subseteq Ords,
           active' = active, retiring' \subseteq Gens, pendingHour' \subseteq Gens,
           members' \subseteq Gens, assoc' \subseteq Ords,
           op' \in OpType, op'.files \subseteq Gens,
           loc' \in LocType, loc'.size \subseteq Gens, loc'.pop \in Gens \cup {0}, LoopShapes'
    PROVE  TypeInv'
<1>1. Ords' = Ords /\ Gens' = Gens /\ rec' = rec /\ queue' = queue /\ InHand' = InHand
  BY DEF Resettled, Ords
<1>2. Shapes'
  BY <1>1 DEF TypeInv, Shapes
<1>3. \A g \in Gens : Rows(g)' \cup DeferredRows(g)' \cup part'[g].folded \subseteq Ords
  <2>1. \A g \in Gens : Rows(g)' = Rows(g) /\ DeferredRows(g)' = DeferredRows(g)
    BY DEF Resettled, DeferredRows
  <2> QED
    BY <2>1 DEF TypeInv, Names
<1>4. Names'
  BY <1>1, <1>3 DEF TypeInv, Names
<1> QED
  BY <1>2, <1>4 DEF TypeInv
-----------------------------------------------------------------------------
(* Seals *)

Sealed(G) == part' = Seal(G) /\ stage' = StageSealed(G)

\* Nothing is in flight before a seal; after it the buffered rows of G are.
LEMMA SealFacts ==
    ASSUME TypeInv, NEW G, G \subseteq Gens, Sealed(G), \A g \in Gens : part[g].claimed = {}
    PROVE  /\ Gens' = Gens /\ Len(part') = Len(part) /\ part' \in Seq(PartType)
           /\ \A g \in Gens :
                /\ part'[g].stream = part[g].stream /\ part'[g].hour = part[g].hour
                /\ part'[g].cfg = part[g].cfg /\ part'[g].state = part[g].state
                /\ part'[g].done = part[g].done /\ part'[g].deferred = part[g].deferred
                /\ part'[g].folded = part[g].folded
                /\ part'[g].claimed = (IF g \in G THEN ToSet(part[g].buf) ELSE {})
                /\ part'[g].buf = (IF g \in G THEN << >> ELSE part[g].buf)
                /\ Rows(g)' = Rows(g)
           /\ stage' \in [Ords -> Stages]
           /\ \A n \in Ords : stage'[n] = IF \E g \in G : n \in ToSet(part[g].buf) THEN "inflight"
                                                                                   ELSE stage[n]
<1>1. Gens = 1..Len(part) /\ Len(part) \in Nat /\ \A g \in Gens : part[g] \in PartType
  BY PartFacts
<1>2. Gens' = Gens
  BY DEF Gens, Sealed, Seal
<1>3. ASSUME NEW g \in Gens
      PROVE  /\ part'[g] \in PartType
             /\ part'[g].stream = part[g].stream /\ part'[g].hour = part[g].hour
             /\ part'[g].cfg = part[g].cfg /\ part'[g].state = part[g].state
             /\ part'[g].done = part[g].done /\ part'[g].deferred = part[g].deferred
             /\ part'[g].folded = part[g].folded
             /\ part'[g].claimed = (IF g \in G THEN ToSet(part[g].buf) ELSE {})
             /\ part'[g].buf = (IF g \in G THEN << >> ELSE part[g].buf)
  <2>1. part[g] \in PartType
    BY <1>1
  <2>2. CASE g \in G
    <3>1. part'[g] = [part[g] EXCEPT !.claimed = ToSet(part[g].buf), !.buf = << >>]
      BY <2>2 DEF Sealed, Seal
    <3>2. ToSet(part[g].buf) \subseteq Nat /\ << >> \in Seq(Nat)
      <4>1. part[g].buf \in Seq(Nat)
        BY PartFacts
      <4> QED
        BY <4>1, ToSetFacts
    <3> QED
      BY <2>1, <2>2, <3>1, <3>2 DEF PartType
  <2>3. CASE g \notin G
    <3>1. part'[g] = part[g] /\ part[g].claimed = {}
      BY <2>3 DEF Sealed, Seal
    <3> QED
      BY <2>1, <2>3, <3>1
  <2> QED
    BY <2>2, <2>3
<1>4. part' \in [1..Len(part) -> PartType]
  BY <1>1, <1>3 DEF Sealed, Seal
<1>5. part' \in Seq(PartType) /\ Len(part') = Len(part)
  BY <1>1, <1>4
<1>6. ASSUME NEW g \in Gens PROVE Rows(g)' = Rows(g)
  <2>1. part[g].claimed = {}
    OBVIOUS
  <2> QED
    BY <1>3, <2>1, ToSetEmpty DEF Rows
<1>7. \A n \in Ords : stage'[n] = IF \E g \in G : n \in ToSet(part[g].buf) THEN "inflight"
                                                                            ELSE stage[n]
  BY DEF Sealed, StageSealed
<1>8. stage' \in [Ords -> Stages]
  <2>1. \A n \in Ords : stage[n] \in Stages
    BY DEF TypeInv, Shapes
  <2> QED
    BY <2>1 DEF Sealed, StageSealed, Stages
<1> QED
  BY <1>2, <1>3, <1>5, <1>6, <1>7, <1>8

\* Sealing any parts into a batch that is then in flight keeps the invariant.
LEMMA SealedStep ==
    ASSUME WInv, NEW p, At(p), p \notin Making \cup {"pop", "stopped"},
           pc' \notin Making \cup {"pop", "stopped"},
           NEW G, G \subseteq Gens, Sealed(G),
           UNCHANGED <<rec, queue, active, pendingHour, members, assoc, cfg>>,
           InHand' = InHand, retiring' \subseteq Gens,
           op' \in OpType, op'.kind \in {"sync", "close"}, op'.files = G,
           loc' \in LocType, loc'.size \subseteq Gens, loc'.pop \in Gens \cup {0},
           LoopShapes', Commands', HandInv'
    PROVE  WInv'
<1>0. /\ pc = p /\ TypeInv /\ RoutedRight /\ Running /\ PartsInv /\ RowsInv
      /\ \A g \in Gens : part[g].claimed = {}
  BY AtFacts
<1>1. /\ Gens' = Gens /\ Len(part') = Len(part) /\ part' \in Seq(PartType)
      /\ \A g \in Gens :
           /\ part'[g].stream = part[g].stream /\ part'[g].hour = part[g].hour
           /\ part'[g].cfg = part[g].cfg /\ part'[g].state = part[g].state
           /\ part'[g].done = part[g].done /\ part'[g].deferred = part[g].deferred
           /\ part'[g].folded = part[g].folded
           /\ part'[g].claimed = (IF g \in G THEN ToSet(part[g].buf) ELSE {})
           /\ part'[g].buf = (IF g \in G THEN << >> ELSE part[g].buf)
           /\ Rows(g)' = Rows(g)
      /\ stage' \in [Ords -> Stages]
      /\ \A n \in Ords : stage'[n] = IF \E g \in G : n \in ToSet(part[g].buf) THEN "inflight"
                                                                              ELSE stage[n]
  BY <1>0, SealFacts
<1>2. Resettled
  <2>1. ASSUME NEW n \in Ords
        PROVE  /\ (\A g \in Gens : n \notin Rows(g)) => stage'[n] = stage[n]
               /\ stage[n] # "buffered" => stage'[n] # "buffered"
               /\ stage'[n] = "queued" => stage[n] = "queued"
    BY <1>1 DEF Rows
  <2> QED
    BY <1>1, <2>1 DEF Resettled
<1>3. RowStages'
  <2>1. SUFFICES ASSUME NEW g \in Gens
                 PROVE  /\ \A n \in ToSet(part'[g].buf) : stage'[n] = "buffered"
                        /\ \A n \in part'[g].claimed : stage'[n] \in {"inflight", "durable", "uncertain"}
                        /\ \A n \in part'[g].done : stage'[n] = "durable"
                        /\ part'[g].claimed \cap part'[g].done = {}
    BY <1>1 DEF RowStages
  <2>2. /\ \A n \in ToSet(part[g].buf) : stage[n] = "buffered" /\ n \in Ords
        /\ \A n \in part[g].done : stage[n] = "durable" /\ n \in Ords
    BY <1>0, PartFacts DEF RowsInv, RowStages
  <2>3. \A h \in Gens : \A n \in ToSet(part[h].buf) : stage[n] = "buffered"
    BY <1>0 DEF RowsInv, RowStages
  <2>4. ASSUME NEW n \in part[g].done PROVE stage'[n] = "durable"
    <3>1. n \in Ords /\ stage[n] = "durable"
      BY <2>2
    <3>2. \A h \in G : n \notin ToSet(part[h].buf)
      BY <2>3, <3>1
    <3> QED
      BY <1>1, <3>1, <3>2
  <2>5. CASE g \in G
    <3>1. part'[g].claimed = ToSet(part[g].buf) /\ part'[g].buf = << >> /\ part'[g].done = part[g].done
      BY <1>1, <2>5
    <3>2. \A n \in ToSet(part[g].buf) : stage'[n] = "inflight"
      BY <1>1, <2>2, <2>5
    <3> QED
      BY <2>2, <2>4, <3>1, <3>2, ToSetEmpty
  <2>6. CASE g \notin G
    <3>1. part'[g].claimed = {} /\ part'[g].buf = part[g].buf /\ part'[g].done = part[g].done
      BY <1>1, <2>6
    <3>2. ASSUME NEW n \in ToSet(part[g].buf) PROVE stage'[n] = "buffered"
      <4>1. ASSUME NEW h \in G, n \in ToSet(part[h].buf) PROVE FALSE
        <5>1. n \in Rows(h) /\ n \in Rows(g)
          BY <4>1 DEF Rows
        <5> QED
          BY <1>0, <2>6, <5>1 DEF RowsInv, OnePart
      <4> QED
        BY <1>1, <2>2, <4>1
    <3> QED
      BY <2>4, <3>1, <3>2
  <2> QED
    BY <2>5, <2>6
<1>4. RowsInv' /\ RoutedRight'
  BY <1>0, <1>2, <1>3, ResettledInv DEF SamePop
<1>5. ActiveNewest' /\ OpenActive'
  BY <1>0, <1>1, SameParts DEF PartsInv, TypeInv
<1>6. Claims'
  <2>1. \A g \in Gens : part'[g].claimed # {} => g \in G
    BY <1>1
  <2> QED
    BY <1>1, <2>1 DEF Claims
<1>7. TypeInv'
  <2>1. \A g \in Gens : part'[g].folded \subseteq Ords
    BY <1>0, <1>1 DEF TypeInv, Names
  <2> QED
    BY <1>0, <1>1, <1>2, <2>1, ResettledTypes DEF TypeInv, Names
<1> QED
  BY <1>4, <1>5, <1>6, <1>7 DEF WInv, Running, PartsInv

\* Sealing no part changes nothing.
LEMMA SealNothing ==
    ASSUME TypeInv, Sealed({})
    PROVE  part' = part /\ stage' = stage
<1>1. Gens = 1..Len(part) /\ Len(part) \in Nat /\ part \in Seq(PartType) /\ stage \in [Ords -> Stages]
  BY PartFacts DEF TypeInv, Shapes
<1>2. part' = [g \in Gens |-> part[g]] /\ stage' = [n \in Ords |-> stage[n]]
  BY DEF Sealed, Seal, StageSealed
<1> QED
  BY <1>1, <1>2 DEF Gens

\* The operation that syncs a set of parts.
LEMMA SyncOpFacts ==
    ASSUME NEW G \in SUBSET Nat
    PROVE  SyncOp(G) \in OpType /\ SyncOp(G).kind = "sync" /\ SyncOp(G).files = G
BY DEF SyncOp, OpType

\* Parts are numbered.
LEMMA GensNat ==
    ASSUME TypeInv, NEW G, G \subseteq Gens
    PROVE  G \in SUBSET Nat
BY PartFacts

\* The parts that have rows to sync are parts.
LEMMA DirtyGens == DirtyActive \subseteq Gens
BY DEF DirtyActive, ActiveParts

\* Full parts are sealed so that their deferred rows can follow.
LEMMA DeferredSealed ==
    ASSUME WInv, DeferredSettled, loc.size # {}
    PROVE  WInv'
<1>0. /\ pc = "deferred" /\ TypeInv /\ Running /\ At("deferred") /\ Commands /\ HandInv
  BY AtFacts DEF DeferredSettled
<1>1. /\ UNCHANGED <<rec, queue, active, retiring, pendingHour, assoc, cfg, members>>
      /\ UNCHANGED <<work, due, cmds, cmd, life, adm, mode, nest, wakeAfter, oldest, cause,
                     submitted, closing>>
      /\ Sealed(loc.size) /\ op' = SyncOp(loc.size) /\ loc' = NoLocals /\ pc' = "deferred"
  BY DEF DeferredSettled, Sealed, ingressVars, loopVars, histVars
<1>2. LoopShapes'
  BY <1>0, <1>1 DEF TypeInv, Shapes, LoopShapes
<1>3. Commands'
  BY <1>0, <1>1 DEF Commands
<1>4. loc.held = << >> /\ loc.roll = << >>
  BY <1>0, NoneInHand DEF HandInv
<1>5. HandInv' /\ InHand' = InHand
  BY <1>1, <1>4, EmptyHand, NoLocalsFacts DEF InHand
<1>6. loc.size \subseteq Gens /\ retiring' \subseteq Gens
  BY <1>0, <1>1 DEF TypeInv, Names
<1>7. op' \in OpType /\ op'.kind = "sync" /\ op'.files = loc.size
  BY <1>0, <1>1, <1>6, SyncOpFacts, GensNat
<1> QED
  BY <1>0, <1>1, <1>2, <1>3, <1>5, <1>6, <1>7, SealedStep, NoLocalsFacts DEF Making

\* The end of a look at the deferred rows.
LEMMA DeferredSettledW == ASSUME WInv, DeferredSettled PROVE WInv'
BY DeferredSealed, DeferredGoesOn

\* The critical drain seals or ends.
LEMMA CritSyncW == ASSUME WInv, CritSync PROVE WInv'
<1>0. /\ pc = "critSync" /\ TypeInv /\ Running /\ At("critSync") /\ Commands /\ HandInv
  BY AtFacts DEF CritSync
<1>1. CASE Terminal("oldest")
  BY <1>1, TerminalNowW
<1>2. CASE ~Terminal("oldest")
  <2>1. /\ UNCHANGED <<rec, queue, active, retiring, pendingHour, assoc, cfg, members, loc, pc>>
        /\ UNCHANGED <<work, due, cmds, cmd, life, adm, mode, nest, wakeAfter, oldest, cause,
                       submitted, closing>>
        /\ Sealed(DirtyActive) /\ op' = SyncOp(DirtyActive)
    BY <1>2 DEF CritSync, Sealed, ingressVars, loopVars, histVars
  <2>2. LoopShapes'
    BY <1>0, <2>1 DEF TypeInv, Shapes, LoopShapes
  <2>3. Commands'
    BY <1>0, <2>1 DEF Commands
  <2>4. HandInv' /\ InHand' = InHand
    BY <1>0, <2>1, NoneInHand, EmptyHand DEF HandInv, InHand
  <2>5. op' \in OpType /\ op'.kind = "sync" /\ op'.files = DirtyActive
    BY <1>0, <2>1, DirtyGens, SyncOpFacts, GensNat
  <2>6. /\ retiring' \subseteq Gens /\ loc' \in LocType /\ loc'.size \subseteq Gens
        /\ loc'.pop \in Gens \cup {0}
    BY <1>0, <2>1 DEF TypeInv, Names, Shapes
  <2> QED
    BY <1>0, <2>1, <2>2, <2>3, <2>4, <2>5, <2>6, DirtyGens, SealedStep DEF Making
<1> QED
  BY <1>1, <1>2

\* _sync_parts before a rotation, with or without parts to sync.
LEMMA SyncThenRotate ==
    ASSUME WInv, NEW p \in {"commands", "exec"}, At(p), pc' = "rotate",
           NEW G, G \subseteq Gens, Sealed(G), op' = (IF G = {} THEN NoOp ELSE SyncOp(G)),
           UNCHANGED <<rec, queue, active, retiring, pendingHour, assoc, cfg, members, loc>>,
           LoopShapes', Commands'
    PROVE  WInv'
<1>0. pc = p /\ TypeInv /\ Running /\ Commands /\ HandInv /\ op = NoOp
  BY AtFacts
<1>1. HandInv' /\ InHand' = InHand
  BY <1>0, NoneInHand, EmptyHand DEF HandInv, InHand
<1>2. /\ retiring' \subseteq Gens /\ loc' \in LocType /\ loc'.size \subseteq Gens
      /\ loc'.pop \in Gens \cup {0}
  BY <1>0 DEF TypeInv, Names, Shapes
<1>3. CASE G = {}
  <2>1. part' = part /\ stage' = stage
    BY <1>0, <1>3, SealNothing
  <2>2. op' \in OpType /\ op'.files = {}
    BY <1>3, NoOpFacts
  <2> QED
    BY <1>2, <2>1, <2>2, CalmMove DEF Making
<1>4. CASE G # {}
  <2>1. op' \in OpType /\ op'.kind = "sync" /\ op'.files = G
    BY <1>0, <1>4, SyncOpFacts, GensNat
  <2> QED
    BY <1>1, <1>2, <2>1, SealedStep DEF Making
<1> QED
  BY <1>3, <1>4

\* The periodic work.
LEMMA PeriodicW == ASSUME WInv, NEW late \in Ages, Periodic(late) PROVE WInv'
<1>0. /\ pc = "commands" /\ TypeInv /\ Running /\ At("commands") /\ Commands
  BY AtFacts DEF Periodic
<1>1. CASE due /\ ~(oldest \/ (late /\ Unsettled # {}))
  <2>1. /\ UNCHANGED <<rec, queue, active, retiring, pendingHour, assoc, cfg, members, loc>>
        /\ UNCHANGED <<work, cmds, cmd, life, adm, mode, nest, wakeAfter, oldest, cause,
                       submitted, closing>>
        /\ due' = FALSE /\ pc' = "rotate" /\ Sealed(DirtyActive)
        /\ op' = (IF DirtyActive = {} THEN NoOp ELSE SyncOp(DirtyActive))
    <3>1. /\ UNCHANGED <<rec, queue, active, retiring, pendingHour, assoc, cfg, members, loc>>
          /\ UNCHANGED <<work, cmds, cmd, nest, wakeAfter, cause, submitted, closing>>
          /\ due' = FALSE
      BY DEF Periodic, PeriodicWork, ingressVars, histVars
    <3>2. /\ part' = Seal(DirtyActive) /\ stage' = StageSealed(DirtyActive)
          /\ op' = (IF DirtyActive = {} THEN NoOp ELSE SyncOp(DirtyActive))
          /\ pc' = "rotate" /\ UNCHANGED <<mode, oldest, life, adm>>
      BY <1>1, Zenon DEF Periodic, PeriodicWork
    <3> QED
      BY <3>1, <3>2 DEF Sealed
  <2>2. LoopShapes'
    BY <1>0, <2>1 DEF TypeInv, Shapes, LoopShapes
  <2>3. Commands'
    BY <1>0, <2>1, NoOpFacts DEF Commands
  <2> QED
    BY <1>0, <2>1, <2>2, <2>3, DirtyGens, SyncThenRotate
<1>2. CASE ~due \/ oldest \/ (late /\ Unsettled # {})
  BY <1>2, PeriodicCalm
<1> QED
  BY <1>1, <1>2

\* The sync and rotate_due commands.
LEMMA ExecSyncW == ASSUME WInv, ExecSync PROVE WInv'
<1>0. /\ pc = "exec" /\ TypeInv /\ Running /\ At("exec") /\ Commands
      /\ cmd.kind \in {"sync", "rotate_due"}
  BY AtFacts DEF ExecSync
<1> DEFINE G == IF cmd.kind = "sync" THEN DirtyActive ELSE {}
<1>1. /\ UNCHANGED <<rec, queue, active, retiring, pendingHour, assoc, cfg, members, loc>>
      /\ UNCHANGED <<work, due, cmds, cmd, life, adm, mode, nest, wakeAfter, oldest, cause,
                     submitted, closing>>
      /\ pc' = "rotate" /\ Sealed(G) /\ op' = (IF G = {} THEN NoOp ELSE SyncOp(G))
  BY DEF ExecSync, Sealed, ingressVars, loopVars, histVars
<1>2. LoopShapes'
  BY <1>0, <1>1 DEF TypeInv, Shapes, LoopShapes
<1>3. Commands'
  BY <1>0, <1>1 DEF Commands
<1>4. G \subseteq Gens
  BY DirtyGens
<1> HIDE DEF G
<1> QED
  BY <1>0, <1>1, <1>2, <1>3, <1>4, SyncThenRotate

\* The final barrier seals the members and the holders of their controls.
LEMMA BarrierW == ASSUME WInv, Barrier PROVE WInv'
<1>0. /\ pc = "discard" /\ TypeInv /\ Running /\ At("discard") /\ Commands /\ HandInv
  BY AtFacts DEF Barrier
<1>1. CASE members # {} /\ DependenciesOwned
  <2> DEFINE G == members \cup UNION {HoldersOf(n) : n \in Dependencies}
  <2>1. /\ UNCHANGED <<rec, queue, active, pendingHour, assoc, cfg, members, loc>>
        /\ UNCHANGED <<work, due, cmds, cmd, life, adm, mode, nest, wakeAfter, oldest, cause,
                       submitted, closing>>
        /\ retiring' = retiring \cup members /\ pc' = "closed" /\ Sealed(G)
        /\ op' = [kind |-> "close", files |-> G, pumped |-> TRUE, failed |-> "no"]
    BY <1>1 DEF Barrier, Sealed, ingressVars, loopVars, histVars
  <2>2. LoopShapes'
    BY <1>0, <2>1 DEF TypeInv, Shapes, LoopShapes
  <2>3. Commands'
    BY <1>0, <2>1 DEF Commands
  <2>4. HandInv' /\ InHand' = InHand
    BY <1>0, <2>1, NoneInHand, EmptyHand DEF HandInv, InHand
  <2>5. G \subseteq Gens
    BY <1>0 DEF HoldersOf, Closable, ActiveParts, TypeInv, Names
  <2> HIDE DEF G
  <2>6. op' \in OpType /\ op'.kind = "close" /\ op'.files = G
    <3>1. G \in SUBSET Nat
      BY <1>0, <2>5, GensNat
    <3> QED
      BY <2>1, <3>1 DEF OpType
  <2>7. /\ retiring' \subseteq Gens /\ loc' \in LocType /\ loc'.size \subseteq Gens
        /\ loc'.pop \in Gens \cup {0}
    BY <1>0, <2>1 DEF TypeInv, Names, Shapes
  <2> QED
    BY <1>0, <2>1, <2>2, <2>3, <2>4, <2>5, <2>6, <2>7, SealedStep DEF Making
<1>2. CASE members = {} \/ ~DependenciesOwned
  BY <1>2, BarrierCalm
<1> QED
  BY <1>1, <1>2

\* The end of a turn.
LEMMA PassEndW == ASSUME WInv, PassEnd PROVE WInv'
<1>0. /\ pc = "sweep" /\ TypeInv /\ Running /\ At("sweep") /\ Commands /\ HandInv /\ loc.todo = {}
      /\ \A g \in Gens : part[g].claimed = {}
  BY AtFacts DEF PassEnd
<1>1. CASE loc.roll # << >>
  <2> DEFINE G == {active[rec[n].stream] : n \in ToSet(loc.roll)}
  <2>1. /\ UNCHANGED <<rec, queue, active, retiring, pendingHour, assoc, cfg, members>>
        /\ UNCHANGED <<work, due, cmds, cmd, life, adm, mode, nest, wakeAfter, oldest, cause,
                       submitted, closing>>
        /\ pc' = "place" /\ Sealed(G) /\ op' = SyncOp(G)
        /\ loc' = [loc EXCEPT !.held = loc.roll, !.roll = << >>, !.from = "roll"]
    BY <1>1 DEF PassEnd, Sealed, ingressVars, histVars
  <2>2. LoopShapes'
    BY <1>0, <2>1 DEF TypeInv, Shapes, LoopShapes
  <2>3. Commands'
    BY <1>0, <2>1 DEF Commands
  <2>4. /\ loc' \in LocType /\ loc'.held = loc.roll /\ loc'.roll = << >> /\ loc'.from = "roll"
        /\ loc'.size = loc.size /\ loc'.pop = loc.pop /\ loc'.todo = loc.todo /\ loc'.busy = loc.busy
    <3>1. loc \in LocType /\ << >> \in Seq(Nat)
      BY <1>0 DEF TypeInv, Shapes
    <3> QED
      BY <2>1, <3>1 DEF LocType
  <2>5. loc.held = << >>
    BY <1>0 DEF HandInv, HandWhere
  <2>6. InHand' = InHand /\ ToSet(loc'.held) = InHand /\ ToSet(loc'.roll) = {} /\ ToSet(loc.roll) = InHand
    BY <2>4, <2>5, ToSetEmpty DEF InHand
  <2>7. G \subseteq Gens
    <3>1. \A n \in InHand : active[rec[n].stream] \in Gens
      BY <1>0, PartOfHand DEF HandInv, PartOf
    <3> QED
      BY <2>6, <3>1
  <2> HIDE DEF G
  <2>8. \A g \in Gens : part'[g].hour = part[g].hour
    BY <1>0, <2>1, <2>7, SealFacts
  <2>9. HandInv'
    <3>1. HandWhere'
      BY <2>1, <2>4 DEF HandWhere
    <3>2. HandOnce'
      BY <1>0, <2>1, <2>4, <2>6, NoRows DEF HandOnce, HandInv, ShardOfRow
    <3>3. HandFirst'
      BY <1>0, <2>1, <2>4, <2>6 DEF HandFirst, HandInv, ShardOfRow
    <3>4. \A n \in InHand : PartOf(n)' = PartOf(n) /\ PartOf(n) # 0 /\ PartOf(n) \in Gens
                            /\ part[PartOf(n)].hour = rec[n].hour
      BY <1>0, <2>1, <2>6, PartOfHand DEF HandInv, HandPart, PartOf
    <3>5. HandPart'
      BY <2>1, <2>4, <2>6, <2>8, <3>4 DEF HandPart
    <3> QED
      BY <3>1, <3>2, <3>3, <3>5 DEF HandInv
  <2>10. op' \in OpType /\ op'.kind = "sync" /\ op'.files = G
    BY <1>0, <2>1, <2>7, SyncOpFacts, GensNat
  <2>11. retiring' \subseteq Gens /\ loc'.size \subseteq Gens /\ loc'.pop \in Gens \cup {0}
    BY <1>0, <2>1, <2>4 DEF TypeInv, Names
  <2> QED
    BY <1>0, <2>1, <2>2, <2>3, <2>4, <2>6, <2>7, <2>9, <2>10, <2>11, SealedStep DEF Making
<1>2. CASE loc.roll = << >>
  BY <1>2, PassEndsEmpty
<1> QED
  BY <1>1, <1>2
-----------------------------------------------------------------------------
(* Completions *)

CompletedBy(g, F) == part' = Completed(g, F)

\* What apply_completion changes.
LEMMA CompletedFacts ==
    ASSUME TypeInv, NEW g \in Gens, NEW F, F \subseteq Ords, CompletedBy(g, F)
    PROVE  /\ Gens' = Gens /\ Len(part') = Len(part) /\ part' \in Seq(PartType)
           /\ \A h \in Gens :
                /\ part'[h].stream = part[h].stream /\ part'[h].hour = part[h].hour
                /\ part'[h].cfg = part[h].cfg /\ part'[h].state = part[h].state
                /\ part'[h].buf = part[h].buf /\ part'[h].deferred = part[h].deferred
                /\ part'[h].folded \subseteq Ords
                /\ part'[h].claimed = (IF h = g THEN {} ELSE part[h].claimed)
                /\ part'[h].done = (IF h = g THEN part[h].done \cup part[h].claimed ELSE part[h].done)
                /\ Rows(h)' = Rows(h)
<1>1. Gens = 1..Len(part) /\ Len(part) \in Nat /\ \A h \in Gens : part[h] \in PartType
  BY PartFacts
<1>2. Gens' = Gens
  BY DEF Gens, CompletedBy, Completed
<1>3. ASSUME NEW h \in Gens
      PROVE  /\ part'[h] \in PartType
             /\ part'[h].stream = part[h].stream /\ part'[h].hour = part[h].hour
             /\ part'[h].cfg = part[h].cfg /\ part'[h].state = part[h].state
             /\ part'[h].buf = part[h].buf /\ part'[h].deferred = part[h].deferred
             /\ part'[h].folded \subseteq Ords
             /\ part'[h].claimed = (IF h = g THEN {} ELSE part[h].claimed)
             /\ part'[h].done = (IF h = g THEN part[h].done \cup part[h].claimed ELSE part[h].done)
  <2> DEFINE K == {n \in F : h \in rec[n].targets}
  <2>1. /\ part[h] \in PartType /\ part[h].done \subseteq Nat /\ part[h].claimed \subseteq Nat
        /\ part[h].folded \subseteq Ords /\ part[h].folded \subseteq Nat
    BY PartFacts DEF TypeInv, Names
  <2>2. K \subseteq Ords /\ K \subseteq Nat
    BY RecFacts
  <2>3. part'[h] = [part[h] EXCEPT !.done = (IF h = g THEN part[h].done \cup part[g].claimed ELSE part[h].done),
                                   !.claimed = (IF h = g THEN {} ELSE part[h].claimed),
                                   !.folded = part[h].folded \cup K]
    BY DEF CompletedBy, Completed
  <2> HIDE DEF K
  <2>4. CASE h = g
    <3>1. part'[h] = [part[h] EXCEPT !.done = part[h].done \cup part[h].claimed,
                                     !.claimed = {}, !.folded = part[h].folded \cup K]
      BY <2>3, <2>4
    <3>d. PICK d \in SUBSET Nat : d = part[h].done \cup part[h].claimed
      BY <2>1
    <3>k. PICK k \in SUBSET Nat : k = part[h].folded \cup K
      BY <2>1, <2>2
    <3>2. /\ d = part[h].done \cup part[h].claimed /\ k = part[h].folded \cup K
          /\ d \in SUBSET Nat /\ k \in SUBSET Nat /\ k \subseteq Ords
      BY <2>1, <2>2, <3>d, <3>k
    <3>3. part'[h] = [part[h] EXCEPT !.done = d, !.claimed = {}, !.folded = k]
      BY <3>1, <3>2
    <3>4. /\ part'[h] \in PartType
          /\ part'[h].stream = part[h].stream /\ part'[h].hour = part[h].hour
          /\ part'[h].cfg = part[h].cfg /\ part'[h].state = part[h].state
          /\ part'[h].buf = part[h].buf /\ part'[h].deferred = part[h].deferred
          /\ part'[h].folded = k /\ part'[h].claimed = {} /\ part'[h].done = d
      BY <2>1, <3>2, <3>3 DEF PartType
    <3> QED
      BY <2>4, <3>2, <3>4
  <2>5. CASE h # g
    <3>1. part'[h] = [part[h] EXCEPT !.done = part[h].done,
                                     !.claimed = part[h].claimed, !.folded = part[h].folded \cup K]
      BY <2>3, <2>5
    <3> QED
      BY <2>1, <2>2, <2>5, <3>1 DEF PartType
  <2> QED
    BY <2>4, <2>5
<1>4. part' \in [1..Len(part) -> PartType]
  BY <1>1, <1>3 DEF CompletedBy, Completed
<1>5. part' \in Seq(PartType) /\ Len(part') = Len(part)
  BY <1>1, <1>4
<1>6. ASSUME NEW h \in Gens PROVE Rows(h)' = Rows(h)
  BY <1>3 DEF Rows
<1> QED
  BY <1>2, <1>3, <1>5, <1>6

\* What a step that settles the claim of part g leaves of the parts.
SettlesOnly(g, to) ==
    /\ Gens' = Gens /\ Len(part') = Len(part) /\ part' \in Seq(PartType)
    /\ \A h \in Gens :
         /\ part'[h].stream = part[h].stream /\ part'[h].hour = part[h].hour
         /\ part'[h].cfg = part[h].cfg /\ part'[h].state = part[h].state
         /\ part'[h].buf = part[h].buf /\ part'[h].deferred = part[h].deferred
         /\ part'[h].folded \subseteq Ords
         /\ \/ part'[h].claimed = part[h].claimed /\ part'[h].done = part[h].done
            \/ /\ h = g /\ to = "durable" /\ part'[h].claimed = {}
               /\ part'[h].done = part[h].done \cup part[h].claimed
         /\ Rows(h)' = Rows(h)

\* The rows of one claim are settled.
LEMMA SettledFacts ==
    ASSUME TypeInv, NEW g \in Gens, NEW to \in {"durable", "uncertain"}, stage' = Settled({g}, to)
    PROVE  /\ stage' \in [Ords -> Stages]
           /\ \A n \in Ords : stage'[n] = IF n \in part[g].claimed THEN to ELSE stage[n]
<1>1. \A n \in Ords : stage[n] \in Stages
  BY DEF TypeInv, Shapes
<1> QED
  BY <1>1 DEF Settled, Stages

\* Settling the claim of one file keeps the invariant.
LEMMA SettledStep ==
    ASSUME WInv, op.kind \in {"sync", "close"}, NEW g \in op.files,
           NEW to \in {"durable", "uncertain"}, stage' = Settled({g}, to), SettlesOnly(g, to),
           op' \in OpType, op'.kind = op.kind, op'.files = op.files \ {g},
           op'.failed # "no" \/ (op'.failed = op.failed /\ part'[g].claimed = {}),
           op'.failed = "no" => op.failed = "no",
           UNCHANGED <<rec, queue, active, retiring, pendingHour, members, loc, pc, cfg>>,
           assoc' \subseteq assoc, LoopShapes', Commands'
    PROVE  WInv'
<1>0. pc # "stopped" /\ TypeInv /\ RoutedRight /\ Running /\ PartsInv /\ RowsInv /\ HandInv
  <2>1. op # NoOp
    BY NoOpFacts
  <2> QED
    BY <2>1, StillRuns DEF Running
<1>1. g \in Gens
  BY <1>0 DEF TypeInv, Names
<1>2. /\ stage' \in [Ords -> Stages]
      /\ \A n \in Ords : stage'[n] = IF n \in part[g].claimed THEN to ELSE stage[n]
  BY <1>0, <1>1, SettledFacts
<1>3. Resettled
  <2>1. \A n \in part[g].claimed : n \in Rows(g)
    BY DEF Rows
  <2>2. ASSUME NEW n \in Ords
        PROVE  /\ (\A h \in Gens : n \notin Rows(h)) => stage'[n] = stage[n]
               /\ stage[n] # "buffered" => stage'[n] # "buffered"
               /\ stage'[n] = "queued" => stage[n] = "queued"
    BY <1>1, <1>2, <2>1
  <2>3. InHand' = InHand
    BY DEF InHand
  <2> QED
    BY <2>2, <2>3 DEF Resettled, SettlesOnly
<1>4. RowStages'
  <2>1. SUFFICES ASSUME NEW h \in Gens
                 PROVE  /\ \A n \in ToSet(part'[h].buf) : stage'[n] = "buffered"
                        /\ \A n \in part'[h].claimed : stage'[n] \in {"inflight", "durable", "uncertain"}
                        /\ \A n \in part'[h].done : stage'[n] = "durable"
                        /\ part'[h].claimed \cap part'[h].done = {}
    BY DEF RowStages, SettlesOnly
  <2>2. /\ \A n \in ToSet(part[h].buf) : stage[n] = "buffered" /\ n \in Ords
        /\ \A n \in part[h].claimed : stage[n] \in {"inflight", "durable", "uncertain"} /\ n \in Ords
        /\ \A n \in part[h].done : stage[n] = "durable" /\ n \in Ords
        /\ part[h].claimed \cap part[h].done = {}
    BY <1>0, PartFacts DEF RowsInv, RowStages
  <2>3. \A n \in part[g].claimed : stage[n] \in {"inflight", "durable", "uncertain"}
    BY <1>0, <1>1 DEF RowsInv, RowStages
  <2>4. \A n \in ToSet(part[h].buf) : n \notin part[g].claimed
    BY <2>2, <2>3
  <2>5. ASSUME NEW n \in part[h].done PROVE n \notin part[g].claimed
    <3>1. CASE h = g
      BY <2>2, <3>1
    <3>2. CASE h # g
      <4>1. n \in Rows(h)
        BY DEF Rows
      <4>2. n \in part[g].claimed => n \in Rows(g)
        BY DEF Rows
      <4> QED
        BY <1>0, <1>1, <3>2, <4>1, <4>2 DEF RowsInv, OnePart
    <3> QED
      BY <3>1, <3>2
  <2>6. \A n \in ToSet(part'[h].buf) : stage'[n] = "buffered"
    <3>1. part'[h].buf = part[h].buf
      BY DEF SettlesOnly
    <3> QED
      BY <1>2, <2>2, <2>4, <3>1
  <2>7. \A n \in part[h].done : stage'[n] = "durable"
    BY <1>2, <2>2, <2>5
  <2>8. CASE part'[h].claimed = part[h].claimed /\ part'[h].done = part[h].done
    <3>1. \A n \in part[h].claimed : stage'[n] \in {"inflight", "durable", "uncertain"}
      BY <1>2, <2>2
    <3> QED
      BY <2>2, <2>6, <2>7, <2>8, <3>1
  <2>9. CASE /\ h = g /\ to = "durable" /\ part'[h].claimed = {}
             /\ part'[h].done = part[h].done \cup part[h].claimed
    <3>1. \A n \in part[h].claimed : stage'[n] = "durable"
      BY <1>2, <2>2, <2>9
    <3> QED
      BY <2>6, <2>7, <2>9, <3>1
  <2> QED
    BY <2>8, <2>9 DEF SettlesOnly
<1>5. RowsInv' /\ RoutedRight'
  BY <1>0, <1>3, <1>4, ResettledInv DEF SamePop
<1>6. ActiveNewest' /\ OpenActive'
  BY <1>0, SameParts DEF PartsInv, TypeInv, SettlesOnly
<1>7. Claims'
  <2>1. SUFFICES ASSUME NEW h \in Gens, part'[h].claimed # {}
                 PROVE  h \in op'.files \/ op'.failed # "no"
    BY DEF Claims, SettlesOnly
  <2>2. h = g => op'.failed # "no"
    BY <2>1
  <2>3. part[h].claimed # {}
    BY <2>1 DEF SettlesOnly
  <2>4. h \in op.files \/ op.failed # "no"
    BY <1>0, <2>3 DEF PartsInv, Claims
  <2> QED
    BY <2>2, <2>4
<1>8. HandInv'
  BY <1>0, SameHandParts DEF SettlesOnly
<1>9. TypeInv'
  <2>1. /\ part' \in Seq(PartType) /\ \A h \in Gens : part'[h].folded \subseteq Ords
    BY DEF SettlesOnly
  <2> QED
    BY <1>0, <1>2, <1>3, <2>1, ResettledTypes DEF TypeInv, Names, Shapes
<1> QED
  BY <1>0, <1>5, <1>6, <1>7, <1>8, <1>9 DEF WInv, Running, PartsInv

\* A file that failed leaves the parts alone.
LEMMA SettlesOnlySame ==
    ASSUME TypeInv, part' = part, NEW g, NEW to
    PROVE  SettlesOnly(g, to)
<1>1. part \in Seq(PartType) /\ \A h \in Gens : part[h].folded \subseteq Ords
  BY DEF TypeInv, Shapes, Names
<1> QED
  BY <1>1 DEF SettlesOnly, Gens, Rows

\* A completion moves the claim to the confirmed rows.
LEMMA SettlesOnlyDone ==
    ASSUME TypeInv, NEW g \in Gens, NEW F, F \subseteq Ords, CompletedBy(g, F)
    PROVE  SettlesOnly(g, "durable") /\ part'[g].claimed = {}
<1>1. /\ Gens' = Gens /\ Len(part') = Len(part) /\ part' \in Seq(PartType)
      /\ \A h \in Gens :
           /\ part'[h].stream = part[h].stream /\ part'[h].hour = part[h].hour
           /\ part'[h].cfg = part[h].cfg /\ part'[h].state = part[h].state
           /\ part'[h].buf = part[h].buf /\ part'[h].deferred = part[h].deferred
           /\ part'[h].folded \subseteq Ords
           /\ part'[h].claimed = (IF h = g THEN {} ELSE part[h].claimed)
           /\ part'[h].done = (IF h = g THEN part[h].done \cup part[h].claimed ELSE part[h].done)
           /\ Rows(h)' = Rows(h)
  BY CompletedFacts
<1> QED
  BY <1>1 DEF SettlesOnly

\* A file of an ordinary sync is done.
LEMMA FileSyncedW == ASSUME WInv, NEW g \in Gens, FileSynced(g) PROVE WInv'
<1>0. pc # "stopped" /\ TypeInv /\ Running /\ Commands
  <2>1. op # NoOp
    BY NoOpFacts DEF FileSynced
  <2> QED
    BY <2>1, StillRuns DEF Running
<1> DEFINE controls == part[g].claimed \cap assoc
           lost == {n \in controls : \E t \in rec[n].targets : ~Owned(t)}
<1>1. CASE lost = {}
  <2>1. /\ UNCHANGED <<rec, queue, active, retiring, pendingHour, members, loc, pc, cfg>>
        /\ UNCHANGED <<work, due, cmds, cmd, life, adm, mode, nest, wakeAfter, oldest, cause,
                       submitted, closing>>
        /\ assoc' \subseteq assoc /\ CompletedBy(g, controls) /\ stage' = Settled({g}, "durable")
        /\ op' = [op EXCEPT !.files = @ \ {g}] /\ op.kind = "sync" /\ g \in op.files
    BY <1>1 DEF FileSynced, CompletedBy, ingressVars, loopVars, histVars
  <2>2. op' \in OpType /\ op'.kind = op.kind /\ op'.files = op.files \ {g} /\ op'.failed = op.failed
    <3>1. op \in OpType
      BY <1>0 DEF TypeInv, Shapes
    <3> QED
      BY <2>1, <3>1 DEF OpType
  <2>3. controls \subseteq Ords
    BY <1>0 DEF TypeInv, Names
  <2> HIDE DEF controls, lost
  <2>4. SettlesOnly(g, "durable") /\ part'[g].claimed = {}
    BY <1>0, <2>1, <2>3, SettlesOnlyDone
  <2>5. LoopShapes'
    BY <1>0, <2>1 DEF TypeInv, Shapes, LoopShapes
  <2>6. Commands'
    BY <1>0, <2>1 DEF Commands
  <2> QED
    BY <2>1, <2>2, <2>4, <2>5, <2>6, SettledStep
<1>2. CASE lost # {}
  <2> DEFINE settled == [n \in Ords |-> IF n \in part[g].claimed /\ n < Min(lost) THEN "durable" ELSE stage[n]]
  <2>1. TerminalFrom("contract", settled)
    BY <1>2 DEF FileSynced
  <2>2. settled \in [Ords -> Stages]
    BY <1>0, RecFacts DEF Stages
  <2> HIDE DEF settled
  <2> QED
    BY <2>1, <2>2, TerminalW
<1> QED
  BY <1>1, <1>2

\* A file of the final barrier is done, in time or late.
LEMMA FileClosedW == ASSUME WInv, NEW g \in Gens, NEW late \in Ages, FileClosed(g, late) PROVE WInv'
<1>0. pc # "stopped" /\ TypeInv /\ Running /\ Commands
  <2>1. op # NoOp
    BY NoOpFacts DEF FileClosed
  <2> QED
    BY <2>1, StillRuns DEF Running
<1> DEFINE expired == oldest \/ (late /\ cmd.kind = "close" /\ part[g].claimed # {})
           F == part[g].claimed \cap Dependencies
<1>1. /\ UNCHANGED <<rec, queue, active, retiring, pendingHour, members, loc, pc, cfg>>
      /\ UNCHANGED <<work, due, cmds, cmd, life, adm, mode, nest, wakeAfter, oldest, cause,
                     submitted, closing>>
      /\ assoc' \subseteq assoc /\ stage' = Settled({g}, "durable")
      /\ op.kind = "close" /\ g \in op.files
      /\ part' = IF expired THEN part ELSE Completed(g, F)
      /\ op' = [op EXCEPT !.files = @ \ {g},
                          !.failed = IF expired THEN (IF oldest THEN "oldest" ELSE "deadline") ELSE @]
  BY DEF FileClosed, ingressVars, loopVars, histVars
<1>2. /\ op' \in OpType /\ op'.kind = op.kind /\ op'.files = op.files \ {g}
      /\ op'.failed = IF expired THEN (IF oldest THEN "oldest" ELSE "deadline") ELSE op.failed
  <2>1. op \in OpType
    BY <1>0 DEF TypeInv, Shapes
  <2>2. PICK f \in {"no", "storage", "oldest", "deadline"} :
           /\ f = IF expired THEN (IF oldest THEN "oldest" ELSE "deadline") ELSE op.failed
    BY <2>1 DEF OpType
  <2>3. op' = [op EXCEPT !.files = op.files \ {g}, !.failed = f]
    BY <1>1, <2>2
  <2>4. op' \in OpType /\ op'.kind = op.kind /\ op'.files = op.files \ {g} /\ op'.failed = f
    BY <2>1, <2>3 DEF OpType
  <2> QED
    BY <2>2, <2>4
<1>3. LoopShapes'
  BY <1>0, <1>1 DEF TypeInv, Shapes, LoopShapes
<1>4. Commands'
  BY <1>0, <1>1 DEF Commands
<1>5. F \subseteq Ords
  BY <1>0 DEF TypeInv, Names, Dependencies
<1>6. CASE expired
  <2>1. part' = part /\ op'.failed # "no"
    BY <1>1, <1>2, <1>6
  <2>2. SettlesOnly(g, "durable")
    BY <1>0, <2>1, SettlesOnlySame
  <2> HIDE DEF expired, F
  <2> QED
    BY <1>1, <1>2, <1>3, <1>4, <2>1, <2>2, SettledStep
<1>7. CASE ~expired
  <2>1. CompletedBy(g, F) /\ op'.failed = op.failed
    BY <1>1, <1>2, <1>7 DEF CompletedBy
  <2> HIDE DEF expired, F
  <2>2. SettlesOnly(g, "durable") /\ part'[g].claimed = {}
    BY <1>0, <1>5, <2>1, SettlesOnlyDone
  <2> QED
    BY <1>1, <1>2, <1>3, <1>4, <2>1, <2>2, SettledStep
<1> QED
  BY <1>6, <1>7

\* A write or sync fails.
LEMMA FileFailedW == ASSUME WInv, NEW g \in Gens, FileFailed(g) PROVE WInv'
<1>0. pc # "stopped" /\ TypeInv /\ Running /\ Commands
  <2>1. op # NoOp
    BY NoOpFacts DEF FileFailed
  <2> QED
    BY <2>1, StillRuns DEF Running
<1>1. /\ UNCHANGED <<rec, queue, part, active, retiring, pendingHour, members, loc, pc, cfg>>
      /\ UNCHANGED <<work, due, cmds, cmd, life, adm, mode, nest, wakeAfter, oldest, cause,
                     submitted, closing>>
      /\ assoc' \subseteq assoc /\ stage' = Settled({g}, "uncertain")
      /\ op.kind \in {"sync", "close"} /\ g \in op.files
      /\ op' = [op EXCEPT !.files = @ \ {g}, !.failed = "storage"]
  BY DEF FileFailed, ingressVars, loopVars, histVars
<1>2. op' \in OpType /\ op'.kind = op.kind /\ op'.files = op.files \ {g} /\ op'.failed = "storage"
  <2>1. op \in OpType
    BY <1>0 DEF TypeInv, Shapes
  <2> QED
    BY <1>1, <2>1 DEF OpType
<1>3. LoopShapes'
  BY <1>0, <1>1 DEF TypeInv, Shapes, LoopShapes
<1>4. Commands'
  BY <1>0, <1>1 DEF Commands
<1>5. SettlesOnly(g, "uncertain")
  BY <1>0, <1>1, SettlesOnlySame
<1> QED
  BY <1>1, <1>2, <1>3, <1>4, <1>5, SettledStep
-----------------------------------------------------------------------------
(* Placing a row in a part *)

PlacedIn(n, g, out) == part' = PartPlaced(g, n, out) /\ stage' = StagePlaced(n, out)
Placings == {"append", "defer", "direct"}

\* The parts and the stages after that.
PartsPlaced(n, g, out) ==
    /\ Gens' = Gens /\ Len(part') = Len(part) /\ part' \in Seq(PartType)
    /\ \A h \in Gens :
         /\ part'[h].stream = part[h].stream /\ part'[h].hour = part[h].hour
         /\ part'[h].cfg = part[h].cfg /\ part'[h].state = part[h].state
         /\ part'[h].done = part[h].done /\ part'[h].folded = part[h].folded
         /\ part'[h].buf = (IF h = g /\ out = "append" THEN Append(part[h].buf, n) ELSE part[h].buf)
         /\ part'[h].deferred = (IF h = g /\ out = "defer" THEN Append(part[h].deferred, n)
                                                          ELSE part[h].deferred)
         /\ part'[h].claimed = (IF h = g /\ out = "direct" THEN {n} ELSE part[h].claimed)
StagesPlaced(n, out) ==
    /\ stage' \in [Ords -> Stages]
    /\ stage'[n] = (IF out = "direct" THEN "inflight" ELSE "buffered")
    /\ \A m \in Ords \ {n} : stage'[m] = stage[m]

\* What placing a row changes, for each outcome.
LEMMA PlacedFacts ==
    ASSUME TypeInv, NEW g \in Gens, NEW n \in Ords, NEW out \in Placings, PlacedIn(n, g, out)
    PROVE  PartsPlaced(n, g, out) /\ StagesPlaced(n, out)
<1>1. Gens = 1..Len(part) /\ Len(part) \in Nat /\ part \in [Gens -> PartType]
  <2>1. part \in Seq(PartType)
    BY DEF TypeInv, Shapes
  <2> QED
    BY <2>1 DEF Gens
<1>2. /\ part[g] \in PartType /\ part[g].buf \in Seq(Nat) /\ part[g].deferred \in Seq(Nat) /\ n \in Nat
      /\ \A h \in Gens : part[h] \in PartType
  BY PartFacts, RecFacts
<1>3. PICK p : p = part'[g]
  OBVIOUS
<1>4. CASE out = "append"
  <2>1. part' = [part EXCEPT ![g].buf = Append(part[g].buf, n)]
    BY <1>4 DEF PlacedIn, PartPlaced
  <2>2. PICK q \in Seq(Nat) : q = Append(part[g].buf, n)
    BY <1>2, AppendFacts
  <2>3. p = [part[g] EXCEPT !.buf = q] /\ part' = [part EXCEPT ![g] = p]
    BY <1>1, <1>3, <2>1, <2>2
  <2>4. /\ p \in PartType /\ p.buf = q
        /\ p.stream = part[g].stream /\ p.hour = part[g].hour
        /\ p.cfg = part[g].cfg /\ p.state = part[g].state
        /\ p.done = part[g].done /\ p.folded = part[g].folded
        /\ p.claimed = part[g].claimed /\ p.deferred = part[g].deferred
    BY <1>2, <2>3 DEF PartType
  <2>5. part' \in [Gens -> PartType] /\ \A h \in Gens : h # g => part'[h] = part[h]
    BY <1>1, <2>3, <2>4
  <2>6. part' \in Seq(PartType) /\ Len(part') = Len(part) /\ Gens' = Gens
    <3>1. part' \in [1..Len(part) -> PartType]
      BY <1>1, <2>5
    <3>2. part' \in Seq(PartType) /\ Len(part') = Len(part)
      BY <1>1, <3>1
    <3>3. DOMAIN part' = 1..Len(part)
      BY <3>1
    <3> QED
      BY <1>1, <3>2, <3>3 DEF Gens
  <2>7. stage' = [stage EXCEPT ![n] = "buffered"]
    BY <1>4 DEF PlacedIn, StagePlaced
  <2>8. stage' \in [Ords -> Stages] /\ stage'[n] = "buffered" /\ \A m \in Ords \ {n} : stage'[m] = stage[m]
    BY <2>7 DEF TypeInv, Shapes, Stages
  <2> QED
    BY <1>3, <1>4, <2>2, <2>4, <2>5, <2>6, <2>8 DEF PartsPlaced, StagesPlaced
<1>5. CASE out = "defer"
  <2>1. part' = [part EXCEPT ![g].deferred = Append(part[g].deferred, n)]
    BY <1>5 DEF PlacedIn, PartPlaced
  <2>2. PICK q \in Seq(Nat) : q = Append(part[g].deferred, n)
    BY <1>2, AppendFacts
  <2>3. p = [part[g] EXCEPT !.deferred = q] /\ part' = [part EXCEPT ![g] = p]
    BY <1>1, <1>3, <2>1, <2>2
  <2>4. /\ p \in PartType /\ p.deferred = q
        /\ p.stream = part[g].stream /\ p.hour = part[g].hour
        /\ p.cfg = part[g].cfg /\ p.state = part[g].state
        /\ p.done = part[g].done /\ p.folded = part[g].folded
        /\ p.claimed = part[g].claimed /\ p.buf = part[g].buf
    BY <1>2, <2>3 DEF PartType
  <2>5. part' \in [Gens -> PartType] /\ \A h \in Gens : h # g => part'[h] = part[h]
    BY <1>1, <2>3, <2>4
  <2>6. part' \in Seq(PartType) /\ Len(part') = Len(part) /\ Gens' = Gens
    <3>1. part' \in [1..Len(part) -> PartType]
      BY <1>1, <2>5
    <3>2. part' \in Seq(PartType) /\ Len(part') = Len(part)
      BY <1>1, <3>1
    <3>3. DOMAIN part' = 1..Len(part)
      BY <3>1
    <3> QED
      BY <1>1, <3>2, <3>3 DEF Gens
  <2>7. stage' = [stage EXCEPT ![n] = "buffered"]
    BY <1>5 DEF PlacedIn, StagePlaced
  <2>8. stage' \in [Ords -> Stages] /\ stage'[n] = "buffered" /\ \A m \in Ords \ {n} : stage'[m] = stage[m]
    BY <2>7 DEF TypeInv, Shapes, Stages
  <2> QED
    BY <1>3, <1>5, <2>2, <2>4, <2>5, <2>6, <2>8 DEF PartsPlaced, StagesPlaced
<1>6. CASE out = "direct"
  <2>1. part' = [part EXCEPT ![g].claimed = {n}]
    BY <1>6 DEF PlacedIn, PartPlaced
  <2>2. PICK q \in SUBSET Nat : q = {n}
    BY <1>2
  <2>3. p = [part[g] EXCEPT !.claimed = q] /\ part' = [part EXCEPT ![g] = p]
    BY <1>1, <1>3, <2>1, <2>2
  <2>4. /\ p \in PartType /\ p.claimed = q
        /\ p.stream = part[g].stream /\ p.hour = part[g].hour
        /\ p.cfg = part[g].cfg /\ p.state = part[g].state
        /\ p.done = part[g].done /\ p.folded = part[g].folded
        /\ p.deferred = part[g].deferred /\ p.buf = part[g].buf
    BY <1>2, <2>3 DEF PartType
  <2>5. part' \in [Gens -> PartType] /\ \A h \in Gens : h # g => part'[h] = part[h]
    BY <1>1, <2>3, <2>4
  <2>6. part' \in Seq(PartType) /\ Len(part') = Len(part) /\ Gens' = Gens
    <3>1. part' \in [1..Len(part) -> PartType]
      BY <1>1, <2>5
    <3>2. part' \in Seq(PartType) /\ Len(part') = Len(part)
      BY <1>1, <3>1
    <3>3. DOMAIN part' = 1..Len(part)
      BY <3>1
    <3> QED
      BY <1>1, <3>2, <3>3 DEF Gens
  <2>7. stage' = [stage EXCEPT ![n] = "inflight"]
    BY <1>6 DEF PlacedIn, StagePlaced
  <2>8. stage' \in [Ords -> Stages] /\ stage'[n] = "inflight" /\ \A m \in Ords \ {n} : stage'[m] = stage[m]
    BY <2>7 DEF TypeInv, Shapes, Stages
  <2> QED
    BY <1>3, <1>6, <2>2, <2>4, <2>5, <2>6, <2>8 DEF PartsPlaced, StagesPlaced
<1> QED
  BY <1>4, <1>5, <1>6 DEF Placings

\* What the placement of row n in part g does to the rows that parts hold.
LEMMA PlacedViews ==
    ASSUME TypeInv, NEW g \in Gens, NEW n \in Ords, NEW out \in Placings, PlacedIn(n, g, out),
           out = "direct" => part[g].claimed = {}
    PROVE  /\ \A h \in Gens : /\ Rows(h)' = IF h = g /\ out # "defer" THEN Rows(h) \cup {n} ELSE Rows(h)
                              /\ DeferredRows(h)' = IF h = g /\ out = "defer" THEN DeferredRows(h) \cup {n}
                                                                              ELSE DeferredRows(h)
<1>0. PartsPlaced(n, g, out)
  BY PlacedFacts
<1>1. SUFFICES ASSUME NEW h \in Gens
               PROVE  /\ Rows(h)' = IF h = g /\ out # "defer" THEN Rows(h) \cup {n} ELSE Rows(h)
                      /\ DeferredRows(h)' = IF h = g /\ out = "defer" THEN DeferredRows(h) \cup {n}
                                                                      ELSE DeferredRows(h)
  OBVIOUS
<1>2. /\ part'[h].done = part[h].done
      /\ part'[h].buf = (IF h = g /\ out = "append" THEN Append(part[h].buf, n) ELSE part[h].buf)
      /\ part'[h].deferred = (IF h = g /\ out = "defer" THEN Append(part[h].deferred, n)
                                                       ELSE part[h].deferred)
      /\ part'[h].claimed = (IF h = g /\ out = "direct" THEN {n} ELSE part[h].claimed)
  BY <1>0 DEF PartsPlaced
<1>3. /\ ToSet(Append(part[h].buf, n)) = ToSet(part[h].buf) \cup {n}
      /\ ToSet(Append(part[h].deferred, n)) = ToSet(part[h].deferred) \cup {n}
  <2>1. part[h].buf \in Seq(Nat) /\ part[h].deferred \in Seq(Nat) /\ n \in Nat
    BY PartFacts, RecFacts
  <2> QED
    BY <2>1, AppendFacts
<1> QED
  BY <1>2, <1>3 DEF Rows, DeferredRows, Placings

\* Row n, the oldest of its stream that is not placed yet, goes to part g, the
\* newest of its stream.
Comes(n, g, out) ==
    /\ n \in Ords /\ g \in Gens /\ out \in Placings /\ PlacedIn(n, g, out)
    /\ stage[n] = "queued"
    /\ out = "direct" => part[g].claimed = {}
    /\ out # "defer" => part[g].deferred = << >>
    /\ part[g].stream = rec[n].stream /\ part[g].hour = rec[n].hour /\ part[g].cfg = rec[n].cfg
    /\ \A h \in Gens : part[h].stream = rec[n].stream => h <= g
    /\ \A m \in InQueues \cup InHand : rec[m].stream = rec[n].stream /\ m # n => n < m
    /\ rec' = rec /\ cfg' = cfg
    /\ InQueues' \cup InHand' = (InQueues \cup InHand) \ {n}
    /\ InQueues' \cap InHand' = {}

\* A row that comes from hand or queue was in no part; then it is in one.
LEMMA ComesViews ==
    ASSUME TypeInv, RowsInv, NEW n, NEW g, NEW out, Comes(n, g, out)
    PROVE  /\ n \in Ords /\ g \in Gens /\ out \in Placings
           /\ PartsPlaced(n, g, out) /\ StagesPlaced(n, out)
           /\ Ords' = Ords /\ Gens' = Gens /\ rec' = rec
           /\ \A h \in Gens : n \notin Rows(h) /\ n \notin DeferredRows(h)
           /\ \A h \in Gens : Rows(h)' = IF h = g /\ out # "defer" THEN Rows(h) \cup {n} ELSE Rows(h)
           /\ \A h \in Gens : DeferredRows(h)' = IF h = g /\ out = "defer" THEN DeferredRows(h) \cup {n}
                                                                           ELSE DeferredRows(h)
           /\ Rows(g)' \cup DeferredRows(g)' = Rows(g) \cup DeferredRows(g) \cup {n}
<1>1. /\ n \in Ords /\ g \in Gens /\ out \in Placings /\ PlacedIn(n, g, out) /\ stage[n] = "queued"
      /\ out = "direct" => part[g].claimed = {}
      /\ rec' = rec
  BY DEF Comes
<1>2. PartsPlaced(n, g, out) /\ StagesPlaced(n, out)
  BY <1>1, PlacedFacts
<1>3. Ords' = Ords /\ Gens' = Gens
  BY <1>1, <1>2 DEF Ords, PartsPlaced
<1>4. \A h \in Gens : n \notin Rows(h) /\ n \notin DeferredRows(h)
  BY <1>1, QueuedNowhere
<1>5. \A h \in Gens : /\ Rows(h)' = IF h = g /\ out # "defer" THEN Rows(h) \cup {n} ELSE Rows(h)
                      /\ DeferredRows(h)' = IF h = g /\ out = "defer" THEN DeferredRows(h) \cup {n}
                                                                      ELSE DeferredRows(h)
  BY <1>1, PlacedViews
<1>6. Rows(g)' \cup DeferredRows(g)' = Rows(g) \cup DeferredRows(g) \cup {n}
  BY <1>1, <1>5
<1> QED
  BY <1>1, <1>2, <1>3, <1>4, <1>5, <1>6

\* It comes to a part of its stream, hour and configuration.
LEMMA ComesRouted ==
    ASSUME TypeInv, RowsInv, RoutedRight, NEW n, NEW g, NEW out, Comes(n, g, out)
    PROVE  RoutedRight'
<1>1. SUFFICES ASSUME NEW h \in Gens, NEW m \in Rows(h)' \cup DeferredRows(h)'
               PROVE  /\ rec[m].stream = part'[h].stream /\ rec[m].hour = part'[h].hour
                      /\ rec[m].cfg = part'[h].cfg
  BY ComesViews DEF RoutedRight
<1>2. /\ part'[h].stream = part[h].stream /\ part'[h].hour = part[h].hour
      /\ part'[h].cfg = part[h].cfg
  BY ComesViews DEF PartsPlaced
<1>3. CASE m = n /\ h = g
  BY <1>2, <1>3 DEF Comes
<1>4. CASE m \in Rows(h) \cup DeferredRows(h)
  BY <1>2, <1>4 DEF RoutedRight
<1> QED
  BY <1>3, <1>4, ComesViews

\* It is in no other part.
LEMMA ComesOnePart ==
    ASSUME TypeInv, RowsInv, NEW n, NEW g, NEW out, Comes(n, g, out)
    PROVE  OnePart'
<1>1. ASSUME NEW h \in Gens, NEW k \in Gens, NEW m \in Rows(h)', m \in Rows(k)' PROVE h = k
  <2>1. CASE m = n
    BY <1>1, <2>1, ComesViews
  <2>2. CASE m # n
    <3>1. m \in Rows(h) /\ m \in Rows(k)
      BY <1>1, <2>2, ComesViews
    <3> QED
      BY <3>1 DEF RowsInv, OnePart
  <2> QED
    BY <2>1, <2>2
<1>2. ASSUME NEW m \in Ords, stage'[m] # "queued"
      PROVE  \E h \in Gens : m \in Rows(h)' \cup DeferredRows(h)'
  <2>1. CASE m = n
    BY <2>1, ComesViews
  <2>2. CASE m # n
    <3>1. stage[m] # "queued"
      BY <1>2, <2>2, ComesViews DEF StagesPlaced
    <3>2. PICK h \in Gens : m \in Rows(h) \cup DeferredRows(h)
      BY <3>1 DEF RowsInv, OnePart
    <3> QED
      BY <3>2, ComesViews
  <2> QED
    BY <2>1, <2>2
<1>3. Gens' = Gens /\ Ords' = Ords
  BY ComesViews
<1> QED
  BY <1>1, <1>2, <1>3 DEF OnePart

\* Its stage says where it is.
LEMMA ComesStages ==
    ASSUME TypeInv, RowsInv, NEW n, NEW g, NEW out, Comes(n, g, out)
    PROVE  RowStages'
<1>1. SUFFICES ASSUME NEW h \in Gens
               PROVE  /\ \A m \in ToSet(part'[h].buf) : stage'[m] = "buffered"
                      /\ \A m \in part'[h].claimed : stage'[m] \in {"inflight", "durable", "uncertain"}
                      /\ \A m \in part'[h].done : stage'[m] = "durable"
                      /\ part'[h].claimed \cap part'[h].done = {}
  BY ComesViews DEF RowStages
<1>2. /\ \A m \in ToSet(part[h].buf) : stage[m] = "buffered" /\ m \in Ords
      /\ \A m \in part[h].claimed : stage[m] \in {"inflight", "durable", "uncertain"} /\ m \in Ords
      /\ \A m \in part[h].done : stage[m] = "durable" /\ m \in Ords
      /\ part[h].claimed \cap part[h].done = {}
  BY PartFacts DEF RowsInv, RowStages
<1>3. n \notin Rows(h)
  BY ComesViews
<1>4. n \notin ToSet(part[h].buf) /\ n \notin part[h].claimed /\ n \notin part[h].done
  BY <1>3 DEF Rows
<1>5. /\ stage'[n] = (IF out = "direct" THEN "inflight" ELSE "buffered")
      /\ \A m \in Ords \ {n} : stage'[m] = stage[m]
  BY ComesViews DEF StagesPlaced
<1>6. /\ \A m \in ToSet(part[h].buf) : stage'[m] = "buffered"
      /\ \A m \in part[h].claimed : stage'[m] \in {"inflight", "durable", "uncertain"}
      /\ \A m \in part[h].done : stage'[m] = "durable"
  BY <1>2, <1>4, <1>5
<1>7. /\ part'[h].done = part[h].done
      /\ part'[h].buf = (IF h = g /\ out = "append" THEN Append(part[h].buf, n) ELSE part[h].buf)
      /\ part'[h].claimed = (IF h = g /\ out = "direct" THEN {n} ELSE part[h].claimed)
  <2>1. PartsPlaced(n, g, out)
    BY ComesViews
  <2> QED
    BY <2>1 DEF PartsPlaced
<1>8. ToSet(Append(part[h].buf, n)) = ToSet(part[h].buf) \cup {n}
  <2>1. part[h].buf \in Seq(Nat) /\ n \in Nat
    BY PartFacts, RecFacts, ComesViews
  <2> QED
    BY <2>1, AppendFacts
<1> QED
  BY <1>2, <1>4, <1>5, <1>6, <1>7, <1>8

\* It leaves the queued records.
LEMMA ComesQueued ==
    ASSUME TypeInv, RowsInv, NEW n, NEW g, NEW out, Comes(n, g, out)
    PROVE  QueuedWhere'
<1>1. /\ stage'[n] # "queued" /\ \A m \in Ords \ {n} : stage'[m] = stage[m]
  BY ComesViews DEF StagesPlaced
<1>2. InQueues' \cup InHand' = (InQueues \cup InHand) \ {n} /\ InQueues' \cap InHand' = {} /\ cfg' = cfg
  BY DEF Comes
<1>3. \A m \in Ords : stage'[m] = "queued" <=> m \in InQueues' \cup InHand'
  BY <1>1, <1>2 DEF RowsInv, QueuedWhere
<1>4. \A m \in Ords : stage'[m] = "queued" => rec[m].cfg = cfg
  BY <1>1 DEF RowsInv, QueuedWhere
<1> QED
  BY <1>2, <1>3, <1>4, ComesViews DEF QueuedWhere

\* It is newer than all rows of its stream in parts and older than all that follow.
LEMMA ComesOrder ==
    ASSUME TypeInv, RowsInv, RoutedRight, NEW n, NEW g, NEW out, Comes(n, g, out)
    PROVE  Order'
<1>1. SUFFICES ASSUME NEW a \in Ords, NEW b \in Ords, a < b, rec[a].stream = rec[b].stream, NEW h \in Gens
               PROVE  /\ b \in Rows(h)' =>
                            \E k \in 1..h : a \in Rows(k)' \/ (k < h /\ a \in DeferredRows(k)')
                      /\ b \in DeferredRows(h)' => a \notin InQueues' \cup InHand'
  BY ComesViews DEF Order
<1>2. /\ n \in Ords /\ stage[n] = "queued"
      /\ n \in Nat /\ a \in Nat /\ b \in Nat /\ h \in Nat /\ g \in Nat /\ h # 0 /\ g # 0
      /\ Gens = 1..Len(part) /\ Len(part) \in Nat
  BY RecFacts, PartFacts DEF Comes
<1>3. ASSUME b \in Rows(h)'
      PROVE  \E k \in 1..h : a \in Rows(k)' \/ (k < h /\ a \in DeferredRows(k)')
  <2>1. CASE b \in Rows(h)
    <3>1. PICK k \in 1..h : a \in Rows(k) \/ (k < h /\ a \in DeferredRows(k))
      BY <1>1, <2>1 DEF RowsInv, Order
    <3>2. k \in Gens
      BY <1>2
    <3>3. Rows(k) \subseteq Rows(k)' /\ DeferredRows(k) \subseteq DeferredRows(k)'
      BY <3>2, ComesViews
    <3> QED
      BY <3>1, <3>3
  <2>2. CASE b \notin Rows(h)
    <3>1. b = n /\ h = g /\ out # "defer"
      BY <1>3, <2>2, ComesViews
    <3>2. a \notin InQueues \cup InHand
      <4>1. a \in InQueues \cup InHand => n < a
        BY <1>1, <1>2, <3>1 DEF Comes
      <4> QED
        BY <1>1, <1>2, <3>1, <4>1
    <3>3. stage[a] # "queued"
      BY <3>2 DEF RowsInv, QueuedWhere
    <3>4. PICK k \in Gens : a \in Rows(k) \cup DeferredRows(k)
      BY <3>3 DEF RowsInv, OnePart
    <3>5. part[k].stream = rec[n].stream
      BY <1>1, <3>1, <3>4 DEF RoutedRight
    <3>6. k <= g
      BY <3>5 DEF Comes
    <3>7. DeferredRows(g) = {}
      BY <3>1, ToSetEmpty DEF Comes, DeferredRows
    <3>8. a \in Rows(k) \/ (k < g /\ a \in DeferredRows(k))
      BY <1>2, <3>4, <3>6, <3>7
    <3>9. Rows(k) \subseteq Rows(k)' /\ DeferredRows(k) \subseteq DeferredRows(k)'
      BY ComesViews
    <3>10. k \in 1..h
      BY <1>2, <3>1, <3>6
    <3> QED
      BY <3>1, <3>8, <3>9, <3>10
  <2> QED
    BY <2>1, <2>2
<1>4. ASSUME b \in DeferredRows(h)'
      PROVE  a \notin InQueues' \cup InHand'
  <2>0. InQueues' \cup InHand' = (InQueues \cup InHand) \ {n}
    BY DEF Comes
  <2>1. CASE b \in DeferredRows(h)
    BY <1>1, <2>0, <2>1 DEF RowsInv, Order
  <2>2. CASE b \notin DeferredRows(h)
    <3>1. b = n
      BY <1>4, <2>2, ComesViews
    <3>2. a \in InQueues \cup InHand => n < a
      BY <1>1, <1>2, <3>1 DEF Comes
    <3> QED
      BY <1>1, <1>2, <2>0, <3>1, <3>2
  <2> QED
    BY <2>1, <2>2
<1> QED
  BY <1>3, <1>4

\* A row that is deferred goes behind the older deferred rows of its part.
LEMMA ComesWaiting ==
    ASSUME TypeInv, RowsInv, RoutedRight, NEW n, NEW g, NEW out, Comes(n, g, out),
           pc' = pc, loc'.pop = loc.pop
    PROVE  Waiting'
<1>0. /\ n \in Ords /\ g \in Gens /\ out \in Placings /\ n \in Nat
  BY ComesViews, RecFacts
<1>p. PartsPlaced(n, g, out)
  BY ComesViews
<1>1. ASSUME NEW h \in Gens PROVE Increasing(part'[h].deferred)
  <2>1. part'[h].deferred = (IF h = g /\ out = "defer" THEN Append(part[h].deferred, n) ELSE part[h].deferred)
    BY <1>p DEF PartsPlaced
  <2>2. Increasing(part[h].deferred) /\ part[h].deferred \in Seq(Nat)
    BY PartFacts DEF RowsInv, Waiting
  <2>3. ASSUME h = g, NEW m \in ToSet(part[h].deferred) PROVE m < n
    <3>1. m \in DeferredRows(g) /\ m \in Ords /\ m \in Nat
      BY <2>3, PartFacts, RecFacts DEF DeferredRows
    <3>2. rec[m].stream = rec[n].stream
      BY <1>0, <3>1 DEF Comes, RoutedRight
    <3>3. m # n
      BY <1>0, <3>1, ComesViews
    <3>4. n \in InQueues \cup InHand
      BY DEF Comes, RowsInv, QueuedWhere
    <3>5. ~(n < m)
      BY <1>0, <3>1, <3>2, <3>4 DEF RowsInv, Order
    <3> QED
      BY <1>0, <3>1, <3>3, <3>5
  <2> QED
    BY <1>0, <2>1, <2>2, <2>3, IncreasingAppend
<1>2. ASSUME NEW h \in Gens, NEW m \in DeferredRows(h)'
      PROVE  \/ stage'[m] = "buffered" /\ \A k \in Gens : m \notin Rows(k)'
             \/ Popping(h, m)' /\ m \in Rows(h)' /\ stage'[m] # "buffered"
  <2>1. CASE m = n
    <3>1. h = g /\ out = "defer"
      BY <1>2, <2>1, ComesViews
    <3>2. stage'[n] = "buffered"
      BY <3>1, ComesViews DEF StagesPlaced
    <3>3. \A k \in Gens : n \notin Rows(k)'
      BY <3>1, ComesViews
    <3> QED
      BY <2>1, <3>2, <3>3
  <2>2. CASE m # n
    <3>1. m \in DeferredRows(h) /\ m \in Ords
      BY <1>2, <2>2, ComesViews, PartFacts
    <3>2. stage'[m] = stage[m]
      BY <2>2, <3>1, ComesViews DEF StagesPlaced
    <3>3. \A k \in Gens : m \in Rows(k)' <=> m \in Rows(k)
      BY <2>2, ComesViews
    <3>4. Popping(h, m) => Popping(h, m)'
      <4>1. part[h].deferred \in Seq(Nat) /\ part[h].deferred # << >>
        BY <3>1, PartFacts, ToSetEmpty DEF DeferredRows
      <4>2. part'[h].deferred[1] = part[h].deferred[1]
        <5>1. part'[h].deferred = (IF h = g /\ out = "defer" THEN Append(part[h].deferred, n) ELSE part[h].deferred)
          BY <1>p DEF PartsPlaced
        <5>2. Append(part[h].deferred, n)[1] = part[h].deferred[1]
          BY <1>0, <4>1
        <5> QED
          BY <5>1, <5>2
      <4> QED
        BY <4>2 DEF Popping
    <3> QED
      BY <3>1, <3>2, <3>3, <3>4 DEF RowsInv, Waiting
  <2> QED
    BY <2>1, <2>2
<1>3. ASSUME NEW h \in Gens, NEW k \in Gens, NEW m \in DeferredRows(h)', m \in DeferredRows(k)' PROVE h = k
  <2>1. CASE m = n
    BY <1>3, <2>1, ComesViews
  <2>2. CASE m # n
    <3>1. m \in DeferredRows(h) /\ m \in DeferredRows(k)
      BY <1>3, <2>2, ComesViews
    <3> QED
      BY <3>1 DEF RowsInv, Waiting
  <2> QED
    BY <2>1, <2>2
<1>4. ASSUME pc' = "pop"
      PROVE  /\ loc'.pop # 0 /\ part'[loc'.pop].deferred # << >>
             /\ part'[loc'.pop].deferred[1] \in Rows(loc.pop)'
  <2>1. /\ loc'.pop = loc.pop /\ loc.pop # 0 /\ part[loc.pop].deferred # << >> /\ loc.pop \in Gens
        /\ part[loc.pop].deferred[1] \in Rows(loc.pop)
    BY <1>4 DEF RowsInv, Waiting, TypeInv, Names
  <2>2. part'[loc.pop].deferred = (IF loc.pop = g /\ out = "defer" THEN Append(part[loc.pop].deferred, n)
                                                                  ELSE part[loc.pop].deferred)
    BY <1>p, <2>1 DEF PartsPlaced
  <2>3. Append(part[loc.pop].deferred, n) # << >>
    <3>1. part[loc.pop].deferred \in Seq(Nat)
      BY <2>1, PartFacts
    <3>2. n \in Nat
      BY <1>0
    <3>3. ASSUME NEW q \in Seq(Nat) PROVE Append(q, n) # << >>
      BY <3>2
    <3> QED
      BY <3>1, <3>3
  <2>4. Append(part[loc.pop].deferred, n)[1] = part[loc.pop].deferred[1]
    <3>1. part[loc.pop].deferred \in Seq(Nat)
      BY <2>1, PartFacts
    <3> QED
      BY <1>0, <2>1, <3>1
  <2>5. \A h \in Gens : Rows(h) \subseteq Rows(h)'
    BY ComesViews
  <2>6. Rows(loc.pop) \subseteq Rows(loc.pop)'
    <3>1. PICK h \in Gens : h = loc.pop
      BY <2>1
    <3>2. Rows(h) \subseteq Rows(h)'
      BY <2>5
    <3>3. Rows(loc.pop)' = Rows(h)'
      BY <2>1, <3>1 DEF Rows
    <3> QED
      BY <3>1, <3>2, <3>3
  <2> QED
    BY <2>1, <2>2, <2>3, <2>4, <2>6
<1>5. Gens' = Gens
  BY ComesViews
<1> QED
  BY <1>1, <1>2, <1>3, <1>4, <1>5 DEF Waiting

\* Typing after a row came.
LEMMA ComesTypes ==
    ASSUME TypeInv, RowsInv, NEW n, NEW g, NEW out, Comes(n, g, out),
           UNCHANGED <<active, retiring, pendingHour, members>>,
           assoc' = Taken(n), queue' \in [Shards -> Seq(Nat)],
           op' \in OpType, op'.files \subseteq Gens,
           loc' \in LocType, loc'.size = loc.size, loc'.pop = loc.pop, LoopShapes'
    PROVE  TypeInv'
<1>1. /\ n \in Ords /\ g \in Gens /\ Ords' = Ords /\ Gens' = Gens /\ rec' = rec
      /\ PartsPlaced(n, g, out) /\ StagesPlaced(n, out)
  BY ComesViews
<1>2. Shapes'
  BY <1>1 DEF TypeInv, Shapes, PartsPlaced, StagesPlaced
<1>3. ASSUME NEW h \in Gens
      PROVE  Rows(h)' \cup DeferredRows(h)' \cup part'[h].folded \subseteq Ords
  <2>1. part'[h].folded = part[h].folded
    BY <1>1 DEF PartsPlaced
  <2>2. Rows(h)' \subseteq Rows(h) \cup {n} /\ DeferredRows(h)' \subseteq DeferredRows(h) \cup {n}
    BY ComesViews
  <2>3. Rows(h) \cup DeferredRows(h) \cup part[h].folded \subseteq Ords
    BY DEF TypeInv, Names
  <2> QED
    BY <1>1, <2>1, <2>2, <2>3
<1>4. InQueues' \cup InHand' \subseteq Ords
  <2>1. InQueues \cup InHand \subseteq Ords
    BY DEF TypeInv, Names, InQueues
  <2> QED
    BY <2>1 DEF Comes
<1>5. \A s \in Shards : ToSet(queue'[s]) \subseteq Ords
  BY <1>4 DEF InQueues
<1>6. assoc' \subseteq Ords
  BY <1>1 DEF Taken, TypeInv, Names
<1>7. Names'
  BY <1>1, <1>3, <1>4, <1>5, <1>6 DEF TypeInv, Names
<1> QED
  BY <1>2, <1>7 DEF TypeInv

\* Placing a row keeps the invariant, whoever places it.
LEMMA ComesStep ==
    ASSUME WInv, pc # "stopped", NEW n, NEW g, NEW out, Comes(n, g, out),
           UNCHANGED <<active, retiring, pendingHour, members, pc>>,
           assoc' = Taken(n), queue' \in [Shards -> Seq(Nat)],
           op' \in OpType, op'.files \subseteq Gens,
           loc' \in LocType, loc'.size = loc.size, loc'.pop = loc.pop, LoopShapes',
           Queues', Claims', Commands', HandInv'
    PROVE  WInv'
<1>0. TypeInv /\ RoutedRight /\ Running /\ RowsInv /\ PartsInv
  BY DEF WInv, Running
<1>1. TypeInv'
  BY <1>0, ComesTypes
<1>2. RoutedRight' /\ OnePart' /\ RowStages' /\ QueuedWhere' /\ Order' /\ Waiting'
  BY <1>0, ComesRouted, ComesOnePart, ComesStages, ComesQueued, ComesOrder, ComesWaiting
<1>3. PartsPlaced(n, g, out)
  BY <1>0, ComesViews
<1>4. ActiveNewest' /\ OpenActive'
  <2>1. cfg' = cfg
    BY DEF Comes
  <2> QED
    BY <1>0, <1>3, <2>1, SameParts DEF PartsInv, TypeInv, PartsPlaced
<1> QED
  BY <1>1, <1>2, <1>4 DEF WInv, Running, PartsInv, RowsInv

\* The rows in hand are the oldest of their shards, and shards are not shared.
LEMMA OldestInHand ==
    ASSUME TypeInv, HandInv, RowsInv, NEW n \in InHand
    PROVE  /\ n \in Ords /\ stage[n] = "queued" /\ rec[n].cfg = cfg /\ n \notin InQueues
           /\ \A m \in InQueues \cup InHand : rec[m].stream = rec[n].stream /\ m # n => n < m
<1>1. n \in Ords
  BY DEF TypeInv, Names
<1>2. stage[n] = "queued" /\ rec[n].cfg = cfg /\ n \notin InQueues
  BY <1>1 DEF RowsInv, QueuedWhere
<1>3. ASSUME NEW m \in InQueues, rec[m].stream = rec[n].stream PROVE n < m
  <2>1. PICK s \in Shards : m \in ToSet(queue[s])
    BY DEF InQueues
  <2>2. ShardOfRow(m) = s /\ ShardOfRow(m) = ShardOfRow(n)
    BY <1>3, <2>1 DEF RowsInv, Queues, ShardOfRow
  <2> QED
    BY <2>1, <2>2 DEF HandInv, HandFirst
<1>4. ASSUME NEW m \in InHand, rec[m].stream = rec[n].stream PROVE m = n
  <2>1. ShardOfRow(m) = ShardOfRow(n)
    BY <1>4 DEF ShardOfRow
  <2> QED
    BY <2>1 DEF HandInv, HandOnce
<1> QED
  BY <1>1, <1>2, <1>3, <1>4

\* Rows of different shards have different parts.
LEMMA OtherPart ==
    ASSUME TypeInv, ActiveNewest, NEW n \in Ords, NEW m \in Ords,
           ShardOfRow(n) # ShardOfRow(m), PartOf(n) # 0
    PROVE  PartOf(m) # PartOf(n)
<1>1. rec[n].stream \in Streams /\ rec[m].stream \in Streams
  BY RecFacts
<1>2. rec[n].stream # rec[m].stream
  BY DEF ShardOfRow
<1> QED
  BY <1>1, <1>2 DEF ActiveNewest, PartOf

\* The active part of a record's stream is the newest of the stream.
LEMMA NewestPart ==
    ASSUME TypeInv, ActiveNewest, NEW n \in Ords, PartOf(n) # 0, pc # "ensured"
    PROVE  /\ PartOf(n) \in Gens /\ part[PartOf(n)].stream = rec[n].stream
           /\ part[PartOf(n)].cfg = cfg
           /\ \A h \in Gens : part[h].stream = rec[n].stream => h <= PartOf(n)
<1>1. rec[n].stream \in Streams /\ PartOf(n) \in Gens \cup {0}
  BY RecFacts
<1> QED
  BY <1>1 DEF ActiveNewest, PartOf

\* What each outcome of _append_drained_record says of the part.
LEMMA OutcomeFacts ==
    ASSUME TypeInv, NEW g \in Gens, NEW n \in Ords, NEW io \in BOOLEAN
    PROVE  /\ Outcome(g, n, io) \in {"error", "append", "defer", "direct", "rollover"}
           /\ Outcome(g, n, io) \in {"append", "direct", "rollover"} => part[g].deferred = << >>
           /\ Outcome(g, n, io) \in {"direct", "rollover"} => io /\ part[g].claimed = {}
           /\ Outcome(g, n, io) = "direct" => part[g].buf = << >>
           /\ Outcome(g, n, io) = "rollover" => part[g].buf # << >>
BY DEF Outcome, Deferred, AppendRow

\* The rows in hand after row n has left it for part g; the queue of its shard
\* may have lost its head.
LEMMA HandAfter ==
    ASSUME TypeInv, HandInv, ActiveNewest, NEW n \in Ords, NEW g, PartOf(n) = g, g # 0,
           rec' = rec, active' = active, cfg' = cfg, Len(part') = Len(part), pc' = pc,
           \A h \in Gens : /\ part'[h].stream = part[h].stream /\ part'[h].hour = part[h].hour
                           /\ part'[h].cfg = part[h].cfg
                           /\ h # g => part'[h].buf = part[h].buf,
           \A s \in Shards : ToSet(queue'[s]) \subseteq ToSet(queue[s]),
           loc'.from = loc.from, loc'.busy = loc.busy, loc'.todo = loc.todo, loc'.roll = loc.roll,
           \/ loc'.held = loc.held /\ ShardOfRow(n) \notin loc.busy
           \/ pc = "place" /\ loc.held # << >> /\ n = Head(loc.held) /\ loc'.held = Tail(loc.held)
    PROVE  HandInv' /\ InHand' = InHand \ {n}
<1>1. loc.held \in Seq(Nat) /\ loc.roll \in Seq(Nat) /\ InHand \subseteq Ords
  BY HandFacts
<1>2. /\ Distinct(loc'.held) /\ ToSet(loc'.held) = ToSet(loc.held) \ {n}
      /\ loc'.held # << >> => loc.held # << >>
      /\ pc = "ensured" => loc'.held = loc.held
      /\ n \notin ToSet(loc.roll)
  <2>1. CASE loc'.held = loc.held /\ ShardOfRow(n) \notin loc.busy
    <3>1. n \notin InHand
      BY <2>1 DEF HandInv, HandFirst
    <3> QED
      BY <2>1, <3>1 DEF HandInv, HandOnce, InHand
  <2>2. CASE pc = "place" /\ loc.held # << >> /\ n = Head(loc.held) /\ loc'.held = Tail(loc.held)
    <3>1. n \in ToSet(loc.held)
      BY <1>1, <2>2, TailFacts
    <3> QED
      BY <1>1, <2>2, <3>1, DistinctTail DEF HandInv, HandOnce
  <2> QED
    BY <2>1, <2>2
<1>3. /\ InHand' = InHand \ {n} /\ ToSet(loc'.held) \subseteq InHand'
      /\ ToSet(loc'.held) \subseteq ToSet(loc.held) /\ ToSet(loc'.roll) \subseteq InHand'
      /\ InHand' \subseteq InHand
  BY <1>2 DEF InHand
<1>4. HandWhere'
  BY <1>2 DEF HandInv, HandWhere
<1>5. HandOnce'
  BY <1>2, <1>3 DEF HandInv, HandOnce, ShardOfRow
<1>6. HandFirst'
  <2>1. ASSUME NEW m \in InHand'
        PROVE  /\ ShardOfRow(m) \in loc.busy /\ (loc.from = "cold" \/ ShardOfRow(m) \notin loc.todo)
               /\ \A k \in ToSet(queue'[ShardOfRow(m)]) : m < k
    <3>1. m \in InHand /\ ShardOfRow(m) \in Shards
      BY <1>1, <1>3, RecFacts
    <3> QED
      BY <3>1 DEF HandInv, HandFirst
  <2> QED
    BY <2>1 DEF HandFirst, ShardOfRow
<1>7. \A m \in InHand' : PartOf(m)' = PartOf(m) /\ PartOf(m) # 0 /\ PartOf(m) \in Gens
  BY <1>3, PartOfHand DEF HandInv, HandPart, PartOf
<1>8. ASSUME NEW m \in InHand' PROVE PartOf(m) # g
  <2>1. m \in Ords /\ m # n
    BY <1>1, <1>3
  <2>2. ShardOfRow(m) # ShardOfRow(n)
    <3>1. CASE ShardOfRow(n) \notin loc.busy
      BY <1>3, <3>1 DEF HandInv, HandFirst
    <3>2. CASE loc.held # << >> /\ n = Head(loc.held)
      <4>1. n \in InHand
        BY <1>1, <3>2, TailFacts DEF InHand
      <4> QED
        BY <1>3, <2>1, <4>1 DEF HandInv, HandOnce
    <3> QED
      BY <3>1, <3>2
  <2> QED
    BY <2>1, <2>2, OtherPart
<1>9. \A m \in InHand' : /\ part'[PartOf(m)].hour = part[PartOf(m)].hour
                         /\ part'[PartOf(m)].buf = part[PartOf(m)].buf
  BY <1>7, <1>8
<1>10. ASSUME pc = "ensured"
       PROVE  /\ loc.from = "sweep" /\ Len(loc.held) = 1 /\ Len(part) > 0
              /\ part'[Len(part)].stream = rec[loc.held[1]].stream
              /\ part'[Len(part)].hour = rec[loc.held[1]].hour
              /\ part'[Len(part)].cfg = cfg /\ PartOf(loc.held[1])' # Len(part)
  <2>1. Len(part) \in Gens
    BY <1>10 DEF HandInv, HandPart, TypeInv, Shapes, Gens
  <2>2. PartOf(loc.held[1])' = PartOf(loc.held[1])
    BY <1>2, <1>10 DEF PartOf
  <2> QED
    BY <1>10, <2>1, <2>2 DEF HandInv, HandPart
<1>11. HandPart'
  <2>1. \A m \in ToSet(loc.roll) : part[PartOf(m)].hour = rec[m].hour
    BY DEF HandInv, HandPart
  <2>2. \A m \in ToSet(loc.held) : pc # "ensured" => part[PartOf(m)].hour = rec[m].hour
    BY DEF HandInv, HandPart
  <2>3. \A m \in ToSet(loc.held) : loc.from = "cold" => part[PartOf(m)].buf = << >>
    BY DEF HandInv, HandPart
  <2> QED
    BY <1>2, <1>3, <1>7, <1>9, <1>10, <2>1, <2>2, <2>3 DEF HandPart
<1> QED
  BY <1>3, <1>4, <1>5, <1>6, <1>11 DEF HandInv

\* A row that needs a rollover waits in hand for the end of the turn.
LEMMA PlaceRollover ==
    ASSUME WInv, At("place"), loc.held # << >>, loc.from = "sweep",
           UNCHANGED <<rec, queue, stage, part, active, retiring, pendingHour, members, cfg, pc, op>>,
           loc' = [loc EXCEPT !.held = Tail(loc.held), !.roll = Append(loc.roll, Head(loc.held))],
           assoc' = Taken(Head(loc.held)), LoopShapes', Commands'
    PROVE  WInv'
<1>0. /\ pc = "place" /\ TypeInv /\ RoutedRight /\ Running /\ HandInv /\ PartsInv /\ RowsInv
  BY AtFacts
<1>1. /\ loc.held \in Seq(Nat) /\ loc.roll \in Seq(Nat) /\ InHand \subseteq Ords
      /\ Head(loc.held) \in Nat /\ Tail(loc.held) \in Seq(Nat)
      /\ Head(loc.held) \in ToSet(loc.held)
      /\ ToSet(Append(loc.roll, Head(loc.held))) = ToSet(loc.roll) \cup {Head(loc.held)}
      /\ Append(loc.roll, Head(loc.held)) \in Seq(Nat)
  <2>1. loc.held \in Seq(Nat) /\ loc.roll \in Seq(Nat) /\ InHand \subseteq Ords
    BY <1>0, HandFacts
  <2>2. Head(loc.held) \in Nat /\ Tail(loc.held) \in Seq(Nat) /\ Head(loc.held) \in ToSet(loc.held)
    BY <2>1, TailFacts
  <2> QED
    BY <2>1, <2>2, AppendFacts
<1>2. /\ loc' \in LocType /\ loc'.held = Tail(loc.held) /\ loc'.roll = Append(loc.roll, Head(loc.held))
      /\ loc'.size = loc.size /\ loc'.pop = loc.pop /\ loc'.from = loc.from
      /\ loc'.busy = loc.busy /\ loc'.todo = loc.todo
  <2>1. loc \in LocType
    BY <1>0 DEF TypeInv, Shapes
  <2> QED
    BY <1>1, <2>1 DEF LocType
<1>3. ToSet(Tail(loc.held)) = ToSet(loc.held) \ {Head(loc.held)} /\ Distinct(Tail(loc.held))
  BY <1>0, <1>1, DistinctTail DEF HandInv, HandOnce
<1>4. Head(loc.held) \notin ToSet(loc.roll) /\ Distinct(Append(loc.roll, Head(loc.held)))
  <2>1. Head(loc.held) \notin ToSet(loc.roll) /\ Distinct(loc.roll)
    BY <1>0, <1>1 DEF HandInv, HandOnce
  <2> QED
    BY <1>1, <2>1, DistinctAppend
<1>5. InHand' = InHand
  BY <1>1, <1>2, <1>3 DEF InHand
<1>6. HandInv'
  <2>1. HandWhere'
    BY <1>0, <1>2 DEF HandWhere
  <2>2. HandOnce'
    <3>1. ToSet(loc'.held) \cap ToSet(loc'.roll) = {}
      BY <1>0, <1>1, <1>2, <1>3 DEF HandInv, HandOnce
    <3>2. \A n, m \in InHand : ShardOfRow(n) = ShardOfRow(m) => n = m
      BY <1>0 DEF HandInv, HandOnce
    <3> QED
      BY <1>2, <1>3, <1>4, <1>5, <3>1, <3>2 DEF HandOnce, ShardOfRow
  <2>3. HandFirst'
    BY <1>0, <1>2, <1>5 DEF HandInv, HandFirst, ShardOfRow
  <2>4. \A n \in InHand : PartOf(n)' = PartOf(n)
    BY DEF PartOf
  <2>5. \A n \in InHand : PartOf(n) # 0 /\ part[PartOf(n)].hour = rec[n].hour
    BY <1>0 DEF HandInv, HandPart, InHand
  <2>6. ToSet(loc'.held) \subseteq InHand /\ ToSet(loc'.roll) \subseteq InHand
    BY <1>5 DEF InHand
  <2>7. HandPart'
    BY <1>0, <1>2, <1>5, <2>4, <2>5, <2>6 DEF HandPart
  <2> QED
    BY <2>1, <2>2, <2>3, <2>7 DEF HandInv
<1>7. KeepRows
  BY <1>5 DEF KeepRows, SameRow, Gens
<1>8. TypeInv'
  <2>1. assoc' \subseteq Ords
    BY <1>0, <1>1 DEF Taken, TypeInv, Names, InHand
  <2> QED
    BY <1>0, <1>2, <1>5, <2>1, CalmTypes DEF TypeInv, Names, Shapes
<1>9. RowsInv' /\ RoutedRight'
  BY <1>0, <1>2, <1>7, <1>8, KeepRowsInv DEF SamePop
<1>10. ActiveNewest' /\ OpenActive'
  BY <1>0, SameActive DEF PartsInv
<1>11. Claims'
  BY <1>0, SameClaims DEF PartsInv, Gens
<1> QED
  BY <1>0, <1>6, <1>8, <1>9, <1>10, <1>11 DEF WInv, Running, PartsInv

\* The next row in hand is placed.
LEMMA PlaceW == ASSUME WInv, Place PROVE WInv'
<1>0. /\ pc = "place" /\ TypeInv /\ RoutedRight /\ Running /\ HandInv /\ PartsInv /\ RowsInv /\ Commands
      /\ op = NoOp /\ At("place") /\ loc.held # << >> /\ \A g \in Gens : part[g].claimed = {}
  BY AtFacts DEF Place
<1>1. PICK n : n = Head(loc.held)
  OBVIOUS
<1>2. PICK g : g = PartOf(n)
  OBVIOUS
<1>3. PICK out : out = Outcome(g, n, TRUE)
  OBVIOUS
<1>4. CASE Terminal("contract")
  BY <1>4, TerminalNowW
<1>5. CASE ~Terminal("contract")
  <2>1. /\ UNCHANGED <<rec, queue, active, retiring, pendingHour, members, cfg, pc>>
        /\ UNCHANGED <<work, due, cmds, cmd, life, adm, mode, nest, wakeAfter, oldest, cause,
                       submitted, closing>>
        /\ out # "error" /\ ~(out = "rollover" /\ loc.from = "roll")
        /\ part' = PartPlaced(g, n, out) /\ stage' = StagePlaced(n, out)
        /\ assoc' = Taken(n)
        /\ op' = (IF out = "direct" THEN SyncOp({g}) ELSE NoOp)
        /\ loc' = [loc EXCEPT !.held = Tail(@),
                              !.roll = IF out = "rollover" /\ loc.from = "sweep" THEN Append(@, n) ELSE @]
    BY <1>1, <1>2, <1>3, <1>5 DEF Place, PartOf, ingressVars, loopVars, histVars
  <2>2. LoopShapes'
    BY <1>0, <2>1 DEF TypeInv, Shapes, LoopShapes
  <2>3. Commands'
    BY <1>0, <2>1 DEF Commands
  <2>4. /\ loc \in LocType /\ loc.held \in Seq(Nat) /\ loc.roll \in Seq(Nat) /\ Tail(loc.held) \in Seq(Nat)
        /\ n \in InHand /\ n \in ToSet(loc.held)
    <3>1. loc \in LocType /\ loc.held \in Seq(Nat) /\ loc.roll \in Seq(Nat)
      BY <1>0, HandFacts DEF TypeInv, Shapes
    <3> QED
      BY <1>0, <1>1, <3>1, TailFacts DEF InHand
  <2>5. /\ n \in Ords /\ g \in Gens /\ g # 0 /\ part[g].hour = rec[n].hour
        /\ loc.from = "cold" => part[g].buf = << >>
    <3>1. n \in Ords /\ g \in Gens
      BY <1>0, <1>2, <2>4, PartOfHand DEF HandInv
    <3> QED
      BY <1>0, <1>2, <2>4, <3>1 DEF HandInv, HandPart
  <2>6. /\ out \in {"error", "append", "defer", "direct", "rollover"}
        /\ out \in {"append", "direct", "rollover"} => part[g].deferred = << >>
        /\ out = "rollover" => part[g].buf # << >>
    BY <1>0, <1>3, <2>5, OutcomeFacts
  <2>7. CASE out = "rollover"
    <3>1. loc.from = "sweep"
      <4>1. loc.from # "none" /\ loc.from # "cold" /\ loc.from # "roll"
        BY <1>0, <2>1, <2>5, <2>6, <2>7 DEF HandInv, HandWhere
      <4> QED
        BY <2>4, <4>1 DEF LocType
    <3>2. part' = part /\ stage' = stage /\ op' = op
      BY <1>0, <2>1, <2>7 DEF PartPlaced, StagePlaced
    <3>3. loc' = [loc EXCEPT !.held = Tail(loc.held), !.roll = Append(loc.roll, Head(loc.held))]
      BY <1>1, <2>1, <2>7, <3>1
    <3> QED
      BY <1>0, <1>1, <2>1, <2>2, <2>3, <3>1, <3>2, <3>3, PlaceRollover
  <2>8. CASE out # "rollover"
    <3>1. out \in Placings
      BY <2>1, <2>6, <2>8 DEF Placings
    <3>2. PlacedIn(n, g, out)
      BY <2>1 DEF PlacedIn
    <3>3. /\ loc' \in LocType /\ loc'.held = Tail(loc.held) /\ loc'.roll = loc.roll
          /\ loc'.size = loc.size /\ loc'.pop = loc.pop /\ loc'.from = loc.from
          /\ loc'.busy = loc.busy /\ loc'.todo = loc.todo
      <4>1. loc' = [loc EXCEPT !.held = Tail(loc.held), !.roll = loc.roll]
        BY <2>1, <2>8
      <4> QED
        BY <2>4, <4>1 DEF LocType
    <3>4. PartsPlaced(n, g, out)
      BY <1>0, <2>5, <3>1, <3>2, PlacedFacts
    <3>5. /\ Len(part') = Len(part)
          /\ \A h \in Gens : /\ part'[h].stream = part[h].stream /\ part'[h].hour = part[h].hour
                             /\ part'[h].cfg = part[h].cfg
                             /\ h # g => part'[h].buf = part[h].buf
      BY <3>4 DEF PartsPlaced
    <3>6. HandInv' /\ InHand' = InHand \ {n}
      <4>1. ActiveNewest
        BY <1>0 DEF PartsInv
      <4>2. \A s \in Shards : ToSet(queue'[s]) \subseteq ToSet(queue[s])
        BY <2>1
      <4> QED
        BY <1>0, <1>1, <1>2, <2>1, <2>5, <3>3, <3>5, <4>1, <4>2, HandAfter
    <3>7. /\ stage[n] = "queued" /\ rec[n].cfg = cfg /\ n \notin InQueues
          /\ \A m \in InQueues \cup InHand : rec[m].stream = rec[n].stream /\ m # n => n < m
      BY <1>0, <2>4, OldestInHand
    <3>8. /\ part[g].stream = rec[n].stream /\ part[g].cfg = cfg
          /\ \A h \in Gens : part[h].stream = rec[n].stream => h <= g
      BY <1>0, <1>2, <2>5, NewestPart DEF PartsInv
    <3>9. InQueues' = InQueues
      BY <2>1 DEF InQueues
    <3>10. InQueues' \cup InHand' = (InQueues \cup InHand) \ {n} /\ InQueues' \cap InHand' = {}
      BY <1>0, <3>6, <3>7, <3>9 DEF RowsInv, QueuedWhere
    <3>11. Comes(n, g, out)
      BY <1>0, <2>1, <2>5, <2>6, <3>1, <3>2, <3>7, <3>8, <3>10 DEF Comes, Placings
    <3>12. op' \in OpType /\ op'.files \subseteq Gens
      <4>1. CASE out = "direct"
        BY <1>0, <2>1, <2>5, <4>1, SyncOpFacts, GensNat
      <4>2. CASE out # "direct"
        BY <2>1, <4>2, NoOpFacts
      <4> QED
        BY <4>1, <4>2
    <3>13. Claims'
      <4>1. Gens' = Gens /\ \A h \in Gens : part'[h].claimed = (IF h = g /\ out = "direct" THEN {n} ELSE part[h].claimed)
        BY <3>4 DEF PartsPlaced
      <4>2. \A h \in Gens : part'[h].claimed # {} => h = g /\ out = "direct"
        BY <1>0, <4>1
      <4>3. out = "direct" => op'.kind = "sync" /\ g \in op'.files
        BY <1>0, <2>1, <2>5, SyncOpFacts, GensNat
      <4> QED
        BY <4>1, <4>2, <4>3 DEF Claims
    <3>14. Queues'
      BY <1>0, <2>1 DEF RowsInv, Queues, ShardOfRow
    <3>15. queue' \in [Shards -> Seq(Nat)]
      BY <1>0, <2>1 DEF TypeInv, Shapes
    <3> QED
      BY <1>0, <2>1, <2>2, <2>3, <3>3, <3>6, <3>11, <3>12, <3>13, <3>14, <3>15, ComesStep
  <2> QED
    BY <2>7, <2>8
<1> QED
  BY <1>4, <1>5
-----------------------------------------------------------------------------
(* Taking the heads of queues *)

Popped(C) == queue' = [s \in Shards |-> IF s \in C THEN Tail(queue[s]) ELSE queue[s]]
Heads(C) == {Head(queue[s]) : s \in C}

\* The head of a queue is the oldest record of its shard.
LEMMA HeadFacts ==
    ASSUME TypeInv, Queues, NEW s \in Nonempty
    PROVE  /\ s \in Shards /\ queue[s] \in Seq(Nat) /\ queue[s] # << >>
           /\ Head(queue[s]) \in Ords /\ Head(queue[s]) \in InQueues
           /\ Head(queue[s]) \in ToSet(queue[s])
           /\ ShardOfRow(Head(queue[s])) = s
           /\ \A m \in ToSet(queue[s]) : Head(queue[s]) <= m
<1>1. s \in Shards /\ queue[s] # << >>
  BY DEF Nonempty
<1>2. queue[s] \in Seq(Nat) /\ ToSet(queue[s]) \subseteq Ords /\ ToSet(queue[s]) \subseteq InQueues
  BY <1>1, QueueFacts
<1>3. Head(queue[s]) \in ToSet(queue[s])
  BY <1>1, <1>2, TailFacts
<1>4. Increasing(queue[s]) /\ \A n \in ToSet(queue[s]) : ShardOfRow(n) = s
  BY <1>1 DEF Queues
<1>5. \A m \in ToSet(queue[s]) : Head(queue[s]) <= m
  BY <1>1, <1>2, <1>4, IncreasingTail
<1> QED
  BY <1>1, <1>2, <1>3, <1>4, <1>5

\* What taking the heads of some queues leaves.
LEMMA PoppedFacts ==
    ASSUME TypeInv, Queues, NEW C, C \subseteq Nonempty, Popped(C), rec' = rec
    PROVE  /\ queue' \in [Shards -> Seq(Nat)] /\ Queues'
           /\ \A s \in Shards : ToSet(queue'[s]) \subseteq ToSet(queue[s])
           /\ \A s \in Shards : ToSet(queue'[s]) \subseteq Ords
           /\ \A s \in C : \A m \in ToSet(queue'[s]) : Head(queue[s]) < m
           /\ InQueues' = InQueues \ Heads(C)
<1>1. ASSUME NEW s \in Shards
      PROVE  /\ queue'[s] \in Seq(Nat) /\ Increasing(queue'[s])
             /\ ToSet(queue'[s]) = (IF s \in C THEN ToSet(queue[s]) \ {Head(queue[s])} ELSE ToSet(queue[s]))
             /\ s \in C => \A m \in ToSet(queue'[s]) : Head(queue[s]) < m
  <2>1. queue[s] \in Seq(Nat) /\ Increasing(queue[s])
    BY QueueFacts DEF Queues
  <2>2. CASE s \in C
    <3>1. queue[s] # << >> /\ queue'[s] = Tail(queue[s])
      BY <2>2 DEF Nonempty, Popped
    <3> QED
      BY <2>1, <2>2, <3>1, IncreasingTail, TailFacts
  <2>3. CASE s \notin C
    BY <2>1, <2>3 DEF Popped
  <2> QED
    BY <2>2, <2>3
<1>2. queue' \in [Shards -> Seq(Nat)]
  BY <1>1 DEF Popped
<1>3. \A s \in Shards : ToSet(queue'[s]) \subseteq ToSet(queue[s]) /\ ToSet(queue[s]) \subseteq Ords
  BY <1>1, QueueFacts
<1>4. \A s \in Shards : \A n \in ToSet(queue[s]) : ShardOfRow(n) = s /\ ShardOfRow(n)' = s
  BY DEF Queues, ShardOfRow
<1>5. Queues'
  BY <1>1, <1>3, <1>4 DEF Queues
<1>6. ASSUME NEW n \in InQueues' PROVE n \in InQueues \ Heads(C)
  <2>1. PICK s \in Shards : n \in ToSet(queue'[s])
    BY DEF InQueues
  <2>2. n \in ToSet(queue[s]) /\ n \in InQueues /\ ShardOfRow(n) = s
    BY <1>3, <1>4, <2>1 DEF InQueues
  <2>3. ASSUME NEW t \in C, n = Head(queue[t]) PROVE FALSE
    <3>1. ShardOfRow(n) = t
      BY <2>3, HeadFacts
    <3> QED
      BY <1>1, <2>1, <2>2, <2>3, <3>1
  <2> QED
    BY <2>2, <2>3 DEF Heads
<1>7. ASSUME NEW n \in InQueues \ Heads(C) PROVE n \in InQueues'
  <2>1. PICK s \in Shards : n \in ToSet(queue[s])
    BY DEF InQueues
  <2>2. n \in ToSet(queue'[s])
    BY <1>1, <2>1 DEF Heads
  <2> QED
    BY <2>1, <2>2 DEF InQueues
<1>8. InQueues' = InQueues \ Heads(C)
  BY <1>6, <1>7
<1>9. \A s \in C : \A m \in ToSet(queue'[s]) : Head(queue[s]) < m
  <2>1. C \subseteq Shards
    BY DEF Nonempty
  <2> QED
    BY <1>1, <2>1
<1> QED
  BY <1>2, <1>3, <1>5, <1>8, <1>9

\* Taking one head.
LEMMA PopOne ==
    ASSUME TypeInv, NEW s \in Shards, queue' = [queue EXCEPT ![s] = Tail(@)]
    PROVE  Popped({s})
BY DEF Popped, TypeInv, Shapes

\* The nested drain places the head of a queue.
LEMMA NestRowW == ASSUME WInv, NestRow PROVE WInv'
<1>0. pc # "stopped" /\ TypeInv /\ RoutedRight /\ Running /\ HandInv /\ PartsInv /\ RowsInv /\ Commands
      /\ ActiveNewest /\ Queues
  BY StillRuns DEF NestRow, Running, PartsInv, RowsInv
<1>1. PICK s : s = CHOOSE x \in NestEligible : TRUE
  OBVIOUS
<1>2. PICK n : n = Head(queue[s])
  OBVIOUS
<1>3. PICK g : g = PartOf(n)
  OBVIOUS
<1>4. PICK out : out = Outcome(g, n, FALSE)
  OBVIOUS
<1>5. CASE Terminal("contract")
  BY <1>5, TerminalNowW
<1>6. CASE ~Terminal("contract")
  <2>1. /\ UNCHANGED <<rec, active, retiring, pendingHour, members, cfg, pc, op, loc>>
        /\ UNCHANGED <<work, due, cmds, cmd, life, adm, mode, nest, wakeAfter, oldest, cause,
                       submitted, closing>>
        /\ out # "error" /\ queue' = [queue EXCEPT ![s] = Tail(@)]
        /\ part' = PartPlaced(g, n, out) /\ stage' = StagePlaced(n, out)
        /\ assoc' = Taken(n)
    BY <1>1, <1>2, <1>3, <1>4, <1>6 DEF NestRow, PartOf, loopVars, ctlVars, histVars
  <2>2. LoopShapes'
    BY <1>0, <2>1 DEF TypeInv, Shapes, LoopShapes
  <2>3. Commands'
    BY <1>0, <2>1 DEF Commands
  <2>4. s \in Nonempty /\ s \notin loc.busy /\ g \in Gens /\ part[g].hour = rec[n].hour
    <3>1. s \in NestEligible
      BY <1>1 DEF NestRow
    <3> QED
      BY <1>2, <1>3, <3>1 DEF NestEligible, NoIO, ActiveParts, PartOf
  <2>5. /\ s \in Shards /\ n \in Ords /\ n \in InQueues /\ ShardOfRow(n) = s
        /\ \A m \in ToSet(queue[s]) : n <= m
    BY <1>0, <1>2, <2>4, HeadFacts
  <2>6. out \in Placings /\ out # "direct" /\ (out # "defer" => part[g].deferred = << >>)
    <3>1. /\ out \in {"error", "append", "defer", "direct", "rollover"}
          /\ out \in {"append", "direct", "rollover"} => part[g].deferred = << >>
          /\ out \in {"direct", "rollover"} => FALSE
      BY <1>0, <1>4, <2>4, <2>5, OutcomeFacts
    <3> QED
      BY <2>1, <3>1 DEF Placings
  <2>7. PlacedIn(n, g, out) /\ PartsPlaced(n, g, out)
    <3>1. PlacedIn(n, g, out)
      BY <2>1 DEF PlacedIn
    <3> QED
      BY <1>0, <2>4, <2>5, <2>6, <3>1, PlacedFacts
  <2>8. /\ queue' \in [Shards -> Seq(Nat)] /\ Queues'
        /\ \A t \in Shards : ToSet(queue'[t]) \subseteq ToSet(queue[t])
        /\ InQueues' = InQueues \ {n}
    <3>1. Popped({s})
      BY <1>0, <2>1, <2>5, PopOne
    <3>2. {s} \subseteq Nonempty /\ Heads({s}) = {n}
      BY <1>2, <2>4 DEF Heads
    <3> QED
      BY <1>0, <2>1, <3>1, <3>2, PoppedFacts
  <2>9. HandInv' /\ InHand' = InHand \ {n}
    <3>1. /\ Len(part') = Len(part)
          /\ \A h \in Gens : /\ part'[h].stream = part[h].stream /\ part'[h].hour = part[h].hour
                             /\ part'[h].cfg = part[h].cfg
                             /\ h # g => part'[h].buf = part[h].buf
      BY <2>7 DEF PartsPlaced
    <3>2. g # 0
      BY <1>0, <2>4, PartFacts
    <3> QED
      BY <1>0, <1>3, <2>1, <2>4, <2>5, <2>8, <3>1, <3>2, HandAfter
  <2>10. n \notin InHand /\ stage[n] = "queued" /\ rec[n].cfg = cfg
    BY <1>0, <2>5 DEF RowsInv, QueuedWhere
  <2>11. ASSUME NEW m \in InQueues \cup InHand, rec[m].stream = rec[n].stream, m # n PROVE n < m
    <3>1. ShardOfRow(m) = s
      BY <2>5, <2>11 DEF ShardOfRow
    <3>2. m \notin InHand
      BY <1>0, <2>4, <3>1 DEF HandInv, HandFirst
    <3>3. PICK t \in Shards : m \in ToSet(queue[t])
      BY <3>2 DEF InQueues
    <3>4. t = s /\ m \in Ords
      BY <1>0, <3>1, <3>3, QueueFacts DEF Queues
    <3>5. n <= m /\ n \in Nat /\ m \in Nat
      BY <1>0, <2>5, <3>3, <3>4, RecFacts
    <3> QED
      BY <2>11, <3>5
  <2>12. /\ part[g].stream = rec[n].stream /\ part[g].cfg = cfg
         /\ \A h \in Gens : part[h].stream = rec[n].stream => h <= g
    <3>1. rec[n].stream \in Streams /\ g = active[rec[n].stream] /\ g # 0
      BY <1>0, <1>3, <2>4, <2>5, RecFacts, PartFacts DEF PartOf
    <3>2. /\ part[g].stream = rec[n].stream /\ part[g].cfg = cfg
          /\ \A h \in Gens : part[h].stream = rec[n].stream => h <= g \/ (pc = "ensured" /\ h = Len(part))
      BY <1>0, <3>1 DEF ActiveNewest
    <3>3. ASSUME pc = "ensured" PROVE part[Len(part)].stream # rec[n].stream
      <4>1. Len(loc.held) = 1 /\ part[Len(part)].stream = rec[loc.held[1]].stream
        BY <1>0, <3>3 DEF HandInv, HandPart
      <4>2. loc.held[1] \in InHand
        <5>1. loc.held \in Seq(Nat)
          BY <1>0, HandFacts
        <5> QED
          BY <4>1, <5>1, ToSetFacts DEF InHand
      <4>3. ShardOfRow(loc.held[1]) \in loc.busy
        BY <1>0, <4>2 DEF HandInv, HandFirst
      <4> QED
        BY <2>4, <2>5, <4>1, <4>3 DEF ShardOfRow
    <3> QED
      BY <3>2, <3>3
  <2>13. InQueues' \cup InHand' = (InQueues \cup InHand) \ {n} /\ InQueues' \cap InHand' = {}
    BY <1>0, <2>8, <2>9 DEF RowsInv, QueuedWhere
  <2>14. Comes(n, g, out)
    BY <2>1, <2>4, <2>5, <2>6, <2>7, <2>10, <2>11, <2>12, <2>13 DEF Comes
  <2>15. Claims'
    <3>1. \A h \in Gens' : h \in Gens /\ part'[h].claimed = part[h].claimed
      BY <2>6, <2>7 DEF PartsPlaced
    <3> QED
      BY <1>0, <2>1, <3>1, SameClaims DEF PartsInv
  <2>16. op' \in OpType /\ op'.files \subseteq Gens /\ loc' \in LocType
    BY <1>0, <2>1 DEF TypeInv, Shapes, Names
  <2> QED
    BY <1>0, <2>1, <2>2, <2>3, <2>8, <2>9, <2>14, <2>15, <2>16, ComesStep
<1> QED
  BY <1>5, <1>6
-----------------------------------------------------------------------------
(* Deferred rows *)

\* The part whose deferred row is looked at next.
LEMMA DrainableFacts ==
    ASSUME TypeInv, Drainable # {}
    PROVE  /\ Min(Drainable) \in Gens /\ part[Min(Drainable)].deferred # << >>
           /\ part[Min(Drainable)].claimed = {}
<1>1. Drainable \subseteq Nat
  BY PartFacts DEF Drainable, Deferred
<1>2. Min(Drainable) \in Drainable
  BY <1>1, MinFacts
<1> QED
  BY <1>2 DEF Drainable, Deferred

\* The first deferred row of an open part comes next in its stream.
LEMMA FirstDeferred ==
    ASSUME WInv, At("deferred"), NEW g \in Gens, part[g].deferred # << >>, part[g].state = "open",
           NEW n, n = Head(part[g].deferred)
    PROVE  /\ n \in Ords /\ n \in DeferredRows(g) /\ n = part[g].deferred[1]
           /\ stage[n] = "buffered" /\ \A h \in Gens : n \notin Rows(h)
           /\ \A m \in DeferredRows(g) : n <= m
           /\ \A a \in Ords : (a < n /\ rec[a].stream = rec[n].stream) =>
                 \E k \in 1..g : a \in Rows(k) \/ (k < g /\ a \in DeferredRows(k))
<1>0. /\ pc = "deferred" /\ TypeInv /\ RoutedRight /\ PartsInv /\ RowsInv
  BY AtFacts
<1>1. part[g].deferred \in Seq(Nat) /\ g \in Nat /\ Gens = 1..Len(part) /\ Len(part) \in Nat
  BY <1>0, PartFacts
<1>2. n \in DeferredRows(g) /\ n = part[g].deferred[1]
  BY <1>1, TailFacts DEF DeferredRows
<1>3. n \in Ords /\ n \in Nat
  BY <1>0, <1>2, PartFacts, RecFacts
<1>4. stage[n] = "buffered" /\ \A h \in Gens : n \notin Rows(h)
  BY <1>0, <1>2 DEF RowsInv, Waiting, Popping
<1>5. \A m \in DeferredRows(g) : n <= m
  BY <1>0, <1>1, IncreasingTail DEF RowsInv, Waiting, DeferredRows
<1>6. ASSUME NEW a \in Ords, a < n, rec[a].stream = rec[n].stream
      PROVE  \E k \in 1..g : a \in Rows(k) \/ (k < g /\ a \in DeferredRows(k))
  <2>1. a \notin InQueues \cup InHand
    BY <1>0, <1>2, <1>3, <1>6 DEF RowsInv, Order
  <2>2. stage[a] # "queued"
    BY <1>0, <2>1 DEF RowsInv, QueuedWhere
  <2>3. PICK k \in Gens : a \in Rows(k) \cup DeferredRows(k)
    BY <1>0, <2>2 DEF RowsInv, OnePart
  <2>4. part[k].stream = part[g].stream
    BY <1>0, <1>2, <1>6, <2>3 DEF RoutedRight
  <2>5. part[g].stream \in Streams /\ active[part[g].stream] = g /\ g # 0
    BY <1>0, PartFacts DEF PartsInv, OpenActive
  <2>6. k <= g
    BY <1>0, <2>4, <2>5 DEF PartsInv, ActiveNewest
  <2>7. a \notin DeferredRows(g)
    <3>1. a \in Nat
      BY <1>0, RecFacts
    <3> QED
      BY <1>3, <1>5, <1>6, <3>1
  <2>8. a \in Rows(k) \/ (k < g /\ a \in DeferredRows(k))
    BY <1>1, <2>3, <2>6, <2>7
  <2>9. k \in 1..g
    BY <1>1, <2>6
  <2> QED
    BY <2>8, <2>9
<1> QED
  BY <1>2, <1>3, <1>4, <1>5, <1>6

\* A deferred row enters the rows of its part; it may stay in the deferral list.
Joins(n, g) ==
    /\ n \in Ords /\ g \in Gens /\ n \in DeferredRows(g)
    /\ rec' = rec /\ queue' = queue /\ InHand' = InHand /\ Gens' = Gens /\ cfg' = cfg
    /\ stage' \in [Ords -> Stages] /\ stage'[n] # "queued"
    /\ \A m \in Ords \ {n} : stage'[m] = stage[m]
    /\ \A h \in Gens : /\ Rows(h)' = IF h = g THEN Rows(h) \cup {n} ELSE Rows(h)
                       /\ h # g => DeferredRows(h)' = DeferredRows(h)
                       /\ DeferredRows(h)' \subseteq DeferredRows(h)
                       /\ DeferredRows(h) \subseteq DeferredRows(h)' \cup {n}
                       /\ part'[h].stream = part[h].stream /\ part'[h].hour = part[h].hour
                       /\ part'[h].cfg = part[h].cfg

\* A deferred row joins the rows of its part without overtaking any.
LEMMA JoinsInv ==
    ASSUME TypeInv, RoutedRight, RowsInv, NEW n, NEW g, Joins(n, g),
           \A h \in Gens : n \notin Rows(h), stage[n] = "buffered",
           \A a \in Ords : (a < n /\ rec[a].stream = rec[n].stream) =>
                 \E k \in 1..g : a \in Rows(k) \/ (k < g /\ a \in DeferredRows(k))
    PROVE  RoutedRight' /\ Queues' /\ QueuedWhere' /\ OnePart' /\ Order'
<1>0. n \in Ords /\ g \in Gens /\ n \in DeferredRows(g) /\ Gens' = Gens /\ Ords' = Ords /\ rec' = rec
      /\ InQueues' = InQueues /\ InHand' = InHand
  BY DEF Joins, Ords, InQueues
<1>1. RoutedRight'
  <2>1. ASSUME NEW h \in Gens, NEW m \in Rows(h)' \cup DeferredRows(h)'
        PROVE  m \in Rows(h) \cup DeferredRows(h)
    BY <1>0 DEF Joins
  <2>2. \A h \in Gens : /\ part'[h].stream = part[h].stream /\ part'[h].hour = part[h].hour
                        /\ part'[h].cfg = part[h].cfg
    BY DEF Joins
  <2> QED
    BY <1>0, <2>1, <2>2 DEF RoutedRight
<1>2. Queues'
  BY DEF Joins, RowsInv, Queues, ShardOfRow
<1>3. QueuedWhere'
  <2>1. \A m \in Ords : stage'[m] = "queued" <=> stage[m] = "queued"
    BY DEF Joins
  <2> QED
    BY <1>0, <2>1 DEF RowsInv, QueuedWhere, Joins
<1>4. OnePart'
  <2>1. ASSUME NEW h \in Gens, NEW k \in Gens, NEW m \in Rows(h)', m \in Rows(k)' PROVE h = k
    <3>1. CASE m = n
      BY <2>1, <3>1 DEF Joins
    <3>2. CASE m # n
      <4>1. m \in Rows(h) /\ m \in Rows(k)
        BY <2>1, <3>2 DEF Joins
      <4> QED
        BY <4>1 DEF RowsInv, OnePart
    <3> QED
      BY <3>1, <3>2
  <2>2. ASSUME NEW m \in Ords, stage'[m] # "queued"
        PROVE  \E h \in Gens : m \in Rows(h)' \cup DeferredRows(h)'
    <3>1. CASE m = n
      BY <1>0, <3>1 DEF Joins
    <3>2. CASE m # n
      <4>1. stage[m] # "queued"
        BY <2>2, <3>2 DEF Joins
      <4>2. PICK h \in Gens : m \in Rows(h) \cup DeferredRows(h)
        BY <4>1 DEF RowsInv, OnePart
      <4> QED
        BY <3>2, <4>2 DEF Joins
    <3> QED
      BY <3>1, <3>2
  <2> QED
    BY <1>0, <2>1, <2>2 DEF OnePart
<1>5. Order'
  <2>1. SUFFICES ASSUME NEW a \in Ords, NEW b \in Ords, a < b, rec[a].stream = rec[b].stream, NEW h \in Gens
                 PROVE  /\ b \in Rows(h)' =>
                              \E k \in 1..h : a \in Rows(k)' \/ (k < h /\ a \in DeferredRows(k)')
                        /\ b \in DeferredRows(h)' => a \notin InQueues' \cup InHand'
    BY <1>0 DEF Order
  <2>2. ASSUME b \in Rows(h)' PROVE \E k \in 1..h : a \in Rows(k) \/ (k < h /\ a \in DeferredRows(k))
    <3>1. CASE b \in Rows(h)
      BY <2>1, <3>1 DEF RowsInv, Order
    <3>2. CASE b \notin Rows(h)
      <4>1. b = n /\ h = g
        BY <2>2, <3>2 DEF Joins
      <4> QED
        BY <2>1, <4>1
    <3> QED
      BY <3>1, <3>2
  <2>3. ASSUME b \in Rows(h)'
        PROVE  \E k \in 1..h : a \in Rows(k)' \/ (k < h /\ a \in DeferredRows(k)')
    <3>1. PICK k \in 1..h : a \in Rows(k) \/ (k < h /\ a \in DeferredRows(k))
      BY <2>2, <2>3
    <3>2. k \in Gens
      BY PartFacts
    <3>3. CASE a \in Rows(k)'
      BY <3>3
    <3>4. CASE a \notin Rows(k)'
      <4>1. a \notin Rows(k) /\ k < h /\ a \in DeferredRows(k)
        BY <3>1, <3>2, <3>4 DEF Joins
      <4>2. ~(a = n)
        <5>1. a = n => k = g
          BY <1>0, <3>2, <4>1 DEF RowsInv, Waiting
        <5>2. n \in Rows(g)'
          BY <1>0 DEF Joins
        <5> QED
          BY <3>4, <5>1, <5>2
      <4>3. a \in DeferredRows(k)'
        BY <3>2, <4>1, <4>2 DEF Joins
      <4> QED
        BY <4>1, <4>3
    <3> QED
      BY <3>3, <3>4
  <2>4. b \in DeferredRows(h)' => a \notin InQueues \cup InHand
    <3>1. b \in DeferredRows(h)' => b \in DeferredRows(h)
      BY DEF Joins
    <3> QED
      BY <2>1, <3>1 DEF RowsInv, Order
  <2> QED
    BY <1>0, <2>3, <2>4
<1> QED
  BY <1>1, <1>2, <1>3, <1>4, <1>5

\* Typing after a deferred row joined its part.
LEMMA JoinsTypes ==
    ASSUME TypeInv, NEW n, NEW g, Joins(n, g), part' \in Seq(PartType),
           \A h \in Gens : part'[h].folded = part[h].folded,
           UNCHANGED <<active, retiring, pendingHour, members, assoc>>,
           op' \in OpType, op'.files \subseteq Gens,
           loc' \in LocType, loc'.size \subseteq Gens, loc'.pop \in Gens \cup {0}, LoopShapes'
    PROVE  TypeInv'
<1>1. Ords' = Ords /\ Gens' = Gens /\ InHand' = InHand /\ rec' = rec /\ queue' = queue
  BY DEF Joins, Ords
<1>2. Shapes'
  BY <1>1 DEF Joins, TypeInv, Shapes
<1>3. ASSUME NEW h \in Gens PROVE Rows(h)' \cup DeferredRows(h)' \cup part'[h].folded \subseteq Ords
  <2>1. Rows(h) \cup DeferredRows(h) \cup part[h].folded \subseteq Ords
    BY DEF TypeInv, Names
  <2> QED
    BY <2>1 DEF Joins
<1>4. Names'
  BY <1>1, <1>3 DEF TypeInv, Names
<1> QED
  BY <1>2, <1>4 DEF TypeInv

\* A deferred row that fits the frame of its part leaves the list for the buffer.
FromList(n, g) == part' = [part EXCEPT ![g].buf = Append(@, n), ![g].deferred = Tail(@)]

\* What changes when a deferred row is appended.
LEMMA FromListFacts ==
    ASSUME TypeInv, NEW g \in Gens, NEW n \in Nat, part[g].deferred # << >>, FromList(n, g)
    PROVE  /\ Gens' = Gens /\ Len(part') = Len(part) /\ part' \in Seq(PartType)
           /\ part'[g].buf = Append(part[g].buf, n) /\ part'[g].deferred = Tail(part[g].deferred)
           /\ part'[g].claimed = part[g].claimed /\ part'[g].done = part[g].done
           /\ \A h \in Gens : /\ part'[h].stream = part[h].stream /\ part'[h].hour = part[h].hour
                              /\ part'[h].cfg = part[h].cfg /\ part'[h].state = part[h].state
                              /\ part'[h].folded = part[h].folded
                              /\ h # g => part'[h] = part[h]
<1>1. /\ Gens = 1..Len(part) /\ Len(part) \in Nat /\ part \in Seq(PartType)
      /\ \A h \in Gens : part[h] \in PartType
  BY PartFacts DEF TypeInv, Shapes
<1>2. PICK b, d : b = Append(part[g].buf, n) /\ d = Tail(part[g].deferred)
  OBVIOUS
<1>3. b \in Seq(Nat) /\ d \in Seq(Nat)
  BY <1>2, PartFacts, AppendFacts, TailFacts
<1>4. part' = [part EXCEPT ![g] = [part[g] EXCEPT !.buf = b, !.deferred = d]]
  <2>1. part[g] \in PartType /\ part \in [1..Len(part) -> PartType] /\ g \in 1..Len(part)
    BY <1>1
  <2> QED
    BY <1>2, <2>1 DEF FromList, PartType
<1>5. PICK p : p = [part[g] EXCEPT !.buf = b, !.deferred = d]
  OBVIOUS
<1>6. /\ p \in PartType /\ p.buf = b /\ p.deferred = d /\ p.claimed = part[g].claimed
      /\ p.done = part[g].done /\ p.stream = part[g].stream /\ p.hour = part[g].hour
      /\ p.cfg = part[g].cfg /\ p.state = part[g].state /\ p.folded = part[g].folded
  <2>1. part[g] \in PartType
    BY <1>1
  <2> QED
    BY <1>3, <1>5, <2>1 DEF PartType
<1>7. part' = [part EXCEPT ![g] = p]
  BY <1>4, <1>5
<1>8. part' \in Seq(PartType) /\ Len(part') = Len(part) /\ part'[g] = p
      /\ \A h \in Gens : h # g => part'[h] = part[h]
  BY <1>1, <1>6, <1>7
<1>9. Gens' = Gens
  BY <1>1, <1>8 DEF Gens
<1> QED
  BY <1>2, <1>6, <1>8, <1>9

\* A deferred row is appended to the buffer.
LEMMA DeferredAppends ==
    ASSUME WInv, At("deferred"), NEW g \in Gens, part[g].deferred # << >>, part[g].state = "open",
           NEW n, n = Head(part[g].deferred), FromList(n, g),
           UNCHANGED <<rec, queue, stage, active, retiring, pendingHour, assoc, members, cfg, pc,
                       op, loc>>,
           LoopShapes', Commands'
    PROVE  WInv'
<1>0. /\ pc = "deferred" /\ op = NoOp /\ TypeInv /\ RoutedRight /\ PartsInv /\ HandInv /\ RowsInv
      /\ \A h \in Gens : part[h].claimed = {}
  BY AtFacts
<1>1. /\ n \in Ords /\ n \in DeferredRows(g) /\ n \in Nat
      /\ stage[n] = "buffered" /\ \A h \in Gens : n \notin Rows(h)
      /\ \A a \in Ords : (a < n /\ rec[a].stream = rec[n].stream) =>
            \E k \in 1..g : a \in Rows(k) \/ (k < g /\ a \in DeferredRows(k))
  BY <1>0, FirstDeferred, RecFacts
<1>2. /\ Gens' = Gens /\ Len(part') = Len(part) /\ part' \in Seq(PartType)
      /\ part'[g].buf = Append(part[g].buf, n) /\ part'[g].deferred = Tail(part[g].deferred)
      /\ part'[g].claimed = part[g].claimed /\ part'[g].done = part[g].done
      /\ \A h \in Gens : /\ part'[h].stream = part[h].stream /\ part'[h].hour = part[h].hour
                         /\ part'[h].cfg = part[h].cfg /\ part'[h].state = part[h].state
                         /\ part'[h].folded = part[h].folded
                         /\ h # g => part'[h] = part[h]
  BY <1>0, <1>1, FromListFacts
<1>3. part[g].buf \in Seq(Nat) /\ part[g].deferred \in Seq(Nat) /\ Increasing(part[g].deferred)
  BY <1>0, PartFacts DEF RowsInv, Waiting
<1>4. /\ ToSet(part'[g].buf) = ToSet(part[g].buf) \cup {n}
      /\ Increasing(part'[g].deferred)
      /\ ToSet(part'[g].deferred) = ToSet(part[g].deferred) \ {n}
  BY <1>1, <1>2, <1>3, AppendFacts, IncreasingTail
<1>5. \A h \in Gens : /\ Rows(h)' = IF h = g THEN Rows(h) \cup {n} ELSE Rows(h)
                      /\ DeferredRows(h)' = IF h = g THEN DeferredRows(h) \ {n} ELSE DeferredRows(h)
  <2>1. Rows(g)' = Rows(g) \cup {n} /\ DeferredRows(g)' = DeferredRows(g) \ {n}
    BY <1>2, <1>4 DEF Rows, DeferredRows
  <2>2. ASSUME NEW h \in Gens, h # g PROVE Rows(h)' = Rows(h) /\ DeferredRows(h)' = DeferredRows(h)
    BY <1>2, <2>2 DEF Rows, DeferredRows
  <2> QED
    BY <2>1, <2>2
<1>6. Joins(n, g)
  <2>1. stage \in [Ords -> Stages]
    BY <1>0, StageIsSettled
  <2> QED
    BY <1>1, <1>2, <1>5, <2>1 DEF Joins, InHand
<1>7. RoutedRight' /\ Queues' /\ QueuedWhere' /\ OnePart' /\ Order'
  BY <1>0, <1>1, <1>6, JoinsInv
<1>8. TypeInv'
  <2>1. /\ op \in OpType /\ op.files \subseteq Gens
        /\ loc \in LocType /\ loc.size \subseteq Gens /\ loc.pop \in Gens \cup {0}
    BY <1>0 DEF TypeInv, Shapes, Names
  <2> QED
    BY <1>0, <1>2, <1>6, <2>1, JoinsTypes
<1>9. RowStages'
  <2>1. ASSUME NEW h \in Gens
        PROVE  /\ \A m \in ToSet(part'[h].buf) : stage'[m] = "buffered"
               /\ \A m \in part'[h].claimed : stage'[m] \in {"inflight", "durable", "uncertain"}
               /\ \A m \in part'[h].done : stage'[m] = "durable"
               /\ part'[h].claimed \cap part'[h].done = {}
    <3>1. CASE h = g
      BY <1>0, <1>1, <1>2, <1>4, <3>1 DEF RowsInv, RowStages
    <3>2. CASE h # g
      BY <1>0, <1>2, <3>2 DEF RowsInv, RowStages
    <3> QED
      BY <3>1, <3>2
  <2> QED
    BY <1>2, <2>1 DEF RowStages
<1>10. Waiting'
  <2>1. ASSUME NEW h \in Gens, NEW m \in DeferredRows(h)'
        PROVE  stage'[m] = "buffered" /\ \A k \in Gens : m \notin Rows(k)'
    <3>1. m \in DeferredRows(h) /\ m # n
      <4>1. n \in DeferredRows(h) => h = g
        BY <1>0, <1>1 DEF RowsInv, Waiting
      <4> QED
        BY <1>5, <2>1, <4>1
    <3>2. stage[m] = "buffered" /\ \A k \in Gens : m \notin Rows(k)
      BY <1>0, <3>1 DEF RowsInv, Waiting, Popping
    <3> QED
      BY <1>5, <3>1, <3>2
  <2>2. \A h \in Gens : Increasing(part'[h].deferred)
    BY <1>0, <1>2, <1>4 DEF RowsInv, Waiting
  <2>3. \A h, k \in Gens : \A m \in DeferredRows(h)' : m \in DeferredRows(k)' => h = k
    BY <1>0, <1>5 DEF RowsInv, Waiting
  <2> QED
    BY <1>0, <1>2, <2>1, <2>2, <2>3 DEF Waiting
<1>11. ActiveNewest' /\ OpenActive'
  BY <1>0, <1>2, SameParts DEF PartsInv, TypeInv
<1>12. Claims'
  <2>1. \A h \in Gens' : part'[h].claimed = {}
    BY <1>0, <1>2
  <2> QED
    BY <2>1, StillNoClaims
<1>13. HandInv'
  BY <1>0, NoneInHand, EmptyHand DEF HandInv
<1> QED
  BY <1>0, <1>7, <1>8, <1>9, <1>10, <1>11, <1>12, <1>13 DEF WInv, Running, PartsInv, RowsInv

\* One that does not fit is written directly, and leaves the list afterwards.
LEMMA DeferredDirects ==
    ASSUME WInv, At("deferred"), NEW g \in Gens, part[g].deferred # << >>, part[g].state = "open",
           part[g].buf = << >>,
           NEW n, n = Head(part[g].deferred), PlacedIn(n, g, "direct"),
           UNCHANGED <<rec, queue, active, retiring, pendingHour, assoc, members, cfg>>,
           op' = SyncOp({g}), pc' = "pop", loc' = [loc EXCEPT !.pop = g],
           LoopShapes', Commands'
    PROVE  WInv'
<1>0. /\ pc = "deferred" /\ op = NoOp /\ TypeInv /\ RoutedRight /\ PartsInv /\ HandInv /\ RowsInv
      /\ \A h \in Gens : part[h].claimed = {}
  BY AtFacts
<1>1. /\ n \in Ords /\ n \in DeferredRows(g) /\ n \in Nat /\ n = part[g].deferred[1]
      /\ stage[n] = "buffered" /\ \A h \in Gens : n \notin Rows(h)
      /\ \A a \in Ords : (a < n /\ rec[a].stream = rec[n].stream) =>
            \E k \in 1..g : a \in Rows(k) \/ (k < g /\ a \in DeferredRows(k))
  BY <1>0, FirstDeferred, RecFacts
<1>2. PartsPlaced(n, g, "direct") /\ StagesPlaced(n, "direct")
  BY <1>0, <1>1, PlacedFacts DEF Placings
<1>3. /\ Gens' = Gens /\ Len(part') = Len(part) /\ part' \in Seq(PartType)
      /\ \A h \in Gens : /\ part'[h].stream = part[h].stream /\ part'[h].hour = part[h].hour
                         /\ part'[h].cfg = part[h].cfg /\ part'[h].state = part[h].state
                         /\ part'[h].folded = part[h].folded /\ part'[h].buf = part[h].buf
                         /\ part'[h].done = part[h].done /\ part'[h].deferred = part[h].deferred
                         /\ part'[h].claimed = IF h = g THEN {n} ELSE {}
  BY <1>0, <1>2 DEF PartsPlaced
<1>4. /\ stage' \in [Ords -> Stages] /\ stage'[n] = "inflight"
      /\ \A m \in Ords \ {n} : stage'[m] = stage[m]
  BY <1>2 DEF StagesPlaced
<1>5. \A h \in Gens : /\ Rows(h)' = IF h = g THEN Rows(h) \cup {n} ELSE Rows(h)
                      /\ DeferredRows(h)' = DeferredRows(h)
  BY <1>0, <1>3 DEF Rows, DeferredRows
<1>6. /\ loc' \in LocType /\ loc'.pop = g /\ loc'.size = loc.size
      /\ loc'.held = loc.held /\ loc'.roll = loc.roll
      /\ loc.size \subseteq Gens /\ g \in Nat
  <2>1. loc \in LocType /\ g \in Nat /\ loc.size \subseteq Gens
    BY <1>0, PartFacts DEF TypeInv, Shapes, Names
  <2> QED
    BY <2>1 DEF LocType
<1>7. Joins(n, g)
  BY <1>1, <1>3, <1>4, <1>5, <1>6 DEF Joins, InHand
<1>8. RoutedRight' /\ Queues' /\ QueuedWhere' /\ OnePart' /\ Order'
  BY <1>0, <1>1, <1>7, JoinsInv
<1>9. op' \in OpType /\ op'.files = {g} /\ op'.kind = "sync"
  BY <1>6 DEF SyncOp, OpType
<1>10. TypeInv'
  BY <1>0, <1>3, <1>6, <1>7, <1>9, JoinsTypes
<1>11. RowStages'
  <2>1. ASSUME NEW h \in Gens
        PROVE  /\ \A m \in ToSet(part'[h].buf) : stage'[m] = "buffered"
               /\ \A m \in part'[h].claimed : stage'[m] \in {"inflight", "durable", "uncertain"}
               /\ \A m \in part'[h].done : stage'[m] = "durable"
               /\ part'[h].claimed \cap part'[h].done = {}
    <3>1. /\ ToSet(part[h].buf) \subseteq Ords \ {n} /\ part[h].done \subseteq Ords \ {n}
      BY <1>0, <1>1, PartFacts DEF Rows
    <3>2. /\ \A m \in ToSet(part[h].buf) : stage[m] = "buffered"
          /\ \A m \in part[h].done : stage[m] = "durable"
      BY <1>0 DEF RowsInv, RowStages
    <3> QED
      BY <1>3, <1>4, <3>1, <3>2
  <2> QED
    BY <1>3, <2>1 DEF RowStages
<1>12. Waiting'
  <2>1. ASSUME NEW h \in Gens, NEW m \in DeferredRows(h)'
        PROVE  \/ stage'[m] = "buffered" /\ \A k \in Gens : m \notin Rows(k)'
               \/ Popping(h, m)' /\ m \in Rows(h)' /\ stage'[m] # "buffered"
    <3>1. m \in DeferredRows(h) /\ (m = n => h = g)
      BY <1>0, <1>1, <1>5, <2>1 DEF RowsInv, Waiting
    <3>2. CASE m = n
      BY <1>1, <1>3, <1>4, <1>5, <1>6, <3>1, <3>2 DEF Popping
    <3>3. CASE m # n
      <4>1. stage[m] = "buffered" /\ m \in Ords /\ \A k \in Gens : m \notin Rows(k)
        BY <1>0, <3>1, PartFacts DEF RowsInv, Waiting, Popping
      <4> QED
        BY <1>4, <1>5, <3>3, <4>1
    <3> QED
      BY <3>2, <3>3
  <2>2. \A h \in Gens : Increasing(part'[h].deferred)
    BY <1>0, <1>3 DEF RowsInv, Waiting
  <2>3. \A h, k \in Gens : \A m \in DeferredRows(h)' : m \in DeferredRows(k)' => h = k
    BY <1>0, <1>5 DEF RowsInv, Waiting
  <2>4. /\ loc'.pop # 0 /\ part'[loc'.pop].deferred # << >>
        /\ part'[loc'.pop].deferred[1] \in Rows(loc.pop)'
    <3>1. loc'.pop = g /\ part'[g].deferred # << >> /\ part'[g].deferred[1] = n /\ n \in Rows(g)' /\ g # 0
      BY <1>0, <1>1, <1>3, <1>5, <1>6, PartFacts
    <3> QED
      BY <3>1 DEF Rows
  <2> QED
    BY <1>3, <2>1, <2>2, <2>3, <2>4 DEF Waiting
<1>13. ActiveNewest' /\ OpenActive'
  BY <1>0, <1>3, SameParts DEF PartsInv, TypeInv, Making
<1>14. Claims'
  BY <1>3, <1>9 DEF Claims
<1>15. HandInv'
  BY <1>0, <1>6, NoneInHand, EmptyHand DEF HandInv
<1> QED
  BY <1>8, <1>10, <1>11, <1>12, <1>13, <1>14, <1>15 DEF WInv, Running, PartsInv, RowsInv

\* The next deferred row.
LEMMA DeferredRowW == ASSUME WInv, DeferredRow PROVE WInv'
<1>0. /\ pc = "deferred" /\ op = NoOp /\ At("deferred") /\ TypeInv /\ Running /\ Commands /\ HandInv
      /\ PartsInv
  BY AtFacts DEF DeferredRow
<1>1. PICK g : g = Min(Drainable)
  OBVIOUS
<1>2. PICK n : n = Head(part[g].deferred)
  OBVIOUS
<1>3. PICK out : out = AppendRow(g, n, TRUE)
  OBVIOUS
<1>4. g \in Gens /\ part[g].deferred # << >> /\ part[g].claimed = {}
  BY <1>0, <1>1, DrainableFacts DEF DeferredRow
<1>5. \/ out = "error" /\ Terminal("contract")
      \/ /\ out = "append" /\ FromList(n, g)
         /\ UNCHANGED <<ingressVars, stage, active, retiring, pendingHour, assoc,
                               loopVars, ctlVars, histVars>>
      \/ /\ out = "direct" /\ PlacedIn(n, g, "direct")
         /\ op' = SyncOp({g})
         /\ pc' = "pop" /\ loc' = [loc EXCEPT !.pop = g]
         /\ UNCHANGED <<ingressVars, active, retiring, pendingHour, assoc, loopVars, mode,
                               nest, wakeAfter, members, oldest, cause, histVars>>
      \/ /\ out = "rollover"
         /\ loc' = [loc EXCEPT !.size = @ \cup {g}]
         /\ UNCHANGED <<ingressVars, stage, partVars, loopVars, pc, mode, op, nest,
                               wakeAfter, members, oldest, cause, histVars>>
  BY <1>1, <1>2, <1>3 DEF DeferredRow, FromList, PlacedIn
<1>6. CASE out = "error"
  BY <1>5, <1>6, TerminalNowW
<1>7. CASE out = "append"
  <2>1. part[g].state = "open"
    BY <1>3, <1>7 DEF AppendRow, Accepts
  <2>2. /\ FromList(n, g)
        /\ UNCHANGED <<rec, queue, stage, active, retiring, pendingHour, assoc, members, cfg, pc,
                       op, loc>>
        /\ UNCHANGED <<work, due, cmds, cmd, life, adm, mode, nest, wakeAfter, oldest, cause,
                       submitted, closing>>
    BY <1>5, <1>7 DEF ingressVars, loopVars, ctlVars, histVars
  <2>3. LoopShapes' /\ Commands'
    BY <1>0, <2>2 DEF TypeInv, Shapes, LoopShapes, Commands
  <2> QED
    BY <1>0, <1>2, <1>4, <2>1, <2>2, <2>3, DeferredAppends
<1>8. CASE out = "direct"
  <2>1. part[g].state = "open" /\ part[g].buf = << >>
    BY <1>3, <1>8 DEF AppendRow, Accepts
  <2>2. /\ PlacedIn(n, g, "direct")
        /\ UNCHANGED <<rec, queue, active, retiring, pendingHour, assoc, members, cfg>>
        /\ op' = SyncOp({g}) /\ pc' = "pop" /\ loc' = [loc EXCEPT !.pop = g]
        /\ UNCHANGED <<work, due, cmds, cmd, life, adm, mode, nest, wakeAfter, oldest, cause,
                       submitted, closing>>
    BY <1>5, <1>8 DEF ingressVars, loopVars, histVars
  <2>3. LoopShapes' /\ Commands'
    BY <1>0, <2>2 DEF TypeInv, Shapes, LoopShapes, Commands
  <2> QED
    BY <1>0, <1>2, <1>4, <2>1, <2>2, <2>3, DeferredDirects
<1>9. CASE out = "rollover"
  <2>1. /\ UNCHANGED <<rec, queue, stage, part, active, retiring, pendingHour, assoc, cfg, members,
                       op, pc>>
        /\ UNCHANGED <<work, due, cmds, cmd, life, adm, mode, nest, wakeAfter, oldest, cause,
                       submitted, closing>>
        /\ loc' = [loc EXCEPT !.size = @ \cup {g}]
    BY <1>5, <1>9 DEF ingressVars, partVars, loopVars, histVars
  <2>2. LoopShapes' /\ Commands'
    BY <1>0, <2>1 DEF TypeInv, Shapes, LoopShapes, Commands
  <2>3. /\ loc' \in LocType /\ loc'.size \subseteq Gens /\ loc'.pop \in Gens \cup {0}
        /\ loc'.held = loc.held /\ loc'.roll = loc.roll
    <3>1. loc \in LocType /\ loc.size \subseteq Gens /\ loc.pop \in Gens \cup {0} /\ g \in Nat
      BY <1>0, <1>4, PartFacts DEF TypeInv, Shapes, Names
    <3> QED
      BY <1>4, <2>1, <3>1 DEF LocType
  <2>4. loc.held = << >> /\ loc.roll = << >>
    BY <1>0, NoneInHand DEF HandInv
  <2> QED
    BY <1>0, <2>1, <2>2, <2>3, <2>4, CalmOpStep DEF EmptyHands, Making
<1> QED
  BY <1>5, <1>6, <1>7, <1>8, <1>9

\* The list of part g loses its head.
OffList(g) == part' = [part EXCEPT ![g].deferred = Tail(@)]

\* What changes when a written row leaves the deferral list.
LEMMA OffListFacts ==
    ASSUME TypeInv, NEW g \in Gens, part[g].deferred # << >>, OffList(g)
    PROVE  /\ Gens' = Gens /\ Len(part') = Len(part) /\ part' \in Seq(PartType)
           /\ part'[g].deferred = Tail(part[g].deferred)
           /\ \A h \in Gens : /\ part'[h].stream = part[h].stream /\ part'[h].hour = part[h].hour
                              /\ part'[h].cfg = part[h].cfg /\ part'[h].state = part[h].state
                              /\ part'[h].folded = part[h].folded /\ part'[h].buf = part[h].buf
                              /\ part'[h].claimed = part[h].claimed /\ part'[h].done = part[h].done
                              /\ h # g => part'[h].deferred = part[h].deferred
<1>1. /\ Gens = 1..Len(part) /\ Len(part) \in Nat /\ part \in Seq(PartType)
      /\ \A h \in Gens : part[h] \in PartType
  BY PartFacts DEF TypeInv, Shapes
<1>2. PICK d : d = Tail(part[g].deferred)
  OBVIOUS
<1>3. d \in Seq(Nat)
  BY <1>2, PartFacts, TailFacts
<1>4. part' = [part EXCEPT ![g] = [part[g] EXCEPT !.deferred = d]]
  BY <1>2 DEF OffList
<1>5. PICK p : p = [part[g] EXCEPT !.deferred = d]
  OBVIOUS
<1>6. /\ p \in PartType /\ p.buf = part[g].buf /\ p.deferred = d /\ p.claimed = part[g].claimed
      /\ p.done = part[g].done /\ p.stream = part[g].stream /\ p.hour = part[g].hour
      /\ p.cfg = part[g].cfg /\ p.state = part[g].state /\ p.folded = part[g].folded
  <2>1. part[g] \in PartType
    BY <1>1
  <2> QED
    BY <1>3, <1>5, <2>1 DEF PartType
<1>7. part' = [part EXCEPT ![g] = p]
  BY <1>4, <1>5
<1>8. part' \in Seq(PartType) /\ Len(part') = Len(part) /\ part'[g] = p
      /\ \A h \in Gens : h # g => part'[h] = part[h]
  BY <1>1, <1>6, <1>7
<1>9. Gens' = Gens
  BY <1>1, <1>8 DEF Gens
<1> QED
  BY <1>2, <1>6, <1>8, <1>9

\* A deferred row that was written directly leaves its list.
LEMMA PopDeferredW == ASSUME WInv, PopDeferred PROVE WInv'
<1>0. /\ pc = "pop" /\ op = NoOp /\ TypeInv /\ RoutedRight /\ PartsInv /\ HandInv /\ RowsInv /\ Commands
      /\ \A h \in Gens : part[h].claimed = {}
  BY AtFacts DEF PopDeferred
<1>1. PICK g : g = loc.pop
  OBVIOUS
<1>2. PICK n : n = part[g].deferred[1]
  OBVIOUS
<1>3. /\ g \in Gens /\ part[g].deferred # << >> /\ n \in Rows(g)
      /\ part[g].deferred \in Seq(Nat) /\ n = Head(part[g].deferred) /\ Increasing(part[g].deferred)
  <2>1. /\ g \in Gens /\ part[g].deferred # << >> /\ n \in Rows(g)
    BY <1>0, <1>1, <1>2 DEF RowsInv, Waiting, TypeInv, Names
  <2> QED
    BY <1>0, <1>2, <2>1, PartFacts, TailFacts DEF RowsInv, Waiting
<1>4. /\ UNCHANGED <<rec, queue, stage, active, retiring, pendingHour, assoc, members, cfg, op>>
      /\ UNCHANGED <<work, due, cmds, cmd, life, adm, mode, nest, wakeAfter, oldest, cause,
                     submitted, closing>>
      /\ pc' = "deferred" /\ loc' = [loc EXCEPT !.pop = 0] /\ OffList(g)
  BY <1>1 DEF PopDeferred, OffList, ingressVars, loopVars, histVars
<1>5. LoopShapes' /\ Commands'
  BY <1>0, <1>4 DEF TypeInv, Shapes, LoopShapes, Commands
<1>6. /\ Gens' = Gens /\ Len(part') = Len(part) /\ part' \in Seq(PartType)
      /\ part'[g].deferred = Tail(part[g].deferred)
      /\ \A h \in Gens : /\ part'[h].stream = part[h].stream /\ part'[h].hour = part[h].hour
                         /\ part'[h].cfg = part[h].cfg /\ part'[h].state = part[h].state
                         /\ part'[h].folded = part[h].folded /\ part'[h].buf = part[h].buf
                         /\ part'[h].claimed = part[h].claimed /\ part'[h].done = part[h].done
                         /\ h # g => part'[h].deferred = part[h].deferred
  BY <1>0, <1>3, <1>4, OffListFacts
<1>7. Increasing(part'[g].deferred) /\ ToSet(part'[g].deferred) = ToSet(part[g].deferred) \ {n}
  BY <1>3, <1>6, IncreasingTail
<1>8. \A h \in Gens : /\ Rows(h)' = Rows(h)
                      /\ DeferredRows(h)' = IF h = g THEN DeferredRows(h) \ {n} ELSE DeferredRows(h)
  BY <1>6, <1>7 DEF Rows, DeferredRows
<1>9. /\ loc' \in LocType /\ loc'.size = loc.size /\ loc'.pop = 0
      /\ loc'.held = loc.held /\ loc'.roll = loc.roll /\ InHand' = InHand
  <2>1. loc \in LocType
    BY <1>0 DEF TypeInv, Shapes
  <2>2. /\ loc' \in LocType /\ loc'.size = loc.size /\ loc'.pop = 0
        /\ loc'.held = loc.held /\ loc'.roll = loc.roll
    BY <1>4, <2>1 DEF LocType
  <2> QED
    BY <2>2 DEF InHand
<1>10. Ords' = Ords /\ InQueues' = InQueues
  BY <1>4 DEF Ords, InQueues
<1>11. TypeInv'
  <2>1. Shapes'
    BY <1>0, <1>4, <1>5, <1>6, <1>9, <1>10 DEF TypeInv, Shapes
  <2>2. ASSUME NEW h \in Gens PROVE Rows(h)' \cup DeferredRows(h)' \cup part'[h].folded \subseteq Ords
    <3>1. Rows(h) \cup DeferredRows(h) \cup part[h].folded \subseteq Ords
      BY <1>0 DEF TypeInv, Names
    <3> QED
      BY <1>6, <1>8, <3>1
  <2>3. Names'
    BY <1>0, <1>4, <1>6, <1>9, <1>10, <2>2 DEF TypeInv, Names
  <2> QED
    BY <2>1, <2>3 DEF TypeInv
<1>12. RoutedRight'
  <2>1. \A h \in Gens : Rows(h)' \cup DeferredRows(h)' \subseteq Rows(h) \cup DeferredRows(h)
    BY <1>8
  <2> QED
    BY <1>0, <1>4, <1>6, <2>1 DEF RoutedRight
<1>13. Queues' /\ QueuedWhere' /\ RowStages'
  BY <1>0, <1>4, <1>6, <1>9, <1>10 DEF RowsInv, Queues, QueuedWhere, RowStages, ShardOfRow
<1>14. OnePart'
  <2>1. ASSUME NEW m \in Ords, stage[m] # "queued"
        PROVE  \E h \in Gens : m \in Rows(h)' \cup DeferredRows(h)'
    <3>1. CASE m = n
      BY <1>3, <1>8, <3>1
    <3>2. CASE m # n
      <4>1. PICK h \in Gens : m \in Rows(h) \cup DeferredRows(h)
        BY <1>0, <2>1 DEF RowsInv, OnePart
      <4> QED
        BY <1>8, <3>2, <4>1
    <3> QED
      BY <3>1, <3>2
  <2>2. \A h, k \in Gens : \A m \in Rows(h)' : m \in Rows(k)' => h = k
    BY <1>0, <1>8 DEF RowsInv, OnePart
  <2> QED
    BY <1>4, <1>6, <1>10, <2>1, <2>2 DEF OnePart
<1>15. Waiting'
  <2>1. ASSUME NEW h \in Gens, NEW m \in DeferredRows(h)'
        PROVE  stage'[m] = "buffered" /\ \A k \in Gens : m \notin Rows(k)'
    <3>1. m \in DeferredRows(h) /\ ~Popping(h, m)
      BY <1>1, <1>2, <1>8, <2>1 DEF Popping
    <3>2. stage[m] = "buffered" /\ \A k \in Gens : m \notin Rows(k)
      BY <1>0, <3>1 DEF RowsInv, Waiting
    <3> QED
      BY <1>4, <1>8, <3>2
  <2>2. \A h \in Gens : Increasing(part'[h].deferred)
    BY <1>0, <1>6, <1>7 DEF RowsInv, Waiting
  <2>3. \A h, k \in Gens : \A m \in DeferredRows(h)' : m \in DeferredRows(k)' => h = k
    BY <1>0, <1>8 DEF RowsInv, Waiting
  <2> QED
    BY <1>4, <1>6, <2>1, <2>2, <2>3 DEF Waiting
<1>16. Order'
  <2>1. SUFFICES ASSUME NEW a \in Ords, NEW b \in Ords, a < b, rec[a].stream = rec[b].stream, NEW h \in Gens
                 PROVE  /\ b \in Rows(h)' =>
                              \E k \in 1..h : a \in Rows(k)' \/ (k < h /\ a \in DeferredRows(k)')
                        /\ b \in DeferredRows(h)' => a \notin InQueues' \cup InHand'
    BY <1>4, <1>6, <1>10 DEF Order
  <2>2. ASSUME b \in Rows(h)
        PROVE  \E k \in 1..h : a \in Rows(k)' \/ (k < h /\ a \in DeferredRows(k)')
    <3>1. PICK k \in 1..h : a \in Rows(k) \/ (k < h /\ a \in DeferredRows(k))
      BY <1>0, <2>1, <2>2 DEF RowsInv, Order
    <3>2. k \in Gens
      BY <1>0, PartFacts
    <3> QED
      BY <1>3, <1>8, <3>1, <3>2
  <2>3. b \in DeferredRows(h) => a \notin InQueues \cup InHand
    BY <1>0, <2>1 DEF RowsInv, Order
  <2> QED
    BY <1>8, <1>9, <1>10, <2>2, <2>3
<1>17. ActiveNewest' /\ OpenActive'
  BY <1>0, <1>4, <1>6, SameParts DEF PartsInv, TypeInv, Making
<1>18. Claims'
  <2>1. \A h \in Gens' : part'[h].claimed = {}
    BY <1>0, <1>6
  <2> QED
    BY <2>1, StillNoClaims
<1>19. HandInv'
  BY <1>0, <1>4, <1>9, NoneInHand, EmptyHand DEF HandInv
<1> QED
  BY <1>4, <1>5, <1>11, <1>12, <1>13, <1>14, <1>15, <1>16, <1>17, <1>18, <1>19
     DEF WInv, Running, PartsInv, RowsInv
-----------------------------------------------------------------------------
(* Accepting *)

\* A new record r of stream s, queued behind the others.
Accepted(n, r) ==
    /\ rec' = Append(rec, r) /\ stage' = Append(stage, "queued")
    /\ queue' = [queue EXCEPT ![ShardOf[r.stream]] = Append(@, n)]

\* What accepting a record changes.
LEMMA AcceptedFacts ==
    ASSUME TypeInv, Queues, NEW n, n = Len(rec) + 1, NEW r \in RecType, Accepted(n, r)
    PROVE  /\ n \in Nat /\ n \notin Ords /\ \A m \in Ords : m < n
           /\ Ords' = Ords \cup {n} /\ rec' \in Seq(RecType) /\ stage' \in [Ords' -> Stages]
           /\ rec'[n] = r /\ stage'[n] = "queued"
           /\ \A m \in Ords : rec'[m] = rec[m] /\ stage'[m] = stage[m]
           /\ queue' \in [Shards -> Seq(Nat)] /\ Queues'
           /\ \A t \in Shards : ToSet(queue'[t]) \subseteq ToSet(queue[t]) \cup {n}
           /\ InQueues' = InQueues \cup {n}
<1>1. Ords = 1..Len(rec) /\ Len(rec) \in Nat /\ rec \in Seq(RecType)
  BY RecFacts DEF TypeInv, Shapes
<1>2. stage \in Seq(Stages) /\ Len(stage) = Len(rec)
  <2>1. stage \in [1..Len(rec) -> Stages]
    BY <1>1, StageIsSettled
  <2> QED
    BY <1>1, <2>1
<1>3. n \in Nat /\ n \notin Ords /\ \A m \in Ords : m < n
  BY <1>1
<1>4. rec' \in Seq(RecType) /\ Len(rec') = n /\ rec'[n] = r /\ \A m \in Ords : rec'[m] = rec[m]
  BY <1>1, AppendFacts DEF Accepted
<1>5. Ords' = Ords \cup {n} /\ Ords' = 1..n
  BY <1>1, <1>4 DEF Ords
<1>6. /\ stage' \in Seq(Stages) /\ Len(stage') = n /\ stage'[n] = "queued"
      /\ \A m \in Ords : stage'[m] = stage[m]
  <2>1. "queued" \in Stages
    BY DEF Stages
  <2> QED
    BY <1>1, <1>2, <2>1, AppendFacts DEF Accepted
<1>7. stage' \in [Ords' -> Stages]
  BY <1>5, <1>6
<1>8. PICK s : s = ShardOf[r.stream]
  OBVIOUS
<1>9. s \in Shards
  <2>1. r.stream \in Streams
    BY DEF RecType
  <2> QED
    BY <1>8, <2>1, ServiceAssumption
<1>10. /\ queue'[s] = Append(queue[s], n) /\ queue[s] \in Seq(Nat)
       /\ \A t \in Shards \ {s} : queue'[t] = queue[t] /\ queue[t] \in Seq(Nat)
       /\ DOMAIN queue' = Shards /\ queue' = [t \in Shards |-> queue'[t]]
  BY <1>8, <1>9 DEF Accepted, TypeInv, Shapes
<1>11. queue'[s] \in Seq(Nat) /\ ToSet(queue'[s]) = ToSet(queue[s]) \cup {n}
  BY <1>3, <1>10, AppendFacts
<1>12. queue' \in [Shards -> Seq(Nat)]
  BY <1>10, <1>11
<1>13. ASSUME NEW t \in Shards
       PROVE  ToSet(queue'[t]) = IF t = s THEN ToSet(queue[t]) \cup {n} ELSE ToSet(queue[t])
  BY <1>10, <1>11
<1>14. InQueues' = InQueues \cup {n}
  BY <1>9, <1>13 DEF InQueues
<1>15. Queues'
  <2>1. ASSUME NEW t \in Shards
        PROVE  Increasing(queue'[t]) /\ \A m \in ToSet(queue'[t]) : ShardOfRow(m)' = t
    <3>1. /\ Increasing(queue[t]) /\ ToSet(queue[t]) \subseteq Ords
          /\ \A m \in ToSet(queue[t]) : ShardOfRow(m) = t
      BY QueueFacts DEF Queues
    <3>2. \A m \in ToSet(queue[t]) : ShardOfRow(m)' = t
      BY <1>4, <3>1 DEF ShardOfRow
    <3>3. ShardOfRow(n)' = s
      BY <1>4, <1>8 DEF ShardOfRow
    <3>4. Increasing(queue'[t])
      <4>1. CASE t = s
        BY <1>3, <1>10, <3>1, <4>1, IncreasingAppend
      <4>2. CASE t # s
        BY <1>10, <3>1, <4>2
      <4> QED
        BY <4>1, <4>2
    <3> QED
      BY <1>13, <3>2, <3>3, <3>4
  <2> QED
    BY <2>1 DEF Queues
<1> QED
  BY <1>3, <1>4, <1>5, <1>6, <1>7, <1>12, <1>13, <1>14, <1>15

\* A record is accepted: it is newer than every other.
LEMMA TryAcceptW ==
    ASSUME WInv, NEW s \in Streams, NEW h \in Hours, NEW big \in BigRows, NEW targets \in TargetSets,
           TryAccept(s, h, big, targets)
    PROVE  WInv'
<1>0. pc # "stopped" /\ TypeInv /\ RoutedRight /\ Running /\ HandInv /\ PartsInv /\ RowsInv /\ Commands
      /\ Queues
  BY StillRuns DEF TryAccept, Running, RowsInv
<1>1. PICK n : n = Len(rec) + 1
  OBVIOUS
<1>2. PICK r : r = [stream |-> s, hour |-> h, cfg |-> cfg, big |-> big,
                    targets |-> {active[t] : t \in targets}]
  OBVIOUS
<1>3. /\ UNCHANGED <<part, active, retiring, pendingHour, assoc, members, cfg, pc, op, loc>>
      /\ UNCHANGED <<due, cmds, cmd, life, adm, mode, nest, wakeAfter, oldest, cause,
                     submitted, closing>>
      /\ work' = TRUE
      /\ \A t \in targets : active[t] # 0
      /\ rec' = Append(rec, r) /\ stage' = Append(stage, "queued")
      /\ queue' = [queue EXCEPT ![ShardOf[s]] = Append(@, n)]
  BY <1>1, <1>2 DEF TryAccept, Registered, partVars, ctlVars, histVars
<1>4. {active[t] : t \in targets} \subseteq Gens /\ Gens \subseteq Nat
  <2>1. targets \subseteq Streams
    BY ServiceAssumption
  <2> QED
    BY <1>0, <1>3, <2>1, PartFacts DEF TypeInv, Names
<1>5. r \in RecType /\ r.stream = s /\ r.cfg = cfg /\ r.targets \subseteq Gens
  <2>1. big \in BOOLEAN /\ cfg \in Nat
    BY <1>0, ServiceAssumption DEF TypeInv, Shapes, LoopShapes
  <2> QED
    BY <1>2, <1>4, <2>1 DEF RecType
<1>6. Accepted(n, r)
  BY <1>3, <1>5 DEF Accepted
<1>7. /\ n \in Nat /\ n \notin Ords /\ \A m \in Ords : m < n
      /\ Ords' = Ords \cup {n} /\ rec' \in Seq(RecType) /\ stage' \in [Ords' -> Stages]
      /\ rec'[n] = r /\ stage'[n] = "queued"
      /\ \A m \in Ords : rec'[m] = rec[m] /\ stage'[m] = stage[m]
      /\ queue' \in [Shards -> Seq(Nat)] /\ Queues'
      /\ \A t \in Shards : ToSet(queue'[t]) \subseteq ToSet(queue[t]) \cup {n}
      /\ InQueues' = InQueues \cup {n}
  BY <1>0, <1>1, <1>5, <1>6, AcceptedFacts
<1>8. /\ InHand' = InHand /\ Gens' = Gens /\ InHand \subseteq Ords
      /\ \A g \in Gens : /\ Rows(g)' = Rows(g) /\ DeferredRows(g)' = DeferredRows(g)
                         /\ Rows(g) \subseteq Ords /\ DeferredRows(g) \subseteq Ords
  BY <1>0, <1>3, HandFacts, PartFacts DEF InHand, Gens, Rows, DeferredRows
<1>9. LoopShapes' /\ Commands'
  BY <1>0, <1>3 DEF TypeInv, Shapes, LoopShapes, Commands
<1>10. TypeInv'
  <2>1. Shapes'
    BY <1>0, <1>3, <1>7, <1>9 DEF TypeInv, Shapes
  <2>2. \A m \in Ords' : rec'[m].targets \subseteq Gens
    BY <1>0, <1>5, <1>7 DEF TypeInv, Names
  <2>3. \A t \in Shards : ToSet(queue'[t]) \subseteq Ords'
    BY <1>0, <1>7, QueueFacts
  <2>4. ASSUME NEW g \in Gens
        PROVE  Rows(g)' \cup DeferredRows(g)' \cup part'[g].folded \subseteq Ords'
    <3>1. Rows(g) \cup DeferredRows(g) \cup part[g].folded \subseteq Ords
      BY <1>0 DEF TypeInv, Names
    <3> QED
      BY <1>3, <1>7, <1>8, <3>1
  <2>5. /\ \A t \in Streams : active[t] \in Gens \cup {0}
        /\ retiring \subseteq Gens /\ pendingHour \subseteq Gens /\ members \subseteq Gens
        /\ assoc \subseteq Ords
        /\ op.files \subseteq Gens /\ loc.size \subseteq Gens /\ loc.pop \in Gens \cup {0}
    BY <1>0 DEF TypeInv, Names
  <2>6. Names'
    BY <1>3, <1>7, <1>8, <2>2, <2>3, <2>4, <2>5 DEF Names
  <2> QED
    BY <2>1, <2>6 DEF TypeInv
<1>11. RoutedRight'
  <2>1. ASSUME NEW g \in Gens, NEW m \in Rows(g) \cup DeferredRows(g)
        PROVE  /\ rec'[m].stream = part[g].stream /\ rec'[m].hour = part[g].hour
               /\ rec'[m].cfg = part[g].cfg
    <3>1. m \in Ords
      BY <1>8
    <3>2. rec'[m] = rec[m]
      BY <1>7, <3>1
    <3> QED
      BY <1>0, <3>2 DEF RoutedRight
  <2> QED
    BY <1>3, <1>8, <2>1 DEF RoutedRight
<1>12. QueuedWhere'
  <2>1. n \notin InHand /\ n \notin InQueues
    BY <1>0, <1>7, <1>8, QueueFacts DEF InQueues
  <2>2. ASSUME NEW m \in Ords'
        PROVE  /\ stage'[m] = "queued" <=> m \in InQueues' \cup InHand'
               /\ stage'[m] = "queued" => rec'[m].cfg = cfg
    <3>1. CASE m = n
      BY <1>5, <1>7, <3>1
    <3>2. CASE m \in Ords /\ m # n
      BY <1>0, <1>7, <1>8, <3>2 DEF RowsInv, QueuedWhere
    <3> QED
      BY <1>7, <3>1, <3>2
  <2>3. InQueues' \cap InHand' = {}
    BY <1>0, <1>7, <1>8, <2>1 DEF RowsInv, QueuedWhere
  <2> QED
    BY <1>3, <2>2, <2>3 DEF QueuedWhere
<1>13. RowStages'
  <2>1. ASSUME NEW g \in Gens
        PROVE  /\ \A m \in ToSet(part[g].buf) : stage'[m] = "buffered"
               /\ \A m \in part[g].claimed : stage'[m] \in {"inflight", "durable", "uncertain"}
               /\ \A m \in part[g].done : stage'[m] = "durable"
               /\ part[g].claimed \cap part[g].done = {}
    <3>1. /\ ToSet(part[g].buf) \subseteq Ords /\ part[g].claimed \subseteq Ords
          /\ part[g].done \subseteq Ords
      BY <1>0, PartFacts
    <3> QED
      BY <1>0, <1>7, <3>1 DEF RowsInv, RowStages
  <2> QED
    BY <1>3, <1>8, <2>1 DEF RowStages
<1>14. OnePart'
  BY <1>0, <1>7, <1>8 DEF RowsInv, OnePart
<1>15. Waiting'
  <2>1. ASSUME NEW g \in Gens, NEW m \in DeferredRows(g)
        PROVE  \/ stage'[m] = "buffered" /\ \A k \in Gens : m \notin Rows(k)'
               \/ Popping(g, m)' /\ m \in Rows(g)' /\ stage'[m] # "buffered"
    <3>1. m \in Ords /\ (Popping(g, m) => Popping(g, m)')
      BY <1>3, <1>8 DEF Popping
    <3>2. \/ stage[m] = "buffered" /\ \A k \in Gens : m \notin Rows(k)
          \/ Popping(g, m) /\ m \in Rows(g) /\ stage[m] # "buffered"
      BY <1>0 DEF RowsInv, Waiting
    <3> QED
      BY <1>7, <1>8, <3>1, <3>2
  <2>2. \A g \in Gens : Increasing(part[g].deferred)
    BY <1>0 DEF RowsInv, Waiting
  <2>3. /\ \A g, k \in Gens : \A m \in DeferredRows(g) : m \in DeferredRows(k) => g = k
        /\ pc = "pop" => /\ loc.pop # 0 /\ part[loc.pop].deferred # << >>
                         /\ part[loc.pop].deferred[1] \in Rows(loc.pop)
    BY <1>0 DEF RowsInv, Waiting
  <2>4. \A g, k \in Gens : \A m \in DeferredRows(g)' : m \in DeferredRows(k)' => g = k
    BY <1>8, <2>3
  <2>5. Rows(loc.pop)' = Rows(loc.pop)
    BY <1>3 DEF Rows
  <2>6. \A g \in Gens : DeferredRows(g)' = DeferredRows(g)
    BY <1>8
  <2> QED
    BY <1>3, <1>8, <2>1, <2>2, <2>3, <2>4, <2>5, <2>6 DEF Waiting
<1>16. Order'
  <2>1. SUFFICES ASSUME NEW a \in Ords', NEW b \in Ords', a < b, rec'[a].stream = rec'[b].stream,
                        NEW k \in Gens
                 PROVE  /\ b \in Rows(k) =>
                              \E g \in 1..k : a \in Rows(g)' \/ (g < k /\ a \in DeferredRows(g)')
                        /\ b \in DeferredRows(k) => a \notin InQueues' \cup InHand'
    BY <1>8 DEF Order
  <2>2. ASSUME b \in Rows(k) \/ b \in DeferredRows(k)
        PROVE  a \in Ords /\ b \in Ords /\ a # n /\ rec[a].stream = rec[b].stream
    <3>1. b \in Ords
      BY <1>8, <2>2
    <3>2. a # n
      <4>1. b < n /\ b \in Nat
        BY <1>0, <1>7, <3>1, RecFacts
      <4> QED
        BY <1>7, <2>1, <4>1
    <3> QED
      BY <1>7, <2>1, <3>1, <3>2
  <2>3. ASSUME b \in Rows(k)
        PROVE  \E g \in 1..k : a \in Rows(g)' \/ (g < k /\ a \in DeferredRows(g)')
    <3>1. PICK g \in 1..k : a \in Rows(g) \/ (g < k /\ a \in DeferredRows(g))
      BY <1>0, <2>1, <2>2, <2>3 DEF RowsInv, Order
    <3>2. g \in Gens
      BY <1>0, PartFacts
    <3> QED
      BY <1>8, <3>1, <3>2
  <2>4. ASSUME b \in DeferredRows(k) PROVE a \notin InQueues' \cup InHand'
    <3>1. a \notin InQueues \cup InHand
      BY <1>0, <2>1, <2>2, <2>4 DEF RowsInv, Order
    <3> QED
      BY <1>7, <1>8, <2>2, <2>4, <3>1
  <2> QED
    BY <2>3, <2>4
<1>17. ActiveNewest' /\ OpenActive'
  BY <1>0, <1>3, SameActive DEF PartsInv
<1>18. Claims'
  BY <1>0, <1>3, <1>8, SameClaims DEF PartsInv
<1>19. HandInv'
  <2>1. \A m \in InHand : /\ m \in Ords /\ ShardOfRow(m)' = ShardOfRow(m) /\ PartOf(m)' = PartOf(m)
                          /\ rec'[m] = rec[m] /\ ShardOfRow(m) \in Shards
    BY <1>0, <1>3, <1>7, <1>8, RecFacts DEF ShardOfRow, PartOf
  <2>2. HandWhere'
    BY <1>0, <1>3 DEF HandInv, HandWhere
  <2>3. HandOnce'
    BY <1>0, <1>3, <1>8, <2>1 DEF HandInv, HandOnce
  <2>4. HandFirst'
    <3>1. ASSUME NEW m \in InHand
          PROVE  /\ ShardOfRow(m)' \in loc.busy
                 /\ loc.from = "cold" \/ ShardOfRow(m)' \notin loc.todo
                 /\ \A k \in ToSet(queue'[ShardOfRow(m)']) : m < k
      <4>1. /\ ShardOfRow(m) \in loc.busy /\ (loc.from = "cold" \/ ShardOfRow(m) \notin loc.todo)
            /\ \A k \in ToSet(queue[ShardOfRow(m)]) : m < k
        BY <1>0 DEF HandInv, HandFirst
      <4>2. /\ m < n /\ ShardOfRow(m)' = ShardOfRow(m) /\ ShardOfRow(m) \in Shards
            /\ ToSet(queue'[ShardOfRow(m)]) \subseteq ToSet(queue[ShardOfRow(m)]) \cup {n}
        BY <1>7, <2>1
      <4> QED
        BY <4>1, <4>2
    <3> QED
      BY <1>3, <1>8, <3>1 DEF HandFirst
  <2>5. ToSet(loc.held) \subseteq InHand /\ ToSet(loc.roll) \subseteq InHand
    BY DEF InHand
  <2>6. ASSUME pc = "ensured" PROVE loc.held[1] \in InHand
    <3>1. loc.held \in Seq(Nat) /\ Len(loc.held) = 1
      BY <1>0, <2>6, HandFacts DEF HandInv, HandPart
    <3>2. loc.held[1] \in ToSet(loc.held)
      BY <3>1, ToSetFacts
    <3> QED
      BY <2>5, <3>2
  <2>7. HandPart'
    BY <1>0, <1>3, <1>8, <2>1, <2>5, <2>6 DEF HandInv, HandPart
  <2> QED
    BY <2>2, <2>3, <2>4, <2>7 DEF HandInv
<1> QED
  BY <1>0, <1>3, <1>7, <1>9, <1>10, <1>11, <1>12, <1>13, <1>14, <1>15, <1>16, <1>17, <1>18, <1>19
     DEF WInv, Running, PartsInv, RowsInv
-----------------------------------------------------------------------------
(* The sweep over the shards *)

\* A turn that only frees shards, or looks at one in vain.
LEMMA HandTurn ==
    ASSUME WInv, pc \in {"place", "sweep"}, pc' = "sweep", loc.held = << >>,
           UNCHANGED <<rec, queue, stage, part, active, retiring, pendingHour, assoc, cfg, members, op>>,
           loc' \in LocType, loc'.held = << >>, loc'.roll = loc.roll, loc'.from = loc.from,
           loc'.todo \subseteq loc.todo, loc'.size = loc.size, loc'.pop = loc.pop,
           \A n \in InHand : ShardOfRow(n) \in loc'.busy,
           LoopShapes', Commands'
    PROVE  WInv'
<1>0. TypeInv /\ RoutedRight /\ Running /\ PartsInv /\ HandInv /\ RowsInv
  BY DEF WInv, Running
<1>1. InHand' = InHand
  BY DEF InHand
<1>2. KeepRows
  BY <1>1 DEF KeepRows, SameRow, Gens
<1>3. TypeInv'
  <2>1. /\ retiring \subseteq Gens /\ pendingHour \subseteq Gens /\ members \subseteq Gens
        /\ assoc \subseteq Ords /\ op \in OpType /\ op.files \subseteq Gens
        /\ loc.size \subseteq Gens /\ loc.pop \in Gens \cup {0} /\ InHand \subseteq Ords
    BY <1>0 DEF TypeInv, Shapes, Names
  <2> QED
    BY <1>0, <1>1, <2>1, CalmTypes
<1>4. RowsInv' /\ RoutedRight'
  BY <1>0, <1>2, <1>3, KeepRowsInv DEF SamePop
<1>5. ActiveNewest' /\ OpenActive'
  BY <1>0, SameActive DEF PartsInv, Making
<1>6. Claims'
  BY <1>0, SameClaims DEF PartsInv, Gens
<1>7. HandInv'
  <2>1. HandWhere'
    BY <1>0 DEF HandInv, HandWhere
  <2>2. HandOnce'
    BY <1>0, <1>1 DEF HandInv, HandOnce, ShardOfRow
  <2>3. HandFirst'
    BY <1>0, <1>1 DEF HandInv, HandFirst, ShardOfRow
  <2>4. ToSet(loc'.held) = {}
    BY ToSetEmpty
  <2>5. HandPart'
    BY <1>0, <1>1, <2>4 DEF HandInv, HandPart, PartOf
  <2> QED
    BY <2>1, <2>2, <2>3, <2>5 DEF HandInv
<1> QED
  BY <1>3, <1>4, <1>5, <1>6, <1>7 DEF WInv, Running, PartsInv

\* The rows in hand are placed.
LEMMA PlacedW == ASSUME WInv, Placed PROVE WInv'
<1>0. pc = "place" /\ TypeInv /\ Commands /\ HandInv /\ loc.held = << >>
  BY AtFacts DEF Placed
<1>1. /\ UNCHANGED <<rec, queue, stage, part, active, retiring, pendingHour, assoc, cfg, members, op>>
      /\ UNCHANGED <<work, due, cmds, cmd, life, adm, mode, nest, wakeAfter, oldest, cause,
                     submitted, closing>>
      /\ pc' = "sweep"
  BY DEF Placed, ingressVars, partVars, loopVars, histVars
<1>2. PICK B : B = {ShardOf[rec[n].stream] : n \in ToSet(loc.roll)}
  OBVIOUS
<1>3. loc' = [loc EXCEPT !.busy = B]
  BY <1>2 DEF Placed
<1>4. B \subseteq Shards /\ \A n \in InHand : ShardOfRow(n) \in B
  <2>1. InHand = ToSet(loc.roll) /\ InHand \subseteq Ords
    BY <1>0, HandFacts, ToSetEmpty DEF InHand
  <2> QED
    BY <1>0, <1>2, <2>1, RecFacts DEF ShardOfRow
<1>5. /\ loc' \in LocType /\ loc'.held = << >> /\ loc'.roll = loc.roll /\ loc'.from = loc.from
      /\ loc'.todo = loc.todo /\ loc'.size = loc.size /\ loc'.pop = loc.pop /\ loc'.busy = B
  <2>1. loc \in LocType
    BY <1>0 DEF TypeInv, Shapes
  <2> QED
    BY <1>0, <1>3, <1>4, <2>1 DEF LocType
<1>6. LoopShapes' /\ Commands'
  BY <1>0, <1>1 DEF TypeInv, Shapes, LoopShapes, Commands
<1> QED
  BY <1>0, <1>1, <1>4, <1>5, <1>6, HandTurn

\* The head n of shard s is taken into the hand; its part is ready or, at
\* "ensured", a new one for its hour has been added.
Takes(s, n) ==
    /\ s \in Nonempty /\ s \in loc.todo /\ n = Head(queue[s]) /\ PartOf(n) # 0
    /\ UNCHANGED <<rec, stage, active, retiring, pendingHour, assoc, cfg, members>>
    /\ Popped({s})
    /\ loc' \in LocType /\ loc'.held = <<n>> /\ loc'.roll = loc.roll /\ loc'.from = "sweep"
    /\ loc'.todo = loc.todo \ {s} /\ loc'.busy = loc.busy \cup {s}
    /\ loc'.size = loc.size /\ loc'.pop = loc.pop
    /\ \/ pc' = "place" /\ part' = part /\ part[PartOf(n)].hour = rec[n].hour
       \/ pc' = "ensured" /\ part' = Append(part, NewPart(rec[n].stream, rec[n].hour))

\* A new part is empty and reserved.
LEMMA NewPartFacts ==
    ASSUME NEW s \in Streams, NEW h \in Hours, cfg \in Nat, NEW p, p = NewPart(s, h)
    PROVE  /\ p \in PartType /\ p.stream = s /\ p.hour = h /\ p.cfg = cfg /\ p.state = "reserved"
           /\ p.buf = << >> /\ p.claimed = {} /\ p.done = {} /\ p.deferred = << >> /\ p.folded = {}
BY DEF NewPart, PartType, States

\* The parts after that: the old ones as they were, and new ones without rows.
LEMMA TakesParts ==
    ASSUME TypeInv, Queues, NEW s, NEW n, Takes(s, n)
    PROVE  /\ part' \in Seq(PartType) /\ Gens \subseteq Gens'
           /\ \A g \in Gens : part'[g] = part[g]
           /\ \A g \in Gens' : g \in Gens \/ (FreshPart(g) /\ part'[g].folded = {})
           /\ pc' = "place" => Gens' = Gens
           /\ pc' = "ensured" => /\ Gens' = Gens \cup {Len(part')} /\ Len(part') \notin Gens
                                 /\ Len(part') > 0 /\ Len(part') \in Gens'
                                 /\ \A g \in Gens : g < Len(part')
                                 /\ part'[Len(part')].stream = rec[n].stream
                                 /\ part'[Len(part')].hour = rec[n].hour
                                 /\ part'[Len(part')].cfg = cfg
                                 /\ part'[Len(part')].state = "reserved"
                                 /\ part'[Len(part')].claimed = {}
<1>0. n \in Ords /\ rec[n].stream \in Streams /\ rec[n].hour \in Hours /\ cfg \in Nat
  BY HeadFacts, RecFacts DEF Takes, TypeInv, Shapes, LoopShapes
<1>1. Gens = 1..Len(part) /\ Len(part) \in Nat /\ \A g \in Gens : part[g] \in PartType
  BY PartFacts
<1>2. CASE pc' = "place"
  <2>1. part' = part
    BY <1>2 DEF Takes
  <2> QED
    BY <1>2, <2>1 DEF TypeInv, Shapes, Gens
<1>3. CASE pc' = "ensured"
  <2>1. PICK p : p = NewPart(rec[n].stream, rec[n].hour)
    OBVIOUS
  <2>2. /\ p \in PartType /\ p.stream = rec[n].stream /\ p.hour = rec[n].hour /\ p.cfg = cfg
        /\ p.state = "reserved" /\ p.buf = << >> /\ p.claimed = {} /\ p.done = {}
        /\ p.deferred = << >> /\ p.folded = {}
    BY <1>0, <2>1, NewPartFacts
  <2>3. part' = Append(part, p) /\ part \in Seq(PartType)
    BY <1>3, <2>1 DEF Takes, TypeInv, Shapes
  <2>4. /\ part' \in Seq(PartType) /\ Len(part') = Len(part) + 1
        /\ \A g \in Gens : part'[g] = part[g]
        /\ part'[Len(part) + 1] = p
    BY <1>1, <2>2, <2>3, AppendFacts
  <2>5. Gens' = 1..(Len(part) + 1)
    BY <2>4 DEF Gens
  <2>6. Gens' = Gens \cup {Len(part')} /\ Len(part') \notin Gens /\ Len(part') > 0
        /\ \A g \in Gens : g < Len(part')
    BY <1>1, <2>4, <2>5
  <2>7. FreshPart(Len(part')) /\ part'[Len(part')] = p
    BY <2>2, <2>4 DEF FreshPart
  <2> QED
    BY <1>3, <2>2, <2>4, <2>6, <2>7
<1> QED
  BY <1>2, <1>3 DEF Takes

\* The head of a shard is taken into the hands.
LEMMA TakesHand ==
    ASSUME WInv, At("sweep"), NEW s, NEW n, Takes(s, n)
    PROVE  /\ HandInv' /\ InHand' = InHand \cup {n} /\ n \notin InHand
<1>0. /\ pc = "sweep" /\ TypeInv /\ HandInv /\ RowsInv /\ Queues /\ PartsInv
  BY AtFacts DEF RowsInv
<1>1. /\ s \in Shards /\ n \in Ords /\ ShardOfRow(n) = s /\ n \in InQueues /\ n \in Nat
      /\ s \in loc.todo
  BY <1>0, HeadFacts, RecFacts DEF Takes
<1>2. /\ rec' = rec /\ active' = active /\ cfg' = cfg
      /\ loc'.held = <<n>> /\ loc'.roll = loc.roll /\ loc'.from = "sweep"
      /\ loc'.todo = loc.todo \ {s} /\ loc'.busy = loc.busy \cup {s}
      /\ Popped({s}) /\ {s} \subseteq Nonempty /\ PartOf(n) # 0
      /\ pc' \in {"place", "ensured"}
      /\ pc' = "place" => part[PartOf(n)].hour = rec[n].hour
  BY DEF Takes
<1>3. loc.held = << >> /\ ToSet(loc.held) = {}
  BY <1>0, ToSetEmpty DEF HandInv, HandWhere
<1>4. /\ ToSet(loc'.held) = {n} /\ Distinct(loc'.held) /\ Len(loc'.held) = 1 /\ loc'.held[1] = n
  BY <1>1, <1>2, OneRow
<1>5. InHand = ToSet(loc.roll) /\ InHand' = InHand \cup {n}
  BY <1>2, <1>3, <1>4 DEF InHand
<1>6. \A m \in InHand : ShardOfRow(m) # s
  <2>1. ASSUME NEW m \in InHand PROVE loc.from # "cold"
    BY <1>0, <1>5, ToSetEmpty DEF HandInv, HandWhere
  <2> QED
    BY <1>0, <1>1, <2>1 DEF HandInv, HandFirst
<1>7. n \notin InHand
  BY <1>1, <1>6
<1>8. HandWhere'
  BY <1>2 DEF HandWhere
<1>9. HandOnce'
  <2>1. Distinct(loc.roll) /\ \A a, b \in InHand : ShardOfRow(a) = ShardOfRow(b) => a = b
    BY <1>0 DEF HandInv, HandOnce
  <2>2. \A a, b \in InHand \cup {n} : ShardOfRow(a) = ShardOfRow(b) => a = b
    BY <1>1, <1>6, <2>1
  <2>3. ToSet(loc'.held) \cap ToSet(loc'.roll) = {}
    BY <1>2, <1>4, <1>5, <1>7
  <2>4. \A a \in Ords : ShardOfRow(a)' = ShardOfRow(a)
    BY <1>2 DEF ShardOfRow
  <2>5. InHand \subseteq Ords
    BY <1>0, HandFacts
  <2> QED
    BY <1>1, <1>2, <1>4, <1>5, <2>1, <2>2, <2>3, <2>4, <2>5 DEF HandOnce
<1>10. HandFirst'
  <2>1. /\ \A t \in Shards : ToSet(queue'[t]) \subseteq ToSet(queue[t])
        /\ \A m \in ToSet(queue'[s]) : n < m
    <3>1. /\ \A t \in Shards : ToSet(queue'[t]) \subseteq ToSet(queue[t])
          /\ \A t \in {s} : \A m \in ToSet(queue'[t]) : Head(queue[t]) < m
      BY <1>0, <1>2, PoppedFacts
    <3> QED
      BY <3>1 DEF Takes
  <2>2. ASSUME NEW m \in InHand \cup {n}
        PROVE  /\ ShardOfRow(m) \in loc'.busy /\ ShardOfRow(m) \notin loc'.todo
               /\ \A k \in ToSet(queue'[ShardOfRow(m)]) : m < k
    <3>1. CASE m = n
      BY <1>1, <1>2, <2>1, <3>1
    <3>2. CASE m \in InHand
      <4>1. /\ ShardOfRow(m) \in loc.busy
            /\ \A k \in ToSet(queue[ShardOfRow(m)]) : m < k
            /\ loc.from = "cold" \/ ShardOfRow(m) \notin loc.todo
        BY <1>0, <3>2 DEF HandInv, HandFirst
      <4>2. loc.from # "cold"
        BY <1>0, <1>5, <3>2, ToSetEmpty DEF HandInv, HandWhere
      <4>3. ShardOfRow(m) \in Shards
        BY <1>0, <3>2, HandFacts, RecFacts
      <4> QED
        BY <1>2, <2>1, <4>1, <4>2, <4>3
    <3> QED
      BY <3>1, <3>2
  <2>3. \A m \in InHand \cup {n} : ShardOfRow(m)' = ShardOfRow(m)
    BY <1>2 DEF ShardOfRow
  <2> QED
    BY <1>5, <2>2, <2>3 DEF HandFirst
<1>11. HandPart'
  <2>1. \A m \in InHand \cup {n} : PartOf(m)' = PartOf(m) /\ PartOf(m) # 0 /\ PartOf(m) \in Gens
    BY <1>0, <1>1, <1>2, PartOfHand, RecFacts DEF HandInv, HandPart, PartOf
  <2>2. /\ \A g \in Gens : part'[g] = part[g]
        /\ pc' = "ensured" => /\ Len(part') \notin Gens /\ Len(part') > 0
                              /\ part'[Len(part')].stream = rec[n].stream
                              /\ part'[Len(part')].hour = rec[n].hour
                              /\ part'[Len(part')].cfg = cfg
    BY <1>0, TakesParts
  <2>3. \A m \in ToSet(loc.roll) : m \in InHand /\ part[PartOf(m)].hour = rec[m].hour
    BY <1>0, <1>5 DEF HandInv, HandPart
  <2>4. \A m \in ToSet(loc'.roll) : part'[PartOf(m)'].hour = rec'[m].hour
    BY <1>2, <2>1, <2>2, <2>3
  <2>5. \A m \in ToSet(loc'.held) : pc' # "ensured" => part'[PartOf(m)'].hour = rec'[m].hour
    BY <1>2, <1>4, <2>1, <2>2
  <2>6. pc' = "ensured" =>
          /\ loc'.from = "sweep" /\ Len(loc'.held) = 1 /\ Len(part') > 0
          /\ part'[Len(part')].stream = rec'[loc'.held[1]].stream
          /\ part'[Len(part')].hour = rec'[loc'.held[1]].hour
          /\ part'[Len(part')].cfg = cfg' /\ PartOf(n)' # Len(part')
    BY <1>2, <1>4, <2>1, <2>2
  <2>7. PartOf(loc.held[1])' = PartOf(n)'
    BY <1>4 DEF PartOf
  <2>8. \A m \in InHand' : PartOf(m)' # 0
    BY <1>5, <2>1
  <2> QED
    BY <1>2, <2>4, <2>5, <2>6, <2>7, <2>8 DEF HandPart
<1> QED
  BY <1>5, <1>7, <1>8, <1>9, <1>10, <1>11 DEF HandInv

\* Taking a head keeps the invariant, its part ready or being made.
LEMMA TakesStep ==
    ASSUME WInv, At("sweep"), NEW s, NEW n, Takes(s, n), op' \in OpType, op'.files = {},
           LoopShapes', Commands'
    PROVE  WInv'
<1>0. /\ pc = "sweep" /\ TypeInv /\ RoutedRight /\ HandInv /\ RowsInv /\ Queues /\ PartsInv
      /\ \A g \in Gens : part[g].claimed = {}
  BY AtFacts DEF RowsInv
<1>1. n \in Ords /\ n \in InQueues /\ Heads({s}) = {n} /\ {s} \subseteq Nonempty
  BY <1>0, HeadFacts DEF Takes, Heads
<1>2. /\ UNCHANGED <<rec, stage, active, retiring, pendingHour, assoc, cfg, members>>
      /\ loc' \in LocType /\ loc'.size = loc.size /\ loc'.pop = loc.pop /\ Popped({s})
      /\ pc' \in {"place", "ensured"}
  BY DEF Takes
<1>3. /\ queue' \in [Shards -> Seq(Nat)] /\ Queues'
      /\ \A t \in Shards : ToSet(queue'[t]) \subseteq Ords
      /\ InQueues' = InQueues \ {n}
  BY <1>0, <1>1, <1>2, PoppedFacts
<1>4. HandInv' /\ InHand' = InHand \cup {n} /\ n \notin InHand
  BY <1>0, TakesHand
<1>5. /\ part' \in Seq(PartType) /\ Gens \subseteq Gens'
      /\ \A g \in Gens : part'[g] = part[g]
      /\ \A g \in Gens' : g \in Gens \/ (FreshPart(g) /\ part'[g].folded = {})
      /\ pc' = "place" => Gens' = Gens
      /\ pc' = "ensured" => /\ Gens' = Gens \cup {Len(part')} /\ Len(part') \notin Gens
                            /\ part'[Len(part')].state = "reserved"
  BY <1>0, TakesParts
<1>6. TypeInv'
  <2>1. /\ active \in [Streams -> Nat] /\ \A t \in Streams : active[t] \in Gens \cup {0}
        /\ retiring \subseteq Gens /\ pendingHour \subseteq Gens /\ members \subseteq Gens
        /\ assoc \subseteq Ords /\ loc.size \subseteq Gens /\ loc.pop \in Gens \cup {0}
        /\ InHand \subseteq Ords
    BY <1>0 DEF TypeInv, Shapes, Names
  <2>2. \A g \in Gens : SameRow(g) /\ part'[g].folded = part[g].folded
    BY <1>5 DEF SameRow
  <2> QED
    BY <1>0, <1>1, <1>2, <1>3, <1>4, <1>5, <2>1, <2>2, KeepTypes
<1>7. RowsInv' /\ RoutedRight'
  <2>1. InQueues' \cup InHand' = InQueues \cup InHand /\ InQueues' \cap InHand' = {}
    BY <1>0, <1>1, <1>3, <1>4 DEF RowsInv, QueuedWhere
  <2>2. Kept
    BY <1>2, <1>5, <2>1 DEF Kept, SameRow
  <2> QED
    BY <1>0, <1>2, <1>3, <1>6, <2>1, <2>2, KeptInv DEF SamePop
<1>8. ActiveNewest'
  <2>1. SUFFICES ASSUME NEW t \in Streams, active[t] # 0
                 PROVE  /\ part'[active[t]].stream = t /\ part'[active[t]].cfg = cfg
                        /\ part'[active[t]].state \in {"open", "reserved"}
                        /\ \A g \in Gens' : part'[g].stream = t =>
                              g <= active[t] \/ (pc' = "ensured" /\ g = Len(part'))
    BY <1>2 DEF ActiveNewest
  <2>2. active[t] \in Gens
    BY <1>0, <2>1 DEF TypeInv, Names
  <2>3. /\ part[active[t]].stream = t /\ part[active[t]].cfg = cfg
        /\ part[active[t]].state \in {"open", "reserved"}
        /\ \A g \in Gens : part[g].stream = t => g <= active[t]
    BY <1>0, <2>1 DEF PartsInv, ActiveNewest
  <2> QED
    BY <1>2, <1>5, <2>2, <2>3
<1>9. OpenActive'
  <2>1. ASSUME NEW g \in Gens', part'[g].state = "open" PROVE active[part'[g].stream] = g
    <3>1. g \in Gens
      BY <1>2, <1>5, <2>1
    <3> QED
      BY <1>0, <1>5, <2>1, <3>1 DEF PartsInv, OpenActive
  <2>2. ASSUME NEW g \in Gens', part'[g].state = "reserved" PROVE pc' = "ensured" /\ g = Len(part')
    <3>1. g \notin Gens
      BY <1>0, <1>5, <2>2 DEF PartsInv, OpenActive
    <3> QED
      BY <1>2, <1>5, <3>1
  <2>3. ASSUME NEW g \in members \cup pendingHour PROVE part'[g].state \notin {"open", "reserved"}
    <3>1. g \in Gens /\ part[g].state \notin {"open", "reserved"}
      BY <1>0 DEF PartsInv, OpenActive, TypeInv, Names
    <3> QED
      BY <1>5, <3>1
  <2> QED
    BY <1>2, <1>5, <2>1, <2>2, <2>3 DEF OpenActive
<1>10. Claims'
  <2>1. \A g \in Gens' : part'[g].claimed = {}
    BY <1>0, <1>5 DEF FreshPart
  <2> QED
    BY <2>1, StillNoClaims
<1> QED
  BY <1>2, <1>4, <1>6, <1>7, <1>8, <1>9, <1>10 DEF WInv, Running, PartsInv

\* The next shard of the turn.
LEMMA SweepW == ASSUME WInv, Sweep PROVE WInv'
<1>0. /\ pc = "sweep" /\ op = NoOp /\ At("sweep") /\ TypeInv /\ HandInv /\ RowsInv /\ Commands
  BY AtFacts DEF Sweep
<1>1. PICK s : s = CHOOSE x \in loc.todo : TRUE
  OBVIOUS
<1>2. s \in loc.todo /\ s \in Shards /\ loc \in LocType
  BY <1>0, <1>1, HandFacts DEF Sweep, TypeInv, Shapes
<1>3. PICK n : n = Head(queue[s])
  OBVIOUS
<1>4. PICK left : left = [loc EXCEPT !.todo = loc.todo \ {s}]
  OBVIOUS
<1>5. /\ left \in LocType /\ left.todo = loc.todo \ {s} /\ left.held = loc.held /\ left.roll = loc.roll
      /\ left.busy = loc.busy /\ left.from = loc.from /\ left.size = loc.size /\ left.pop = loc.pop
  BY <1>2, <1>4 DEF LocType
<1>6. /\ UNCHANGED <<rec, stage, active, retiring, pendingHour, assoc, cfg, members>>
      /\ UNCHANGED <<work, due, cmds, cmd, life, adm, mode, nest, wakeAfter, oldest, cause,
                     submitted, closing>>
  BY DEF Sweep, loopVars, histVars
<1>7. LoopShapes'
  BY <1>0, <1>6 DEF TypeInv, Shapes, LoopShapes
<1>8. CASE queue[s] = << >> \/ ~Within(n, Watermark) \/ active[rec[n].stream] = 0
  <2>1. loc' = left /\ UNCHANGED <<queue, part, op, pc>>
    BY <1>1, <1>3, <1>4, <1>8 DEF Sweep
  <2>2. Commands'
    BY <1>0, <1>6, <2>1 DEF Commands
  <2>3. loc.held = << >>
    BY <1>0 DEF HandInv, HandWhere
  <2>4. \A m \in InHand : ShardOfRow(m) \in loc'.busy
    BY <1>0, <1>5, <2>1 DEF HandInv, HandFirst
  <2> QED
    BY <1>0, <1>5, <1>6, <1>7, <2>1, <2>2, <2>3, <2>4, HandTurn
<1>9. CASE ~(queue[s] = << >> \/ ~Within(n, Watermark) \/ active[rec[n].stream] = 0)
  <2>1. PICK taken : taken = [left EXCEPT !.busy = left.busy \cup {s}, !.held = <<n>>, !.from = "sweep",
                                          !.moved = TRUE]
    OBVIOUS
  <2>2. /\ loc' = taken /\ queue' = [queue EXCEPT ![s] = Tail(@)]
        /\ \/ NoIO(n) /\ pc' = "place" /\ UNCHANGED <<part, op>>
           \/ /\ part' = Append(part, NewPart(rec[n].stream, rec[n].hour))
              /\ op' = FileOp("materialize", FALSE) /\ pc' = "ensured"
    BY <1>1, <1>3, <1>4, <1>9, <2>1 DEF Sweep
  <2>3. s \in Nonempty /\ n \in Nat /\ n \in Ords /\ PartOf(n) # 0
    <3>1. s \in Nonempty
      BY <1>2, <1>9 DEF Nonempty
    <3> QED
      BY <1>0, <1>3, <1>9, <3>1, HeadFacts, RecFacts DEF PartOf, RowsInv
  <2>4. /\ loc' \in LocType /\ loc'.held = <<n>> /\ loc'.roll = left.roll /\ loc'.from = "sweep"
        /\ loc'.todo = left.todo /\ loc'.busy = left.busy \cup {s}
        /\ loc'.size = left.size /\ loc'.pop = left.pop
    <3>1. <<n>> \in Seq(Nat)
      BY <2>3
    <3>2. PICK q : q = <<n>>
      OBVIOUS
    <3>3. loc' = [left EXCEPT !.busy = left.busy \cup {s}, !.held = q, !.from = "sweep", !.moved = TRUE]
      BY <2>1, <2>2, <3>2
    <3>4. left.busy \subseteq Shards
      BY <1>5 DEF LocType
    <3>5. /\ loc' \in LocType /\ loc'.held = q /\ loc'.roll = left.roll /\ loc'.from = "sweep"
          /\ loc'.todo = left.todo /\ loc'.busy = left.busy \cup {s}
          /\ loc'.size = left.size /\ loc'.pop = left.pop
      BY <1>2, <1>5, <3>1, <3>2, <3>3, <3>4 DEF LocType
    <3> QED
      BY <3>2, <3>5
  <2>5. Popped({s})
    BY <1>0, <1>2, <2>2, PopOne
  <2>6. NoIO(n) => part[PartOf(n)].hour = rec[n].hour
    BY DEF NoIO, PartOf
  <2>7. \/ pc' = "place" /\ part' = part /\ part[PartOf(n)].hour = rec[n].hour
        \/ pc' = "ensured" /\ part' = Append(part, NewPart(rec[n].stream, rec[n].hour))
    BY <2>2, <2>6
  <2>8. Takes(s, n)
    BY <1>2, <1>3, <1>5, <1>6, <2>3, <2>4, <2>5, <2>7 DEF Takes
  <2>9. op' \in OpType /\ op'.files = {}
    <3>1. FileOp("materialize", FALSE) \in OpType /\ FileOp("materialize", FALSE).files = {}
      BY DEF FileOp, OpType
    <3> QED
      BY <1>0, <2>2, <3>1, NoOpFacts
  <2>10. Commands'
    BY <1>0, <1>6, <2>2 DEF Commands
  <2> QED
    BY <1>0, <1>7, <2>8, <2>9, <2>10, TakesStep
<1> QED
  BY <1>8, <1>9

\* The new part of the hour takes over.
TakesOver(new, old) == part' = [part EXCEPT ![new].state = "open", ![old].state = "retired"]

\* What changes when a part of another hour takes over.
LEMMA TakesOverFacts ==
    ASSUME TypeInv, NEW new \in Gens, NEW old \in Gens, new # old, TakesOver(new, old)
    PROVE  /\ Gens' = Gens /\ Len(part') = Len(part) /\ part' \in Seq(PartType)
           /\ part'[new].state = "open" /\ part'[old].state = "retired"
           /\ \A g \in Gens : /\ SameRow(g) /\ part'[g].folded = part[g].folded
                              /\ part'[g].stream = part[g].stream /\ part'[g].cfg = part[g].cfg
                              /\ part'[g].hour = part[g].hour /\ part'[g].claimed = part[g].claimed
                              /\ g \notin {new, old} => part'[g].state = part[g].state
<1>1. /\ Gens = 1..Len(part) /\ Len(part) \in Nat /\ part \in Seq(PartType)
      /\ \A h \in Gens : part[h] \in PartType
  BY PartFacts DEF TypeInv, Shapes
<1>2. PICK p : p = [part[new] EXCEPT !.state = "open"]
  OBVIOUS
<1>3. PICK q : q = [part[old] EXCEPT !.state = "retired"]
  OBVIOUS
<1>4. part' = [part EXCEPT ![new] = p, ![old] = q]
  BY <1>1, <1>2, <1>3 DEF TakesOver
<1>5. /\ p \in PartType /\ p.buf = part[new].buf /\ p.deferred = part[new].deferred
      /\ p.claimed = part[new].claimed
      /\ p.done = part[new].done /\ p.stream = part[new].stream /\ p.hour = part[new].hour
      /\ p.cfg = part[new].cfg /\ p.state = "open" /\ p.folded = part[new].folded
  <2>1. part[new] \in PartType
    BY <1>1
  <2> QED
    BY <1>2, <2>1 DEF PartType, States
<1>6. /\ q \in PartType /\ q.buf = part[old].buf /\ q.deferred = part[old].deferred
      /\ q.claimed = part[old].claimed
      /\ q.done = part[old].done /\ q.stream = part[old].stream /\ q.hour = part[old].hour
      /\ q.cfg = part[old].cfg /\ q.state = "retired" /\ q.folded = part[old].folded
  <2>1. part[old] \in PartType
    BY <1>1
  <2> QED
    BY <1>3, <2>1 DEF PartType, States
<1>7. part' \in Seq(PartType) /\ Len(part') = Len(part) /\ part'[new] = p /\ part'[old] = q
      /\ \A h \in Gens : h \notin {new, old} => part'[h] = part[h]
  BY <1>1, <1>4, <1>5, <1>6
<1>8. Gens' = Gens
  BY <1>1, <1>7 DEF Gens
<1>9. ASSUME NEW g \in Gens
      PROVE  /\ SameRow(g) /\ part'[g].folded = part[g].folded
             /\ part'[g].stream = part[g].stream /\ part'[g].cfg = part[g].cfg
             /\ part'[g].hour = part[g].hour /\ part'[g].claimed = part[g].claimed
             /\ g \notin {new, old} => part'[g].state = part[g].state
  <2>1. CASE g = new
    BY <1>5, <1>7, <2>1 DEF SameRow
  <2>2. CASE g = old
    BY <1>6, <1>7, <2>2 DEF SameRow
  <2>3. CASE g \notin {new, old}
    BY <1>7, <2>3 DEF SameRow
  <2> QED
    BY <2>1, <2>2, <2>3
<1> QED
  BY <1>5, <1>6, <1>7, <1>8, <1>9

\* replace_reserved_for_hour.
LEMMA EnsuredW == ASSUME WInv, Ensured PROVE WInv'
<1>0. /\ pc = "ensured" /\ op = NoOp /\ TypeInv /\ RoutedRight /\ HandInv /\ RowsInv /\ PartsInv /\ Commands
      /\ \A g \in Gens : part[g].claimed = {}
  BY AtFacts DEF Ensured
<1>1. PICK new : new = Len(part)
  OBVIOUS
<1>2. PICK n : n = loc.held[1]
  OBVIOUS
<1>3. PICK s : s = part[new].stream
  OBVIOUS
<1>4. PICK old : old = active[s]
  OBVIOUS
<1>5. /\ UNCHANGED <<rec, queue, stage, assoc, cfg, members, op, loc>>
      /\ UNCHANGED <<work, due, cmds, cmd, life, adm, mode, nest, wakeAfter, oldest, cause,
                     submitted, closing>>
      /\ pc' = "place" /\ TakesOver(new, old)
      /\ active' = [active EXCEPT ![s] = new]
      /\ retiring' = retiring \cup {old} /\ pendingHour' = pendingHour \cup {old}
  BY <1>1, <1>3, <1>4 DEF Ensured, TakesOver, ingressVars, loopVars, histVars
<1>6. LoopShapes' /\ Commands'
  BY <1>0, <1>5 DEF TypeInv, Shapes, LoopShapes, Commands
<1>7. /\ loc.from = "sweep" /\ Len(loc.held) = 1 /\ new > 0
      /\ s = rec[n].stream /\ part[new].hour = rec[n].hour /\ part[new].cfg = cfg /\ PartOf(n) # new
  BY <1>0, <1>1, <1>2, <1>3 DEF HandInv, HandPart
<1>8. n \in ToSet(loc.held) /\ n \in InHand /\ \A m \in ToSet(loc.held) : m = n
  <2>1. loc.held \in Seq(Nat)
    BY <1>0, HandFacts
  <2>2. /\ \A i \in 1..1 : loc.held[i] \in ToSet(loc.held)
        /\ \A m \in ToSet(loc.held) : \E i \in 1..1 : loc.held[i] = m
    BY <1>7, <2>1, ToSetFacts
  <2>3. n \in ToSet(loc.held) /\ \A m \in ToSet(loc.held) : m = n
    BY <1>2, <2>2
  <2> QED
    BY <2>3 DEF InHand
<1>9. /\ n \in Ords /\ s \in Streams /\ old = PartOf(n) /\ old \in Gens /\ old # new /\ old # 0
      /\ new \in Gens /\ new \in Nat /\ \A g \in Gens : g <= new
  <2>1. n \in Ords /\ rec[n].stream \in Streams /\ PartOf(n) \in Gens
    BY <1>0, <1>8, PartOfHand DEF HandInv
  <2>2. new \in Gens /\ new \in Nat /\ \A g \in Gens : g <= new /\ g # 0
    BY <1>0, <1>1, <1>7, PartFacts
  <2> QED
    BY <1>4, <1>7, <2>1, <2>2 DEF PartOf
<1>10. /\ Gens' = Gens /\ Len(part') = Len(part) /\ part' \in Seq(PartType)
       /\ part'[new].state = "open" /\ part'[old].state = "retired"
       /\ \A g \in Gens : /\ SameRow(g) /\ part'[g].folded = part[g].folded
                          /\ part'[g].stream = part[g].stream /\ part'[g].cfg = part[g].cfg
                          /\ part'[g].hour = part[g].hour /\ part'[g].claimed = part[g].claimed
                          /\ g \notin {new, old} => part'[g].state = part[g].state
  BY <1>0, <1>5, <1>9, TakesOverFacts
<1>11. /\ active' \in [Streams -> Nat] /\ \A t \in Streams : active'[t] \in Gens \cup {0}
       /\ active'[s] = new /\ \A t \in Streams \ {s} : active'[t] = active[t]
  BY <1>0, <1>5, <1>9 DEF TypeInv, Shapes, Names
<1>12. /\ part[old].stream = s /\ part[new].state = "reserved" /\ new \notin members \cup pendingHour
  BY <1>0, <1>1, <1>4, <1>9 DEF PartsInv, ActiveNewest, OpenActive
<1>13. InHand' = InHand /\ KeepRows
  <2>1. InHand' = InHand
    BY <1>5 DEF InHand
  <2> QED
    BY <1>5, <1>10, <2>1 DEF KeepRows
<1>14. TypeInv'
  <2>1. /\ queue \in [Shards -> Seq(Nat)] /\ \A t \in Shards : ToSet(queue[t]) \subseteq Ords
        /\ retiring \subseteq Gens /\ pendingHour \subseteq Gens /\ members \subseteq Gens
        /\ assoc \subseteq Ords /\ op \in OpType /\ op.files \subseteq Gens
        /\ loc \in LocType /\ loc.size \subseteq Gens /\ loc.pop \in Gens \cup {0}
        /\ InHand \subseteq Ords
    BY <1>0 DEF TypeInv, Shapes, Names
  <2> QED
    BY <1>0, <1>5, <1>6, <1>9, <1>10, <1>11, <1>13, <2>1, KeepTypes
<1>15. RowsInv' /\ RoutedRight'
  BY <1>0, <1>5, <1>13, <1>14, KeepRowsInv DEF SamePop
<1>16. ActiveNewest'
  <2>1. SUFFICES ASSUME NEW t \in Streams, active'[t] # 0
                 PROVE  /\ part'[active'[t]].stream = t /\ part'[active'[t]].cfg = cfg
                        /\ part'[active'[t]].state \in {"open", "reserved"}
                        /\ \A g \in Gens : part'[g].stream = t => g <= active'[t]
    BY <1>5, <1>10 DEF ActiveNewest
  <2>2. CASE t = s
    BY <1>3, <1>7, <1>9, <1>10, <1>11, <2>2
  <2>3. CASE t # s
    <3>1. active'[t] = active[t] /\ active[t] \in Gens
      BY <1>11, <2>1, <2>3
    <3>2. /\ part[active[t]].stream = t /\ part[active[t]].cfg = cfg
          /\ part[active[t]].state \in {"open", "reserved"}
          /\ \A g \in Gens : part[g].stream = t => g <= active[t] \/ g = new
      BY <1>0, <1>1, <2>1, <3>1 DEF PartsInv, ActiveNewest
    <3>3. active[t] \notin {new, old}
      BY <1>3, <1>12, <2>3, <3>2
    <3> QED
      BY <1>3, <1>10, <2>3, <3>1, <3>2, <3>3
  <2> QED
    BY <2>2, <2>3
<1>17. OpenActive'
  <2>1. ASSUME NEW g \in Gens, part'[g].state = "open" PROVE active'[part'[g].stream] = g
    <3>1. CASE g = new
      BY <1>3, <1>10, <1>11, <3>1
    <3>2. CASE g # new
      <4>1. g # old /\ part[g].state = "open"
        BY <1>10, <2>1, <3>2
      <4>2. active[part[g].stream] = g /\ part[g].stream \in Streams
        BY <1>0, <4>1, PartFacts DEF PartsInv, OpenActive
      <4>3. part[g].stream # s
        BY <1>4, <4>1, <4>2
      <4> QED
        BY <1>10, <1>11, <4>2, <4>3
    <3> QED
      BY <3>1, <3>2
  <2>2. ASSUME NEW g \in Gens PROVE part'[g].state # "reserved"
    <3>1. CASE g \in {new, old}
      BY <1>10, <3>1
    <3>2. CASE g \notin {new, old}
      BY <1>0, <1>1, <1>10, <3>2 DEF PartsInv, OpenActive
    <3> QED
      BY <3>1, <3>2
  <2>3. ASSUME NEW g \in members' \cup pendingHour' PROVE part'[g].state \notin {"open", "reserved"}
    <3>1. CASE g = old
      BY <1>10, <3>1
    <3>2. CASE g # old
      <4>1. g \in members \cup pendingHour /\ g \in Gens
        BY <1>0, <1>5, <3>2 DEF TypeInv, Names
      <4>2. part[g].state \notin {"open", "reserved"}
        BY <1>0, <4>1 DEF PartsInv, OpenActive
      <4> QED
        BY <1>10, <1>12, <3>2, <4>1, <4>2
    <3> QED
      BY <3>1, <3>2
  <2> QED
    BY <1>5, <1>10, <2>1, <2>2, <2>3 DEF OpenActive
<1>18. Claims'
  <2>1. \A g \in Gens' : part'[g].claimed = {}
    BY <1>0, <1>10
  <2> QED
    BY <2>1, StillNoClaims
<1>19. HandInv'
  <2>1. HandWhere'
    BY <1>5, <1>7 DEF HandWhere
  <2>2. HandOnce'
    BY <1>0, <1>5, <1>13 DEF HandInv, HandOnce, ShardOfRow
  <2>3. HandFirst'
    BY <1>0, <1>5, <1>13 DEF HandInv, HandFirst, ShardOfRow
  <2>4. \A m \in InHand : m \in Ords /\ rec[m].stream \in Streams /\ PartOf(m) \in Gens /\ PartOf(m) # 0
    BY <1>0, PartOfHand, PartFacts DEF HandInv
  <2>5. \A m \in InHand : PartOf(m)' = IF rec[m].stream = s THEN new ELSE PartOf(m)
    BY <1>5, <1>11, <2>4 DEF PartOf
  <2>6. PartOf(n)' = new
    BY <1>7, <1>8, <2>5
  <2>7. ASSUME NEW m \in ToSet(loc.roll) PROVE part'[PartOf(m)'].hour = rec[m].hour
    <3>1. m \in InHand /\ m # n
      BY <1>0, <1>8 DEF InHand, HandInv, HandOnce
    <3>2. rec[m].stream # s
      BY <1>0, <1>7, <1>8, <3>1 DEF HandInv, HandOnce, ShardOfRow
    <3>3. part[PartOf(m)].hour = rec[m].hour
      BY <1>0 DEF HandInv, HandPart
    <3> QED
      BY <1>10, <2>4, <2>5, <3>1, <3>2, <3>3
  <2>8. ASSUME NEW m \in ToSet(loc.held) PROVE part'[PartOf(m)'].hour = rec[m].hour
    <3>1. m = n
      BY <1>8
    <3> QED
      BY <1>7, <1>9, <1>10, <2>6, <3>1
  <2>9. \A m \in InHand : PartOf(m)' # 0
    BY <1>7, <2>4, <2>5
  <2>10. HandPart'
    BY <1>5, <1>7, <1>13, <2>7, <2>8, <2>9 DEF HandPart
  <2> QED
    BY <2>1, <2>2, <2>3, <2>10 DEF HandInv
<1> QED
  BY <1>5, <1>6, <1>14, <1>15, <1>16, <1>17, <1>18, <1>19 DEF WInv, Running, PartsInv
-----------------------------------------------------------------------------
(* Making parts *)

\* Parts added behind the ones there are.
LEMMA AddParts ==
    ASSUME TypeInv, NEW base \in Seq(PartType), NEW fresh \in Seq(PartType), Len(base) = Len(part),
           part' = base \o fresh
    PROVE  /\ part' \in Seq(PartType) /\ Gens \subseteq Gens'
           /\ \A g \in Gens : part'[g] = base[g]
           /\ \A i \in 1..Len(fresh) : Len(part) + i \in Gens' /\ part'[Len(part) + i] = fresh[i]
           /\ \A g \in Gens' : g \in Gens \/ \E i \in 1..Len(fresh) : g = Len(part) + i
<1>1. Gens = 1..Len(part) /\ Len(part) \in Nat /\ Len(fresh) \in Nat
  BY PartFacts
<1>2. /\ part' \in Seq(PartType) /\ Len(part') = Len(part) + Len(fresh)
      /\ \A i \in 1..(Len(part) + Len(fresh)) :
            part'[i] = IF i <= Len(part) THEN base[i] ELSE fresh[i - Len(part)]
  <2>1. /\ base \o fresh \in Seq(PartType)
        /\ Len(base \o fresh) = Len(base) + Len(fresh)
        /\ \A i \in 1..(Len(base) + Len(fresh)) :
              (base \o fresh)[i] = IF i <= Len(base) THEN base[i] ELSE fresh[i - Len(base)]
    BY ConcatProperties, Zenon
  <2>2. PICK p : p = base \o fresh
    OBVIOUS
  <2>3. /\ p \in Seq(PartType) /\ Len(p) = Len(base) + Len(fresh)
        /\ \A i \in 1..(Len(base) + Len(fresh)) :
              p[i] = IF i <= Len(base) THEN base[i] ELSE fresh[i - Len(base)]
    BY <2>1, <2>2, Zenon
  <2>4. part' = p
    BY <2>2, Zenon
  <2> QED
    BY <2>3, <2>4
<1>3. Gens' = 1..(Len(part) + Len(fresh))
  BY <1>2 DEF Gens
<1>4. \A g \in Gens : g \in Gens' /\ part'[g] = base[g]
  BY <1>1, <1>2, <1>3
<1>5. ASSUME NEW i \in 1..Len(fresh)
      PROVE  Len(part) + i \in Gens' /\ part'[Len(part) + i] = fresh[i]
  <2>1. Len(part) + i \in 1..(Len(part) + Len(fresh)) /\ ~(Len(part) + i <= Len(part))
        /\ (Len(part) + i) - Len(part) = i
    BY <1>1
  <2> QED
    BY <1>2, <1>3, <2>1
<1>6. ASSUME NEW g \in Gens', g \notin Gens PROVE \E i \in 1..Len(fresh) : g = Len(part) + i
  <2>1. g - Len(part) \in 1..Len(fresh) /\ g = Len(part) + (g - Len(part))
    BY <1>1, <1>3, <1>6
  <2> QED
    BY <2>1
<1> QED
  BY <1>2, <1>4, <1>5, <1>6

\* N parts are reserved, each the newest of its stream: the part that was active
\* before, if there was one, retires.
Reserves(N, str) ==
    /\ \A i, j \in 1..N : str[i] = str[j] => i = j
    /\ Gens \subseteq Gens' /\ \A g \in Gens' : g \in Gens \/ \E i \in 1..N : g = Len(part) + i
    /\ \A i \in 1..N : /\ part'[Len(part) + i].stream = str[i] /\ part'[Len(part) + i].cfg = cfg
                       /\ part'[Len(part) + i].state = "reserved"
                       /\ active'[str[i]] = Len(part) + i
    /\ \A t \in Streams : (\A i \in 1..N : str[i] # t) => active'[t] = active[t]
    /\ \A g \in Gens : /\ part'[g].stream = part[g].stream /\ part'[g].cfg = part[g].cfg
                       /\ \/ part'[g].state = part[g].state
                          \/ /\ part'[g].state = "retired"
                             /\ \E i \in 1..N : str[i] = part[g].stream
    /\ \A i \in 1..N : active[str[i]] # 0 => part'[active[str[i]]].state = "retired"
    /\ \A g \in members' \cup pendingHour' : g \in Gens /\ part'[g].state \notin {"open", "reserved"}

\* New reserved parts become the active parts of their streams.
LEMMA Reserved ==
    ASSUME TypeInv, ActiveNewest, OpenActive, pc \notin Making, pc' \in {"materialized", "rotated"},
           cfg' = cfg, NEW N \in Nat, NEW str \in [1..N -> Streams], Reserves(N, str)
    PROVE  ActiveNewest' /\ OpenActive'
<1> USE DEF Reserves
<1>1. Gens = 1..Len(part) /\ Len(part) \in Nat /\ \A g \in Gens : g \in Nat /\ part[g].stream \in Streams
  BY PartFacts
<1>2. ASSUME NEW t \in Streams, active'[t] # 0
      PROVE  /\ part'[active'[t]].stream = t /\ part'[active'[t]].cfg = cfg
             /\ part'[active'[t]].state \in {"open", "reserved"}
             /\ \A g \in Gens' : part'[g].stream = t => g <= active'[t]
  <2>1. CASE \E i \in 1..N : str[i] = t
    <3>1. PICK i \in 1..N : str[i] = t
      BY <2>1
    <3>2. /\ active'[t] = Len(part) + i /\ part'[active'[t]].stream = t /\ part'[active'[t]].cfg = cfg
          /\ part'[active'[t]].state = "reserved"
      BY <3>1
    <3>3. ASSUME NEW g \in Gens', part'[g].stream = t PROVE g <= Len(part) + i
      <4>1. CASE g \in Gens
        BY <1>1, <4>1
      <4>2. CASE g \notin Gens
        <5>1. PICK j \in 1..N : g = Len(part) + j
          BY <4>2
        <5>2. str[j] = t
          BY <3>3, <5>1
        <5> QED
          BY <1>1, <3>1, <5>1, <5>2
      <4> QED
        BY <4>1, <4>2
    <3> QED
      BY <3>2, <3>3
  <2>2. CASE \A i \in 1..N : str[i] # t
    <3>1. active'[t] = active[t] /\ active[t] # 0 /\ active[t] \in Gens
      BY <1>2, <2>2 DEF TypeInv, Names
    <3>2. /\ part[active[t]].stream = t /\ part[active[t]].cfg = cfg
          /\ part[active[t]].state \in {"open", "reserved"}
          /\ \A g \in Gens : part[g].stream = t => g <= active[t]
      BY <3>1 DEF ActiveNewest, Making
    <3>3. part'[active[t]].state = part[active[t]].state
      BY <2>2, <3>1, <3>2
    <3>4. ASSUME NEW g \in Gens', part'[g].stream = t PROVE g <= active[t]
      <4>1. g \in Gens
        <5>1. ASSUME g \notin Gens PROVE FALSE
          <6>1. PICK j \in 1..N : g = Len(part) + j
            BY <5>1
          <6> QED
            BY <2>2, <3>4, <6>1
        <5> QED
          BY <5>1
      <4> QED
        BY <3>2, <3>4, <4>1
    <3> QED
      BY <3>1, <3>2, <3>3, <3>4
  <2> QED
    BY <2>1, <2>2
<1>3. ActiveNewest'
  BY <1>2 DEF ActiveNewest
<1>4. ASSUME NEW g \in Gens', part'[g].state = "open" PROVE active'[part'[g].stream] = g
  <2>1. g \in Gens
    <3>1. ASSUME g \notin Gens PROVE FALSE
      <4>1. PICK j \in 1..N : g = Len(part) + j
        BY <3>1
      <4> QED
        BY <1>4, <4>1
    <3> QED
      BY <3>1
  <2>2. part[g].state = "open" /\ part'[g].stream = part[g].stream
    BY <1>4, <2>1
  <2>3. active[part[g].stream] = g /\ g # 0
    BY <1>1, <2>1, <2>2 DEF OpenActive
  <2>4. \A i \in 1..N : str[i] # part[g].stream
    BY <1>4, <2>3
  <2> QED
    BY <1>1, <2>1, <2>2, <2>3, <2>4
<1>5. ASSUME NEW g \in Gens', part'[g].state = "reserved" PROVE active'[part'[g].stream] = g
  <2>1. g \notin Gens
    <3>1. ASSUME g \in Gens PROVE FALSE
      <4>1. part[g].state = "reserved"
        BY <1>5, <3>1
      <4> QED
        BY <3>1, <4>1 DEF OpenActive, Making
    <3> QED
      BY <3>1
  <2>2. PICK j \in 1..N : g = Len(part) + j
    BY <2>1
  <2>3. part'[Len(part) + j].stream = str[j] /\ active'[str[j]] = Len(part) + j
    OBVIOUS
  <2> QED
    BY <2>2, <2>3
<1>6. OpenActive'
  BY <1>4, <1>5 DEF OpenActive
<1> QED
  BY <1>3, <1>6
-----------------------------------------------------------------------------
(* The cold batch *)

\* Heads of queues are of different shards, so of different streams.
LEMMA ColdRows ==
    ASSUME TypeInv, Queues, NEW rows, rows = InOrder(Heads(ColdShards))
    PROVE  /\ ColdShards \subseteq Nonempty /\ Heads(ColdShards) \subseteq Ords
           /\ rows \in Seq(Nat) /\ ToSet(rows) = Heads(ColdShards) /\ Distinct(rows)
           /\ DOMAIN rows = 1..Len(rows) /\ Len(rows) \in Nat
           /\ \A n \in Heads(ColdShards) :
                 /\ n \in Ords /\ n \in InQueues /\ active[rec[n].stream] = 0
                 /\ ShardOfRow(n) \in ColdShards /\ n = Head(queue[ShardOfRow(n)])
           /\ \A n, m \in Heads(ColdShards) : ShardOfRow(n) = ShardOfRow(m) => n = m
           /\ \A i \in 1..Len(rows) : rows[i] \in Heads(ColdShards)
           /\ \A i, j \in 1..Len(rows) : rec[rows[i]].stream = rec[rows[j]].stream => i = j
<1>1. ColdShards \subseteq Nonempty
  BY DEF ColdShards
<1>2. ASSUME NEW n \in Heads(ColdShards)
      PROVE  /\ n \in Ords /\ n \in InQueues /\ active[rec[n].stream] = 0
             /\ ShardOfRow(n) \in ColdShards /\ n = Head(queue[ShardOfRow(n)])
  <2>1. PICK s \in ColdShards : n = Head(queue[s])
    BY DEF Heads
  <2>2. active[rec[n].stream] = 0
    BY <2>1 DEF ColdShards
  <2>3. n \in Ords /\ n \in InQueues /\ ShardOfRow(n) = s
    BY <1>1, <2>1, HeadFacts
  <2> QED
    BY <2>1, <2>2, <2>3
<1>3. Heads(ColdShards) \subseteq Ords
  BY <1>2
<1>4. IsFiniteSet(Heads(ColdShards)) /\ Heads(ColdShards) \subseteq Nat
  <2>1. Ords = 1..Len(rec) /\ Len(rec) \in Nat
    BY RecFacts
  <2>2. IsFiniteSet(Ords)
    BY <2>1, FS_Interval
  <2> QED
    BY <1>3, <2>1, <2>2, FS_Subset
<1>5. /\ rows \in Seq(Nat) /\ ToSet(rows) = Heads(ColdShards) /\ Distinct(rows)
      /\ DOMAIN rows = 1..Len(rows)
  BY <1>4, InOrderFacts
<1>6. Len(rows) \in Nat /\ \A i \in 1..Len(rows) : rows[i] \in Heads(ColdShards)
  BY <1>5, ToSetFacts
<1>7. \A n, m \in Heads(ColdShards) : ShardOfRow(n) = ShardOfRow(m) => n = m
  BY <1>2
<1>8. ASSUME NEW i \in 1..Len(rows), NEW j \in 1..Len(rows), rec[rows[i]].stream = rec[rows[j]].stream
      PROVE  i = j
  <2>1. ShardOfRow(rows[i]) = ShardOfRow(rows[j])
    BY <1>8 DEF ShardOfRow
  <2>2. rows[i] = rows[j]
    BY <1>6, <1>7, <2>1
  <2> QED
    BY <1>5, <2>2 DEF Distinct
<1> QED
  BY <1>1, <1>2, <1>3, <1>5, <1>6, <1>7, <1>8

\* The state changes of the cold batch.
ColdBatch(rows) ==
    /\ UNCHANGED <<rec, stage, retiring, pendingHour, assoc, cfg, members>>
    /\ Popped(ColdShards)
    /\ part' = part \o [i \in DOMAIN rows |-> NewPart(rec[rows[i]].stream, rec[rows[i]].hour)]
    /\ active' = [s \in Streams |-> IF \E i \in DOMAIN rows : rec[rows[i]].stream = s
                                    THEN Len(part) + CHOOSE i \in DOMAIN rows : rec[rows[i]].stream = s
                                    ELSE active[s]]
    /\ pc' = "materialized"
    /\ loc' \in LocType /\ loc'.held = rows /\ loc'.busy = ColdShards /\ loc'.from = "cold"
    /\ loc'.roll = loc.roll /\ loc'.size = loc.size /\ loc'.pop = loc.pop

\* The parts that a cold batch makes, one for each row.
LEMMA ColdParts ==
    ASSUME TypeInv, Queues, NEW rows, rows = InOrder(Heads(ColdShards)), ColdBatch(rows)
    PROVE  /\ part' \in Seq(PartType) /\ Gens \subseteq Gens'
           /\ \A g \in Gens : part'[g] = part[g]
           /\ \A g \in Gens' : g \in Gens \/ \E i \in 1..Len(rows) : g = Len(part) + i
           /\ \A g \in Gens' : g \in Gens \/ (FreshPart(g) /\ part'[g].folded = {})
           /\ \A i \in 1..Len(rows) :
                 /\ Len(part) + i \in Gens' /\ Len(part) + i # 0
                 /\ part'[Len(part) + i].stream = rec[rows[i]].stream
                 /\ part'[Len(part) + i].hour = rec[rows[i]].hour
                 /\ part'[Len(part) + i].cfg = cfg /\ part'[Len(part) + i].state = "reserved"
                 /\ part'[Len(part) + i].buf = << >>
                 /\ active'[rec[rows[i]].stream] = Len(part) + i
           /\ active' \in [Streams -> Nat] /\ \A t \in Streams : active'[t] \in Gens' \cup {0}
           /\ \A t \in Streams : (\A i \in 1..Len(rows) : rec[rows[i]].stream # t) => active'[t] = active[t]
<1>0. /\ DOMAIN rows = 1..Len(rows) /\ Len(rows) \in Nat /\ Len(part) \in Nat
      /\ \A i \in 1..Len(rows) : rows[i] \in Ords
      /\ \A i, j \in 1..Len(rows) : rec[rows[i]].stream = rec[rows[j]].stream => i = j
  BY ColdRows, PartFacts
<1>1. /\ \A i \in 1..Len(rows) : rec[rows[i]].stream \in Streams /\ rec[rows[i]].hour \in Hours
      /\ cfg \in Nat
  BY <1>0, RecFacts DEF TypeInv, Shapes, LoopShapes
<1>2. PICK fresh : fresh = [i \in 1..Len(rows) |-> NewPart(rec[rows[i]].stream, rec[rows[i]].hour)]
  OBVIOUS
<1>3. ASSUME NEW i \in 1..Len(rows)
      PROVE  /\ fresh[i] \in PartType /\ fresh[i].stream = rec[rows[i]].stream
             /\ fresh[i].hour = rec[rows[i]].hour /\ fresh[i].cfg = cfg /\ fresh[i].state = "reserved"
             /\ fresh[i].buf = << >> /\ fresh[i].claimed = {} /\ fresh[i].done = {}
             /\ fresh[i].deferred = << >> /\ fresh[i].folded = {}
  <2>1. fresh[i] = NewPart(rec[rows[i]].stream, rec[rows[i]].hour)
    BY <1>2
  <2> QED
    BY <1>1, <2>1, NewPartFacts
<1>4. fresh \in Seq(PartType) /\ Len(fresh) = Len(rows)
  <2>1. fresh \in [1..Len(rows) -> PartType]
    BY <1>2, <1>3
  <2> QED
    BY <1>0, <2>1
<1>5. part' = part \o fresh /\ part \in Seq(PartType)
  BY <1>0, <1>2 DEF ColdBatch, TypeInv, Shapes
<1>6. /\ part' \in Seq(PartType) /\ Gens \subseteq Gens'
      /\ \A g \in Gens : part'[g] = part[g]
      /\ \A i \in 1..Len(rows) : Len(part) + i \in Gens' /\ part'[Len(part) + i] = fresh[i]
      /\ \A g \in Gens' : g \in Gens \/ \E i \in 1..Len(rows) : g = Len(part) + i
  <2>1. /\ part' \in Seq(PartType) /\ Gens \subseteq Gens'
        /\ \A g \in Gens : part'[g] = part[g]
        /\ \A i \in 1..Len(fresh) : Len(part) + i \in Gens' /\ part'[Len(part) + i] = fresh[i]
        /\ \A g \in Gens' : g \in Gens \/ \E i \in 1..Len(fresh) : g = Len(part) + i
    BY <1>4, <1>5, AddParts, Zenon
  <2> QED
    BY <1>4, <2>1
<1>7. \A g \in Gens' : g \in Gens \/ (FreshPart(g) /\ part'[g].folded = {})
  BY <1>3, <1>6 DEF FreshPart
<1>8. active' = [s \in Streams |-> IF \E i \in 1..Len(rows) : rec[rows[i]].stream = s
                                   THEN Len(part) + CHOOSE i \in 1..Len(rows) : rec[rows[i]].stream = s
                                   ELSE active[s]]
  BY <1>0 DEF ColdBatch
<1>9. ASSUME NEW i \in 1..Len(rows) PROVE active'[rec[rows[i]].stream] = Len(part) + i
  <2>1. PICK s : s = rec[rows[i]].stream
    OBVIOUS
  <2>2. PICK j : j = CHOOSE k \in 1..Len(rows) : rec[rows[k]].stream = s
    OBVIOUS
  <2>3. j \in 1..Len(rows) /\ rec[rows[j]].stream = s
    BY <2>1, <2>2
  <2>4. j = i
    BY <1>0, <2>1, <2>3
  <2>5. active'[s] = Len(part) + j
    BY <1>1, <1>8, <2>1, <2>2
  <2> QED
    BY <2>1, <2>4, <2>5
<1>10. \A t \in Streams : (\A i \in 1..Len(rows) : rec[rows[i]].stream # t) => active'[t] = active[t]
  BY <1>8
<1>11. \A i \in 1..Len(rows) : Len(part) + i \in Nat /\ Len(part) + i # 0
  BY <1>0
<1>12. \A t \in Streams : active'[t] \in Nat /\ active'[t] \in Gens' \cup {0}
  <2>1. \A t \in Streams : active[t] \in Nat /\ active[t] \in Gens \cup {0}
    BY DEF TypeInv, Shapes, Names
  <2> QED
    BY <1>6, <1>9, <1>10, <1>11, <2>1
<1>13. active' \in [Streams -> Nat]
  BY <1>8, <1>12
<1>14. ASSUME NEW i \in 1..Len(rows)
       PROVE  /\ Len(part) + i \in Gens' /\ Len(part) + i # 0
              /\ part'[Len(part) + i].stream = rec[rows[i]].stream
              /\ part'[Len(part) + i].hour = rec[rows[i]].hour
              /\ part'[Len(part) + i].cfg = cfg /\ part'[Len(part) + i].state = "reserved"
              /\ part'[Len(part) + i].buf = << >>
              /\ active'[rec[rows[i]].stream] = Len(part) + i
  <2>1. part'[Len(part) + i] = fresh[i]
    BY <1>6
  <2> QED
    BY <1>3, <1>6, <1>9, <1>11, <2>1
<1> QED
  BY <1>6, <1>7, <1>10, <1>12, <1>13, <1>14, Zenon

\* The rows of a cold batch are in hand, one for each shard.
LEMMA ColdHand ==
    ASSUME WInv, At("pass"), NEW rows, rows = InOrder(Heads(ColdShards)), ColdBatch(rows)
    PROVE  HandInv' /\ InHand = {} /\ InHand' = Heads(ColdShards)
<1>0. /\ pc = "pass" /\ TypeInv /\ HandInv /\ RowsInv /\ Queues
  BY AtFacts DEF RowsInv
<1>1. PICK H : H = Heads(ColdShards)
  OBVIOUS
<1>2. /\ ColdShards \subseteq Nonempty /\ H \subseteq Ords
      /\ rows \in Seq(Nat) /\ ToSet(rows) = H /\ Distinct(rows)
      /\ \A n \in H : ShardOfRow(n) \in ColdShards /\ n = Head(queue[ShardOfRow(n)])
      /\ \A n, m \in H : ShardOfRow(n) = ShardOfRow(m) => n = m
  BY <1>0, <1>1, ColdRows
<1>3. /\ rec' = rec /\ cfg' = cfg /\ pc' = "materialized" /\ Popped(ColdShards)
      /\ loc'.held = rows /\ loc'.busy = ColdShards /\ loc'.from = "cold" /\ loc'.roll = loc.roll
  BY DEF ColdBatch
<1>4. loc.held = << >> /\ loc.roll = << >> /\ loc'.roll = << >>
  BY <1>0, <1>3, NoneInHand DEF HandInv
<1>5. InHand = {} /\ InHand' = H /\ ToSet(loc'.held) = H /\ ToSet(loc'.roll) = {}
  BY <1>2, <1>3, <1>4, ToSetEmpty DEF InHand
<1>6. HandWhere'
  BY <1>3, <1>4 DEF HandWhere
<1>7. \A n \in H : ShardOfRow(n)' = ShardOfRow(n)
  BY <1>3 DEF ShardOfRow
<1>8. HandOnce'
  BY <1>2, <1>3, <1>4, <1>5, <1>7, NoRows DEF HandOnce
<1>9. HandFirst'
  <2>1. \A s \in ColdShards : \A m \in ToSet(queue'[s]) : Head(queue[s]) < m
    BY <1>0, <1>2, <1>3, PoppedFacts
  <2> QED
    BY <1>2, <1>3, <1>5, <1>7, <2>1 DEF HandFirst
<1>10. HandPart'
  <2>1. /\ \A i \in 1..Len(rows) :
             /\ Len(part) + i # 0
             /\ part'[Len(part) + i].hour = rec[rows[i]].hour
             /\ part'[Len(part) + i].buf = << >>
             /\ active'[rec[rows[i]].stream] = Len(part) + i
    BY <1>0, ColdParts
  <2>2. ASSUME NEW n \in H
        PROVE  /\ PartOf(n)' # 0 /\ part'[PartOf(n)'].hour = rec'[n].hour
               /\ part'[PartOf(n)'].buf = << >>
    <3>1. PICK i \in 1..Len(rows) : rows[i] = n
      BY <1>2, ToSetFacts
    <3>2. PartOf(n)' = Len(part) + i
      BY <1>3, <2>1, <3>1 DEF PartOf
    <3> QED
      BY <1>3, <2>1, <3>1, <3>2
  <2> QED
    BY <1>3, <1>5, <2>2 DEF HandPart
<1> QED
  BY <1>1, <1>5, <1>6, <1>8, <1>9, <1>10 DEF HandInv

\* A cold batch keeps the invariant.
LEMMA ColdStep ==
    ASSUME WInv, At("pass"), NEW rows, rows = InOrder(Heads(ColdShards)), ColdBatch(rows),
           op' \in OpType, op'.files = {}, LoopShapes', Commands'
    PROVE  WInv'
<1>0. /\ pc = "pass" /\ TypeInv /\ RoutedRight /\ HandInv /\ RowsInv /\ Queues /\ PartsInv
      /\ \A g \in Gens : part[g].claimed = {}
  BY AtFacts DEF RowsInv
<1>1. PICK H : H = Heads(ColdShards)
  OBVIOUS
<1>2. PICK N : N = Len(rows)
  OBVIOUS
<1>3. /\ ColdShards \subseteq Nonempty /\ H \subseteq Ords /\ N \in Nat
      /\ \A n \in H : n \in Ords /\ n \in InQueues /\ active[rec[n].stream] = 0
      /\ \A i \in 1..N : rows[i] \in H
      /\ \A i, j \in 1..N : rec[rows[i]].stream = rec[rows[j]].stream => i = j
  BY <1>0, <1>1, <1>2, ColdRows
<1>4. /\ UNCHANGED <<rec, stage, retiring, pendingHour, assoc, cfg, members>>
      /\ pc' = "materialized" /\ Popped(ColdShards)
      /\ loc' \in LocType /\ loc'.size = loc.size /\ loc'.pop = loc.pop
  BY DEF ColdBatch
<1>5. /\ queue' \in [Shards -> Seq(Nat)] /\ Queues'
      /\ \A t \in Shards : ToSet(queue'[t]) \subseteq Ords
      /\ InQueues' = InQueues \ H
  BY <1>0, <1>1, <1>3, <1>4, PoppedFacts
<1>6. HandInv' /\ InHand = {} /\ InHand' = H
  BY <1>1, ColdHand
<1>7. /\ part' \in Seq(PartType) /\ Gens \subseteq Gens'
      /\ \A g \in Gens : part'[g] = part[g]
      /\ \A g \in Gens' : g \in Gens \/ \E i \in 1..N : g = Len(part) + i
      /\ \A g \in Gens' : g \in Gens \/ (FreshPart(g) /\ part'[g].folded = {})
      /\ \A i \in 1..N : /\ part'[Len(part) + i].stream = rec[rows[i]].stream
                         /\ part'[Len(part) + i].cfg = cfg /\ part'[Len(part) + i].state = "reserved"
                         /\ active'[rec[rows[i]].stream] = Len(part) + i
      /\ active' \in [Streams -> Nat] /\ \A t \in Streams : active'[t] \in Gens' \cup {0}
      /\ \A t \in Streams : (\A i \in 1..N : rec[rows[i]].stream # t) => active'[t] = active[t]
  BY <1>0, <1>2, ColdParts
<1>8. TypeInv'
  <2>1. /\ retiring \subseteq Gens /\ pendingHour \subseteq Gens /\ members \subseteq Gens
        /\ assoc \subseteq Ords /\ loc.size \subseteq Gens /\ loc.pop \in Gens \cup {0}
    BY <1>0 DEF TypeInv, Shapes, Names
  <2>2. \A g \in Gens : SameRow(g) /\ part'[g].folded = part[g].folded
    BY <1>7 DEF SameRow
  <2> QED
    BY <1>0, <1>3, <1>4, <1>5, <1>6, <1>7, <2>1, <2>2, KeepTypes
<1>9. RowsInv' /\ RoutedRight'
  <2>1. InQueues' \cup InHand' = InQueues \cup InHand /\ InQueues' \cap InHand' = {}
    BY <1>3, <1>5, <1>6
  <2>2. Kept
    BY <1>4, <1>7, <2>1 DEF Kept, SameRow
  <2> QED
    BY <1>0, <1>4, <1>5, <1>8, <2>1, <2>2, KeptInv DEF SamePop
<1>10. ActiveNewest' /\ OpenActive'
  <2>1. PICK str : str = [i \in 1..N |-> rec[rows[i]].stream]
    OBVIOUS
  <2>2. str \in [1..N -> Streams] /\ \A i \in 1..N : str[i] = rec[rows[i]].stream
    BY <1>0, <1>3, <2>1, RecFacts
  <2>3. \A i, j \in 1..N : str[i] = str[j] => i = j
    BY <1>3, <2>2
  <2>4. \A i \in 1..N : /\ part'[Len(part) + i].stream = str[i] /\ part'[Len(part) + i].cfg = cfg
                        /\ part'[Len(part) + i].state = "reserved"
                        /\ active'[str[i]] = Len(part) + i
    BY <1>7, <2>2
  <2>5. \A t \in Streams : (\A i \in 1..N : str[i] # t) => active'[t] = active[t]
    BY <1>7, <2>2
  <2>6. \A i \in 1..N : active[str[i]] # 0 => part'[active[str[i]]].state = "retired"
    BY <1>3, <2>2
  <2>7. \A g \in members' \cup pendingHour' : g \in Gens /\ part'[g].state \notin {"open", "reserved"}
    <3>1. \A g \in members \cup pendingHour : g \in Gens /\ part[g].state \notin {"open", "reserved"}
      BY <1>0 DEF PartsInv, OpenActive, TypeInv, Names
    <3> QED
      BY <1>4, <1>7, <3>1
  <2>8. \A g \in Gens : /\ part'[g].stream = part[g].stream /\ part'[g].cfg = part[g].cfg
                        /\ \/ part'[g].state = part[g].state
                           \/ /\ part'[g].state = "retired"
                              /\ \E i \in 1..N : str[i] = part[g].stream
    BY <1>7
  <2>9. /\ ActiveNewest /\ OpenActive /\ pc \notin Making /\ pc' \in {"materialized", "rotated"}
        /\ cfg' = cfg
    BY <1>0, <1>4 DEF PartsInv, Making
  <2>10. str \in [1..N -> Streams]
    BY <2>2
  <2>11. Gens \subseteq Gens' /\ \A g \in Gens' : g \in Gens \/ \E i \in 1..N : g = Len(part) + i
    BY <1>7
  <2>12. TypeInv /\ N \in Nat
    BY <1>0, <1>3
  <2>13. Reserves(N, str)
    BY <2>3, <2>4, <2>5, <2>6, <2>7, <2>8, <2>11 DEF Reserves
  <2> QED
    BY <2>9, <2>10, <2>12, <2>13, Reserved
<1>11. Claims'
  <2>1. \A g \in Gens' : part'[g].claimed = {}
    BY <1>0, <1>7 DEF FreshPart
  <2> QED
    BY <2>1, StillNoClaims
<1> QED
  BY <1>4, <1>6, <1>8, <1>9, <1>10, <1>11 DEF WInv, Running, PartsInv

\* A turn of the drain begins.
LEMMA PassW == ASSUME WInv, Pass PROVE WInv'
<1>0. /\ pc = "pass" /\ op = NoOp /\ At("pass") /\ TypeInv /\ Commands
  BY AtFacts DEF Pass
<1>1. CASE ColdShards = {}
  BY <1>1, PassGoesOn
<1>2. CASE ColdShards # {}
  <2> DEFINE rows == InOrder(Heads(ColdShards))
             next == [loc EXCEPT !.todo = Nonempty, !.cold = FALSE, !.moved = FALSE]
  <2>1. rows = InOrder(Heads(ColdShards))
    OBVIOUS
  <2>2. next = [loc EXCEPT !.todo = Nonempty, !.cold = FALSE, !.moved = FALSE]
    OBVIOUS
  <2>3. Nonempty # {}
    BY <1>2 DEF ColdShards
  <2>4. /\ queue' = [s \in Shards |-> IF s \in ColdShards THEN Tail(queue[s]) ELSE queue[s]]
        /\ part' = part \o [i \in DOMAIN rows |-> NewPart(rec[rows[i]].stream, rec[rows[i]].hour)]
        /\ active' = [s \in Streams |->
                         IF \E i \in DOMAIN rows : rec[rows[i]].stream = s
                         THEN Len(part) + CHOOSE i \in DOMAIN rows : rec[rows[i]].stream = s
                         ELSE active[s]]
        /\ op' = FileOp("materialize", TRUE)
        /\ pc' = "materialized"
        /\ loc' = [next EXCEPT !.held = rows, !.busy = ColdShards, !.cold = TRUE,
                               !.moved = TRUE, !.from = "cold"]
        /\ UNCHANGED rec
    BY <1>2, <2>3 DEF Pass, ColdShards, Heads
  <2> HIDE DEF rows, next
  <2>5. /\ UNCHANGED <<stage, retiring, pendingHour, assoc, cfg, members>>
        /\ UNCHANGED <<work, due, cmds, cmd, life, adm, mode, nest, wakeAfter, oldest, cause,
                       submitted, closing>>
    BY DEF Pass, loopVars, histVars
  <2>6. rows \in Seq(Nat) /\ ColdShards \subseteq Shards
    <3>1. Queues
      BY AtFacts DEF Pass, RowsInv
    <3> QED
      BY <1>0, <2>1, <3>1, ColdRows DEF Nonempty
  <2>7. /\ next \in LocType /\ next.roll = loc.roll /\ next.size = loc.size /\ next.pop = loc.pop
    <3>1. loc \in LocType /\ Nonempty \subseteq Shards
      BY <1>0 DEF TypeInv, Shapes, Nonempty
    <3> QED
      BY <2>2, <3>1 DEF LocType
  <2>8. /\ loc' \in LocType /\ loc'.held = rows /\ loc'.busy = ColdShards /\ loc'.from = "cold"
        /\ loc'.roll = next.roll /\ loc'.size = next.size /\ loc'.pop = next.pop
    BY <2>4, <2>6, <2>7 DEF LocType
  <2>9. ColdBatch(rows)
    BY <2>4, <2>5, <2>7, <2>8 DEF ColdBatch, Popped
  <2>10. op' \in OpType /\ op'.files = {}
    BY <2>4 DEF FileOp, OpType
  <2>11. LoopShapes' /\ Commands'
    BY <1>0, <2>4, <2>5 DEF TypeInv, Shapes, LoopShapes, Commands
  <2> QED
    BY <1>0, <2>1, <2>9, <2>10, <2>11, ColdStep
<1> QED
  BY <1>1, <1>2
-----------------------------------------------------------------------------
(* Rotations *)

\* The state changes of a rotation of the parts `chosen`, listed as gens.
Rotation(chosen, gens) ==
    /\ part' = [g \in Gens |-> IF g \in chosen THEN [part[g] EXCEPT !.state = "retired"]
                                               ELSE part[g]]
               \o [i \in DOMAIN gens |-> NewPart(part[gens[i]].stream, part[gens[i]].hour)]
    /\ active' = [s \in Streams |-> IF active[s] \in chosen
                                    THEN Len(part) + CHOOSE i \in DOMAIN gens : gens[i] = active[s]
                                    ELSE active[s]]

\* What it makes: N new parts, one for each of the chosen ones, which are retired.
RotationMade(chosen, gens, N) ==
    /\ chosen \subseteq Gens /\ N \in Nat
    /\ \A i \in 1..N : gens[i] \in chosen
    /\ \A g \in chosen : \E i \in 1..N : gens[i] = g
    /\ \A i, j \in 1..N : gens[i] = gens[j] => i = j
    /\ part' \in Seq(PartType) /\ Gens \subseteq Gens'
    /\ \A g \in Gens : /\ SameRow(g) /\ part'[g].folded = part[g].folded
                       /\ part'[g].stream = part[g].stream /\ part'[g].cfg = part[g].cfg
                       /\ part'[g].claimed = part[g].claimed
                       /\ g \in chosen => part'[g].state = "retired"
                       /\ g \notin chosen => part'[g].state = part[g].state
    /\ \A g \in Gens' : g \in Gens \/ \E i \in 1..N : g = Len(part) + i
    /\ \A g \in Gens' : g \in Gens \/ (FreshPart(g) /\ part'[g].folded = {})
    /\ \A i \in 1..N : /\ part'[Len(part) + i].stream = part[gens[i]].stream
                       /\ part'[Len(part) + i].cfg = cfg /\ part'[Len(part) + i].state = "reserved"
                       /\ active'[part[gens[i]].stream] = Len(part) + i
    /\ active' \in [Streams -> Nat] /\ \A t \in Streams : active'[t] \in Gens' \cup {0}
    /\ \A t \in Streams : active[t] \notin chosen => active'[t] = active[t]

\* A rotation retires the chosen parts and reserves their successors.
LEMMA RotatedParts ==
    ASSUME TypeInv, PartsInv, NEW chosen, chosen \subseteq ActiveParts, NEW gens, gens = InOrder(chosen),
           Rotation(chosen, gens)
    PROVE  RotationMade(chosen, gens, Len(gens))
<1>0. /\ Gens = 1..Len(part) /\ Len(part) \in Nat /\ chosen \subseteq Gens /\ cfg \in Nat
      /\ \A g \in Gens : /\ part[g].stream \in Streams /\ part[g].hour \in Hours
                         /\ part[g] \in PartType /\ g \in Nat
      /\ \A g \in chosen : active[part[g].stream] = g
  BY PartFacts DEF ActiveParts, TypeInv, Shapes, LoopShapes
<1>1. /\ gens \in Seq(Nat) /\ ToSet(gens) = chosen /\ Distinct(gens)
      /\ DOMAIN gens = 1..Len(gens)
  <2>1. IsFiniteSet(chosen) /\ chosen \subseteq Nat
    <3>1. IsFiniteSet(Gens)
      BY <1>0, FS_Interval
    <3> QED
      BY <1>0, <3>1, FS_Subset
  <2> QED
    BY <2>1, InOrderFacts
<1>2. /\ Len(gens) \in Nat /\ \A i \in 1..Len(gens) : gens[i] \in chosen
      /\ \A g \in chosen : \E i \in 1..Len(gens) : gens[i] = g
      /\ \A i, j \in 1..Len(gens) : gens[i] = gens[j] => i = j
  BY <1>1, ToSetFacts DEF Distinct
<1>3. PICK fresh : fresh = [i \in 1..Len(gens) |-> NewPart(part[gens[i]].stream, part[gens[i]].hour)]
  OBVIOUS
<1>4. ASSUME NEW i \in 1..Len(gens)
      PROVE  /\ fresh[i] \in PartType /\ fresh[i].stream = part[gens[i]].stream
             /\ fresh[i].cfg = cfg /\ fresh[i].state = "reserved"
             /\ fresh[i].buf = << >> /\ fresh[i].claimed = {} /\ fresh[i].done = {}
             /\ fresh[i].deferred = << >> /\ fresh[i].folded = {}
  <2>1. fresh[i] = NewPart(part[gens[i]].stream, part[gens[i]].hour)
    BY <1>3
  <2>2. gens[i] \in Gens
    BY <1>0, <1>2
  <2>3. part[gens[i]].stream \in Streams /\ part[gens[i]].hour \in Hours
    BY <1>0, <2>2
  <2> QED
    BY <1>0, <2>1, <2>3, NewPartFacts
<1>5. fresh \in Seq(PartType) /\ Len(fresh) = Len(gens)
  <2>1. fresh \in [1..Len(gens) -> PartType]
    BY <1>3, <1>4
  <2> QED
    BY <1>2, <2>1
<1>6. PICK base : base = [g \in Gens |-> IF g \in chosen THEN [part[g] EXCEPT !.state = "retired"]
                                                         ELSE part[g]]
  OBVIOUS
<1>7. ASSUME NEW g \in Gens
      PROVE  /\ base[g] \in PartType /\ base[g].folded = part[g].folded
             /\ base[g].stream = part[g].stream /\ base[g].cfg = part[g].cfg
             /\ base[g].hour = part[g].hour /\ base[g].buf = part[g].buf
             /\ base[g].claimed = part[g].claimed /\ base[g].done = part[g].done
             /\ base[g].deferred = part[g].deferred
             /\ g \in chosen => base[g].state = "retired"
             /\ g \notin chosen => base[g].state = part[g].state
  <2>1. part[g] \in PartType
    BY <1>0
  <2>2. CASE g \in chosen
    <3>1. base[g] = [part[g] EXCEPT !.state = "retired"]
      BY <1>6, <2>2
    <3>2. "retired" \in States
      BY DEF States
    <3> QED
      BY <2>1, <2>2, <3>1, <3>2 DEF PartType
  <2>3. CASE g \notin chosen
    BY <1>6, <2>1, <2>3
  <2> QED
    BY <2>2, <2>3
<1>8. base \in Seq(PartType) /\ Len(base) = Len(part)
  <2>1. base \in [1..Len(part) -> PartType]
    BY <1>0, <1>6, <1>7
  <2> QED
    BY <1>0, <2>1
<1>9. part' = base \o fresh
  BY <1>1, <1>3, <1>6 DEF Rotation
<1>10. /\ part' \in Seq(PartType) /\ Gens \subseteq Gens'
       /\ \A g \in Gens : part'[g] = base[g]
       /\ \A i \in 1..Len(gens) : Len(part) + i \in Gens' /\ part'[Len(part) + i] = fresh[i]
       /\ \A g \in Gens' : g \in Gens \/ \E i \in 1..Len(gens) : g = Len(part) + i
  <2>1. /\ part' \in Seq(PartType) /\ Gens \subseteq Gens'
        /\ \A g \in Gens : part'[g] = base[g]
        /\ \A i \in 1..Len(fresh) : Len(part) + i \in Gens' /\ part'[Len(part) + i] = fresh[i]
        /\ \A g \in Gens' : g \in Gens \/ \E i \in 1..Len(fresh) : g = Len(part) + i
    BY <1>5, <1>8, <1>9, AddParts, Zenon
  <2> QED
    BY <1>5, <2>1
<1>11. \A g \in Gens' : g \in Gens \/ (FreshPart(g) /\ part'[g].folded = {})
  BY <1>4, <1>10 DEF FreshPart
<1>12. \A g \in Gens : /\ SameRow(g) /\ part'[g].folded = part[g].folded
                       /\ part'[g].stream = part[g].stream /\ part'[g].cfg = part[g].cfg
                       /\ part'[g].claimed = part[g].claimed
                       /\ g \in chosen => part'[g].state = "retired"
                       /\ g \notin chosen => part'[g].state = part[g].state
  BY <1>7, <1>10 DEF SameRow
<1>13. active' = [s \in Streams |-> IF active[s] \in chosen
                                    THEN Len(part) + CHOOSE i \in 1..Len(gens) : gens[i] = active[s]
                                    ELSE active[s]]
  BY <1>1 DEF Rotation
<1>14. ASSUME NEW i \in 1..Len(gens) PROVE active'[part[gens[i]].stream] = Len(part) + i
  <2>1. PICK s : s = part[gens[i]].stream
    OBVIOUS
  <2>2. active[s] = gens[i] /\ s \in Streams /\ gens[i] \in chosen
    BY <1>0, <1>2, <2>1
  <2>3. PICK j : j = CHOOSE k \in 1..Len(gens) : gens[k] = active[s]
    OBVIOUS
  <2>4. j \in 1..Len(gens) /\ gens[j] = active[s]
    BY <2>2, <2>3
  <2>5. j = i
    BY <1>2, <2>2, <2>4
  <2>6. active'[s] = Len(part) + j
    BY <1>13, <2>2, <2>3
  <2> QED
    BY <2>1, <2>5, <2>6
<1>15. \A t \in Streams : active[t] \notin chosen => active'[t] = active[t]
  BY <1>13
<1>16. ASSUME NEW t \in Streams PROVE active'[t] \in Nat /\ active'[t] \in Gens' \cup {0}
  <2>1. active[t] \in Nat /\ active[t] \in Gens \cup {0}
    BY DEF TypeInv, Shapes, Names
  <2>2. CASE active[t] \in chosen
    <3>1. PICK i \in 1..Len(gens) : gens[i] = active[t]
      BY <1>2, <2>2
    <3>2. active[t] # 0
      BY <1>0, <2>2
    <3>3. part[active[t]].stream = t
      BY <3>2 DEF PartsInv, ActiveNewest
    <3>4. active'[t] = Len(part) + i
      BY <1>14, <3>1, <3>3
    <3>5. Len(part) + i \in Nat
      BY <1>0, <1>2
    <3> QED
      BY <1>10, <3>4, <3>5
  <2>3. CASE active[t] \notin chosen
    BY <1>10, <1>15, <2>1, <2>3
  <2> QED
    BY <2>2, <2>3
<1>17. active' \in [Streams -> Nat]
  BY <1>13, <1>16
<1>18. ASSUME NEW i \in 1..Len(gens)
       PROVE  /\ part'[Len(part) + i].stream = part[gens[i]].stream
              /\ part'[Len(part) + i].cfg = cfg /\ part'[Len(part) + i].state = "reserved"
              /\ active'[part[gens[i]].stream] = Len(part) + i
  <2>1. part'[Len(part) + i] = fresh[i]
    BY <1>10
  <2> QED
    BY <1>4, <1>14, <2>1
<1>19. \A t \in Streams : active'[t] \in Gens' \cup {0}
  BY <1>16
<1>20. chosen \subseteq Gens /\ part' \in Seq(PartType) /\ Gens \subseteq Gens'
  BY <1>0, <1>10
<1>21. \A g \in Gens' : g \in Gens \/ \E i \in 1..Len(gens) : g = Len(part) + i
  BY <1>10
<1> QED
  BY <1>2, <1>11, <1>12, <1>15, <1>17, <1>18, <1>19, <1>20, <1>21, Zenon DEF RotationMade

\* A rotation is begun.
LEMMA RotateW ==
    ASSUME WInv, NEW chosen, chosen \subseteq ActiveParts, Rotate(chosen)
    PROVE  WInv'
<1>0. /\ pc = "rotate" /\ op = NoOp /\ TypeInv /\ RoutedRight /\ HandInv /\ RowsInv /\ PartsInv /\ Commands
      /\ \A g \in Gens : part[g].claimed = {}
  BY AtFacts DEF Rotate
<1>1. CASE oldest \/ chosen = {}
  BY <1>1, RotateCalm
<1>2. CASE ~(oldest \/ chosen = {})
  <2> DEFINE gens == InOrder(chosen)
  <2>1. gens = InOrder(chosen)
    OBVIOUS
  <2>2. /\ Rotation(chosen, gens)
        /\ retiring' = retiring \cup chosen /\ members' = chosen
        /\ op' = FileOp("materialize", TRUE) /\ pc' = "rotated"
        /\ UNCHANGED <<mode, life, cmd>>
    BY <1>2 DEF Rotate, Rotation
  <2> HIDE DEF gens
  <2>3. /\ UNCHANGED <<rec, queue, stage, pendingHour, assoc, cfg, loc>>
        /\ UNCHANGED <<work, due, cmds, adm, nest, wakeAfter, oldest, cause, submitted, closing>>
    BY DEF Rotate, ingressVars
  <2>4. PICK N : N = Len(gens) /\ RotationMade(chosen, gens, N)
    BY <1>0, <2>1, <2>2, RotatedParts
  <2>5. /\ chosen \subseteq Gens /\ N \in Nat
        /\ \A i \in 1..N : gens[i] \in chosen
        /\ \A g \in chosen : \E i \in 1..N : gens[i] = g
        /\ \A i, j \in 1..N : gens[i] = gens[j] => i = j
        /\ part' \in Seq(PartType) /\ Gens \subseteq Gens'
        /\ \A g \in Gens : /\ SameRow(g) /\ part'[g].folded = part[g].folded
                           /\ part'[g].stream = part[g].stream /\ part'[g].cfg = part[g].cfg
                           /\ part'[g].claimed = part[g].claimed
                           /\ g \in chosen => part'[g].state = "retired"
                           /\ g \notin chosen => part'[g].state = part[g].state
        /\ \A g \in Gens' : g \in Gens \/ \E i \in 1..N : g = Len(part) + i
        /\ \A g \in Gens' : g \in Gens \/ (FreshPart(g) /\ part'[g].folded = {})
        /\ \A i \in 1..N : /\ part'[Len(part) + i].stream = part[gens[i]].stream
                           /\ part'[Len(part) + i].cfg = cfg /\ part'[Len(part) + i].state = "reserved"
                           /\ active'[part[gens[i]].stream] = Len(part) + i
        /\ active' \in [Streams -> Nat] /\ \A t \in Streams : active'[t] \in Gens' \cup {0}
        /\ \A t \in Streams : active[t] \notin chosen => active'[t] = active[t]
    BY <2>4, Zenon DEF RotationMade
  <2>6. LoopShapes' /\ Commands'
    BY <1>0, <2>2, <2>3 DEF TypeInv, Shapes, LoopShapes, Commands
  <2>7. op' \in OpType /\ op'.files = {}
    BY <2>2 DEF FileOp, OpType
  <2>8. InHand' = InHand /\ loc.held = << >> /\ loc.roll = << >>
    BY <1>0, <2>3, NoneInHand DEF InHand, HandInv
  <2>9. TypeInv'
    <3>1. /\ queue \in [Shards -> Seq(Nat)] /\ \A t \in Shards : ToSet(queue[t]) \subseteq Ords
          /\ retiring \subseteq Gens /\ pendingHour \subseteq Gens
          /\ assoc \subseteq Ords /\ loc \in LocType /\ loc.size \subseteq Gens
          /\ loc.pop \in Gens \cup {0} /\ InHand \subseteq Ords
      BY <1>0 DEF TypeInv, Shapes, Names
    <3>2. /\ retiring' \subseteq Gens' /\ pendingHour' \subseteq Gens' /\ members' \subseteq Gens'
          /\ op'.files \subseteq Gens' /\ loc'.size \subseteq Gens' /\ loc'.pop \in Gens' \cup {0}
      BY <2>2, <2>3, <2>5, <2>7, <3>1
    <3>3. /\ queue' \in [Shards -> Seq(Nat)] /\ \A t \in Shards : ToSet(queue'[t]) \subseteq Ords
          /\ assoc' \subseteq Ords /\ loc' \in LocType /\ InHand' \subseteq Ords
          /\ rec' = rec /\ stage' = stage
      BY <2>3, <2>8, <3>1
    <3>4. /\ part' \in Seq(PartType) /\ Gens \subseteq Gens'
          /\ \A g \in Gens : SameRow(g) /\ part'[g].folded = part[g].folded
          /\ \A g \in Gens' : g \in Gens \/ (FreshPart(g) /\ part'[g].folded = {})
          /\ active' \in [Streams -> Nat] /\ \A t \in Streams : active'[t] \in Gens' \cup {0}
      BY <2>5
    <3> QED
      BY <1>0, <2>6, <2>7, <3>2, <3>3, <3>4, KeepTypes
  <2>10. RowsInv' /\ RoutedRight'
    <3>1. KeepRows
      BY <2>3, <2>5, <2>8 DEF KeepRows
    <3> QED
      BY <1>0, <2>2, <2>3, <2>9, <3>1, KeepRowsInv DEF SamePop
  <2>11. ActiveNewest' /\ OpenActive'
    <3>1. PICK str : str = [i \in 1..N |-> part[gens[i]].stream]
      OBVIOUS
    <3>2. \A g \in chosen : part[g].stream \in Streams /\ active[part[g].stream] = g
      BY <1>0, <2>5, PartFacts DEF ActiveParts
    <3>3. \A i \in 1..N : str[i] = part[gens[i]].stream /\ str[i] \in Streams /\ active[str[i]] = gens[i]
      BY <2>5, <3>1, <3>2
    <3>4. str \in [1..N -> Streams]
      BY <3>1, <3>3
    <3>5. \A i, j \in 1..N : str[i] = str[j] => i = j
      BY <2>5, <3>3
    <3>6. \A i \in 1..N : /\ part'[Len(part) + i].stream = str[i] /\ part'[Len(part) + i].cfg = cfg
                          /\ part'[Len(part) + i].state = "reserved"
                          /\ active'[str[i]] = Len(part) + i
      BY <2>5, <3>3
    <3>7. ASSUME NEW t \in Streams, \A i \in 1..N : str[i] # t PROVE active'[t] = active[t]
      <4>1. active[t] \notin chosen
        <5>1. ASSUME active[t] \in chosen PROVE FALSE
          <6>1. PICK i \in 1..N : gens[i] = active[t]
            BY <2>5, <5>1
          <6>2. active[t] # 0
            BY <1>0, <2>5, <5>1, PartFacts
          <6>3. part[active[t]].stream = t
            BY <1>0, <6>2 DEF PartsInv, ActiveNewest
          <6> QED
            BY <3>3, <3>7, <6>1, <6>3
        <5> QED
          BY <5>1
      <4> QED
        BY <2>5, <4>1
    <3>8. \A i \in 1..N : active[str[i]] # 0 => part'[active[str[i]]].state = "retired"
      <4>1. \A i \in 1..N : active[str[i]] \in chosen
        BY <2>5, <3>3
      <4> QED
        BY <2>5, <4>1
    <3>9. ASSUME NEW g \in Gens
          PROVE  /\ part'[g].stream = part[g].stream /\ part'[g].cfg = part[g].cfg
                 /\ \/ part'[g].state = part[g].state
                    \/ /\ part'[g].state = "retired"
                       /\ \E i \in 1..N : str[i] = part[g].stream
      BY <2>5, <3>3
    <3>10. ASSUME NEW g \in members' \cup pendingHour'
           PROVE  g \in Gens /\ part'[g].state \notin {"open", "reserved"}
      <4>1. CASE g \in chosen
        BY <2>5, <4>1
      <4>2. CASE g \notin chosen
        <5>1. g \in pendingHour
          BY <2>2, <2>3, <4>2
        <5>2. g \in Gens /\ part[g].state \notin {"open", "reserved"}
          BY <1>0, <5>1 DEF PartsInv, OpenActive, TypeInv, Names
        <5> QED
          BY <2>5, <4>2, <5>2
      <4> QED
        BY <4>1, <4>2
    <3>11. Reserves(N, str)
      BY <2>5, <3>5, <3>6, <3>7, <3>8, <3>9, <3>10 DEF Reserves
    <3>12. /\ ActiveNewest /\ OpenActive /\ pc \notin Making /\ pc' \in {"materialized", "rotated"}
           /\ cfg' = cfg /\ TypeInv /\ N \in Nat
      BY <1>0, <2>2, <2>3, <2>5 DEF PartsInv, Making
    <3> QED
      BY <3>4, <3>11, <3>12, Reserved
  <2>12. Claims'
    <3>1. \A g \in Gens' : part'[g].claimed = {}
      BY <1>0, <2>5 DEF FreshPart
    <3> QED
      BY <3>1, StillNoClaims
  <2>13. HandInv'
    BY <2>2, <2>3, <2>8, EmptyHand
  <2> QED
    BY <2>2, <2>6, <2>9, <2>10, <2>11, <2>12, <2>13 DEF WInv, Running, PartsInv
<1> QED
  BY <1>1, <1>2
-----------------------------------------------------------------------------
(* The invariant of the specification *)

\* A started writer satisfies the invariant.
LEMMA InitW == ASSUME Init PROVE WInv
<1>1. rec = << >> /\ stage = << >> /\ part = << >> /\ Ords = {} /\ Gens = {}
  BY DEF Init, Ords, Gens
<1>2. /\ queue = [s \in Shards |-> << >>] /\ active = [s \in Streams |-> 0]
      /\ loc = NoLocals /\ op = NoOp /\ pc = "idle" /\ mode = "main" /\ cmd = NoCmd
      /\ retiring = {} /\ pendingHour = {} /\ assoc = {} /\ members = {}
  BY DEF Init
<1>3. InQueues = {} /\ InHand = {} /\ loc.held = << >> /\ loc.roll = << >>
  <2>1. ToSet(<< >>) = {}
    BY DEF ToSet
  <2>2. \A s \in Shards : ToSet(queue[s]) = {}
    BY <1>2, <2>1
  <2>3. loc.held = << >> /\ loc.roll = << >>
    BY <1>2 DEF NoLocals
  <2> QED
    BY <2>1, <2>2, <2>3 DEF InQueues, InHand
<1>4. LoopShapes
  <2>1. cmds = << >> /\ cmds \in Seq(CmdType)
    BY DEF Init
  <2>2. cmd \in CmdType
    BY <1>2 DEF NoCmd, CmdType
  <2> QED
    BY <2>1, <2>2 DEF Init, LoopShapes
<1>5. loc \in LocType /\ loc.size = {} /\ loc.pop = 0 /\ loc.from = "none"
  BY <1>2 DEF NoLocals, LocType
<1>6. op \in OpType /\ op.files = {}
  BY <1>2 DEF NoOp, OpType
<1>7. Shapes
  <2>1. rec \in Seq(RecType) /\ part \in Seq(PartType) /\ stage \in [Ords -> Stages]
    BY <1>1
  <2>2. queue \in [Shards -> Seq(Nat)] /\ active \in [Streams -> Nat]
    BY <1>2
  <2> QED
    BY <1>4, <1>5, <1>6, <2>1, <2>2 DEF Shapes
<1>8. Names
  <2>1. \A s \in Shards : ToSet(queue[s]) \subseteq Ords
    BY <1>2, <1>3 DEF InQueues
  <2>2. \A s \in Streams : active[s] = 0
    BY <1>2
  <2> QED
    BY <1>1, <1>2, <1>3, <1>5, <1>6, <2>1, <2>2 DEF Names
<1>9. Commands /\ ActiveNewest /\ OpenActive /\ Claims
  <2>1. \A s \in Streams : active[s] = 0
    BY <1>2
  <2> QED
    BY <1>1, <1>2, <2>1 DEF Commands, ActiveNewest, OpenActive, Claims
<1>10. HandInv
  <2>1. ToSet(loc.held) = {} /\ ToSet(loc.roll) = {}
    BY <1>3, ToSetEmpty
  <2>2. HandWhere
    BY <1>2, <1>3, <1>5 DEF HandWhere
  <2>3. HandOnce
    BY <1>3, <2>1, NoRows DEF HandOnce
  <2>4. HandFirst /\ HandPart
    BY <1>2, <1>3, <2>1 DEF HandFirst, HandPart
  <2> QED
    BY <2>2, <2>3, <2>4 DEF HandInv
<1>11. RowsInv
  <2>1. Queues
    <3>1. \A s \in Shards : queue[s] = << >>
      BY <1>2
    <3>2. \A s \in Shards : ToSet(queue[s]) = {}
      BY <1>3 DEF InQueues
    <3> QED
      BY <3>1, <3>2 DEF Queues, Increasing
  <2>2. QueuedWhere /\ RowStages /\ OnePart /\ Order
    BY <1>1, <1>3 DEF QueuedWhere, RowStages, OnePart, Order
  <2>3. Waiting
    BY <1>1, <1>2 DEF Waiting
  <2> QED
    BY <2>1, <2>2, <2>3 DEF RowsInv
<1>12. RoutedRight
  BY <1>1 DEF RoutedRight
<1> QED
  BY <1>2, <1>7, <1>8, <1>9, <1>10, <1>11, <1>12 DEF WInv, TypeInv, Running, PartsInv

\* So does a state in which nothing changed.
LEMMA StutterW == ASSUME WInv, UNCHANGED vars PROVE WInv'
<1>1. /\ UNCHANGED <<rec, queue, stage, part, active, retiring, pendingHour, assoc>>
      /\ UNCHANGED <<work, due, cmds, cmd, life, adm, cfg, pc, mode, op, nest, wakeAfter, loc>>
      /\ UNCHANGED <<members, oldest, cause, rotations, submitted, closing, synced>>
  BY DEF vars, ingressVars, partVars, loopVars, ctlVars, histVars
<1>2. /\ Ords' = Ords /\ Gens' = Gens /\ InHand' = InHand /\ InQueues' = InQueues
      /\ \A g \in Gens : Rows(g)' = Rows(g) /\ DeferredRows(g)' = DeferredRows(g)
  BY <1>1 DEF Ords, Gens, InHand, InQueues, Rows, DeferredRows
<1>3. TypeInv' <=> TypeInv
  BY <1>1, <1>2 DEF TypeInv, Shapes, LoopShapes, Names, Rows, DeferredRows, InHand
<1>4. RoutedRight' <=> RoutedRight
  BY <1>1, <1>2 DEF RoutedRight, Rows, DeferredRows
<1>5. Ended' <=> Ended
  BY <1>1 DEF Ended
<1>6. Commands' <=> Commands
  BY <1>1 DEF Commands
<1>7. PartsInv' <=> PartsInv
  BY <1>1, <1>2 DEF PartsInv, ActiveNewest, OpenActive, Claims
<1>8. HandInv' <=> HandInv
  BY <1>1, <1>2 DEF HandInv, HandWhere, HandOnce, HandFirst, HandPart, ShardOfRow, PartOf
<1>9. RowsInv' <=> RowsInv
  <2>1. (Queues /\ QueuedWhere)' <=> (Queues /\ QueuedWhere)
    BY <1>1, <1>2 DEF Queues, QueuedWhere, ShardOfRow
  <2>2. (RowStages /\ OnePart)' <=> (RowStages /\ OnePart)
    BY <1>1, <1>2 DEF RowStages, OnePart, Rows, DeferredRows
  <2>3. Waiting' <=> Waiting
    BY <1>1, <1>2 DEF Waiting, Popping, Rows, DeferredRows
  <2>4. Order' <=> Order
    BY <1>1, <1>2 DEF Order, Rows, DeferredRows
  <2> QED
    BY <2>1, <2>2, <2>3, <2>4 DEF RowsInv
<1> QED
  BY <1>1, <1>3, <1>4, <1>5, <1>6, <1>7, <1>8, <1>9 DEF WInv, Running

\* Every step keeps the invariant: one case for each action.
LEMMA NextW == ASSUME WInv, [Next]_vars PROVE WInv'
<1>1. CASE UNCHANGED vars \/ Stopped
  BY <1>1, StutterW DEF Stopped
<1>2. CASE Clients
  BY <1>2, TryAcceptW, SubmitW DEF Clients
<1>3. CASE Tick
  BY <1>3, TickW
<1>4. CASE Draining
  BY <1>4, WakeUpW, DeferredLostW, DeferredRowW, PopDeferredW, DeferredSettledW, PassW,
     MaterializedW, SweepW, EnsuredW, PlaceW, PlacedW, PassEndW, ResumedW, DrainedW, CritSyncW
  DEF Draining
<1>5. CASE Commanding
  BY <1>5, NextCommandW, ExecSyncW, ExecIncompleteW, PeriodicW, ExecDetachW DEF Commanding
<1>6. CASE Closing
  <2>1. ASSUME NEW chosen \in SUBSET {g \in ActiveParts : Rows(g) # {}}, Rotate(chosen)
        PROVE  WInv'
    <3>1. chosen \subseteq ActiveParts
      OBVIOUS
    <3> QED
      BY <2>1, <3>1, RotateW
  <2> QED
    BY <1>6, <2>1, RotatedW, DiscardEmptyW, DiscardedW, BarrierW, ClosedW DEF Closing
<1>7. CASE Pumping
  BY <1>7, PumpWakeW, NestRowW, NestEndW DEF Pumping
<1>8. CASE Storage
  BY <1>8, FileSyncedW, FileFailedW, FileClosedW, BatchDoneW, FileOpDoneW DEF Storage
<1> QED
  BY <1>1, <1>2, <1>3, <1>4, <1>5, <1>6, <1>7, <1>8 DEF Next, Actor

\* The inductive invariant holds whatever the streams, the records, the commands
\* and the failures: every action of the actor, a client or the storage keeps it.
THEOREM WInvAlways == Spec => []WInv
<1>1. Init => WInv
  BY InitW
<1>2. WInv /\ [Next]_vars => WInv'
  BY NextW
<1> QED
  BY <1>1, <1>2, PTL DEF Spec

\* The stages tell where the rows are.
LEMMA WInvPlaces == ASSUME WInv PROVE StageTellsPlace
<1> SUFFICES ASSUME pc # "stopped", NEW n \in Ords
             PROVE  LET holders == {g \in Gens : n \in Rows(g)}
                        waiting == {g \in Gens : n \in DeferredRows(g)}
                    IN CASE stage[n] = "queued" -> /\ (n \in InQueues) # (n \in InHand)
                                                   /\ holders \cup waiting = {}
                         [] stage[n] = "buffered" ->
                              /\ n \notin InQueues \cup InHand
                              /\ Cardinality(holders) + Cardinality(waiting) = 1
                              /\ \A g \in holders : n \in ToSet(part[g].buf)
                         [] stage[n] = "inflight" ->
                              /\ \E g \in Gens : holders = {g} /\ n \in part[g].claimed
                              /\ n \notin InQueues
                         [] OTHER -> n \notin InQueues /\ Cardinality(holders) = 1
  BY DEF StageTellsPlace
<1> DEFINE holders == {g \in Gens : n \in Rows(g)}
           waiting == {g \in Gens : n \in DeferredRows(g)}
<1>0. /\ QueuedWhere /\ RowStages /\ OnePart /\ Waiting /\ stage[n] \in Stages
  BY DEF WInv, Running, RowsInv, TypeInv, Shapes
<1>1. stage[n] = "queued" <=> n \in InQueues \cup InHand
  BY <1>0 DEF QueuedWhere
<1>2. ~(n \in InQueues /\ n \in InHand)
  BY <1>0 DEF QueuedWhere
<1>3. ASSUME NEW g \in Gens, n \in Rows(g)
      PROVE  /\ stage[n] # "queued" /\ holders = {g}
             /\ stage[n] = "buffered" => n \in ToSet(part[g].buf)
             /\ stage[n] = "inflight" => n \in part[g].claimed
  <2>1. /\ n \in ToSet(part[g].buf) => stage[n] = "buffered"
        /\ n \in part[g].claimed => stage[n] \in {"inflight", "durable", "uncertain"}
        /\ n \in part[g].done => stage[n] = "durable"
    BY <1>0 DEF RowStages
  <2>2. holders = {g}
    BY <1>0, <1>3 DEF OnePart
  <2> QED
    BY <1>3, <2>1, <2>2 DEF Rows
<1>4. ASSUME NEW g \in Gens, n \in DeferredRows(g)
      PROVE  /\ waiting = {g}
             /\ \/ stage[n] = "buffered" /\ holders = {}
                \/ stage[n] # "buffered" /\ n \in Rows(g)
  <2>1. waiting = {g}
    BY <1>0, <1>4 DEF Waiting
  <2>2. \/ stage[n] = "buffered" /\ \A h \in Gens : n \notin Rows(h)
        \/ stage[n] # "buffered" /\ n \in Rows(g)
    BY <1>0, <1>4 DEF Waiting
  <2> QED
    BY <2>1, <2>2
<1>5. \A g : Cardinality({g}) = 1
  BY FS_Singleton
<1>6. Cardinality({}) = 0
  BY FS_EmptySet
<1> HIDE DEF holders, waiting
<1>7. CASE stage[n] = "queued"
  <2>1. holders \cup waiting = {}
    BY <1>3, <1>4, <1>7 DEF holders, waiting
  <2>2. (n \in InQueues) # (n \in InHand)
    BY <1>1, <1>2, <1>7
  <2> QED
    BY <1>7, <2>1, <2>2 DEF holders, waiting
<1>8. CASE stage[n] # "queued"
  <2>1. n \notin InQueues \cup InHand
    BY <1>1, <1>8
  <2>2. PICK g \in Gens : n \in Rows(g) \cup DeferredRows(g)
    BY <1>0, <1>8 DEF OnePart
  <2>3. CASE stage[n] = "buffered"
    <3>1. CASE n \in Rows(g)
      <4>1. waiting = {}
        <5>1. \A h \in Gens : n \notin DeferredRows(h)
          BY <1>0, <2>3, <3>1 DEF Waiting
        <5> QED
          BY <5>1 DEF waiting
      <4>2. holders = {g} /\ n \in ToSet(part[g].buf)
        BY <1>3, <2>3, <3>1
      <4>3. Cardinality(holders) + Cardinality(waiting) = 1
        <5>1. Cardinality(holders) = 1 /\ Cardinality(waiting) = 0
          BY <1>5, <1>6, <4>1, <4>2, Zenon
        <5> QED
          BY <5>1
      <4>4. \A h \in holders : n \in ToSet(part[h].buf)
        BY <4>2
      <4> QED
        BY <2>1, <2>3, <4>3, <4>4, Zenon DEF holders, waiting
    <3>2. CASE n \in DeferredRows(g)
      <4>1. waiting = {g} /\ holders = {}
        BY <1>4, <2>3, <3>2
      <4>2. Cardinality(holders) + Cardinality(waiting) = 1
        <5>1. Cardinality(waiting) = 1 /\ Cardinality(holders) = 0
          BY <1>5, <1>6, <4>1, Zenon
        <5> QED
          BY <5>1
      <4>3. \A h \in holders : n \in ToSet(part[h].buf)
        BY <4>1
      <4> QED
        BY <2>1, <2>3, <4>2, <4>3, Zenon DEF holders, waiting
    <3> QED
      BY <2>2, <3>1, <3>2
  <2>4. CASE stage[n] # "buffered"
    <3>1. n \in Rows(g)
      BY <1>4, <2>2, <2>4
    <3>2. holders = {g} /\ (stage[n] = "inflight" => n \in part[g].claimed)
      BY <1>3, <3>1
    <3> QED
      BY <1>5, <1>8, <2>1, <2>4, <3>2 DEF holders, waiting
  <2> QED
    BY <2>3, <2>4
<1> QED
  BY <1>7, <1>8

\* The types of the variables.
LEMMA WInvTypes == ASSUME WInv PROVE TypeOK
<1>0. TypeInv /\ Shapes /\ Names /\ LoopShapes
  BY DEF WInv, TypeInv, Shapes
<1>1. \A n \in Ords : rec[n].stream \in Streams /\ rec[n].hour \in Hours
  BY <1>0, RecFacts
<1>2. queue \in [Shards -> Seq(Ords)]
  <2>1. ASSUME NEW s \in Shards PROVE queue[s] \in Seq(Ords)
    <3>1. queue[s] \in Seq(Nat) /\ ToSet(queue[s]) \subseteq Ords
      BY <1>0 DEF Shapes, Names
    <3>2. /\ Len(queue[s]) \in Nat /\ queue[s] \in [1..Len(queue[s]) -> Nat]
          /\ \A i \in 1..Len(queue[s]) : queue[s][i] \in Ords
      BY <3>1, ToSetFacts
    <3>3. queue[s] \in [1..Len(queue[s]) -> Ords]
      BY <3>2
    <3> QED
      BY <3>2, <3>3
  <2> QED
    BY <1>0, <2>1 DEF Shapes
<1>3. \A g \in Gens : part[g].stream \in Streams /\ part[g].state \in States
  BY <1>0, PartFacts DEF PartType
<1>4. active \in [Streams -> Gens \cup {0}]
  BY <1>0 DEF Shapes, Names
<1> QED
  BY <1>0, <1>1, <1>2, <1>3, <1>4 DEF TypeOK, Shapes, LoopShapes, Names, States

\* The invariant implies RowsKept.
LEMMA WInvRows == ASSUME WInv PROVE RowsKept
<1>1. RoutedRight
  BY DEF WInv
<1>2. StreamOrder
  BY DEF StreamOrder, WInv, Running, RowsInv, Order
<1> QED
  BY <1>1, <1>2, WInvPlaces, WInvTypes DEF RowsKept

\* No row is lost, duplicated, misrouted or reordered on its way from the ingress
\* queue to a part: whatever the streams and shards, the frame size, the hours,
\* and whichever commands, rotations and storage failures interleave.
THEOREM RowsAlwaysKept == Spec => []RowsKept
<1>1. WInv => RowsKept
  BY WInvRows
<1> QED
  BY <1>1, WInvAlways, PTL
=============================================================================
