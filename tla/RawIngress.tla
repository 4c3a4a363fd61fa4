---------------------------- MODULE RawIngress ----------------------------
(***************************************************************************)
(* The admission side of the raw storage writer                            *)
(* (src/crypto_collector/storage/ingress.py): the resident byte budget     *)
(* shared by every ingress of one worker, the bounded queue of each shard, *)
(* the writer sequence of each logical identity, the global acceptance     *)
(* ordinal, and the replacement of the ingress when the configuration      *)
(* changes generation.                                                     *)
(*                                                                         *)
(* A draft is abstracted to its logical identity (the sequence key), the   *)
(* number of bytes it is charged (encoded record plus encoded control      *)
(* association) and whether its control association resolves to targets.   *)
(*                                                                         *)
(* An ingress that was replaced keeps no state: it answers NOT_ACCEPTING   *)
(* and changes nothing, so only the current ingress has variables.         *)
(***************************************************************************)
EXTENDS Integers, Sequences, FiniteSets, FiniteSetsExt

CONSTANTS NormalKeys,       \* logical identities of native streams
          ControlKey,       \* the logical identity of the _control stream
          NormalShards,     \* shards of native streams
          ControlShard,     \* the _control shard
          NoShard,          \* a key that no accepted record bound to a shard
          Charges,          \* the possible byte charges of a record
          WorkerMaxBytes,   \* IngressConfig.worker_max_bytes
          ControlReserve,   \* IngressConfig.control_reserve_bytes
          HighWaterBytes,   \* ceil(worker_max_bytes * high_water_ratio)
          ShardMaxRecords,  \* IngressConfig.shard_max_records
          ShardMaxBytes,    \* IngressConfig.shard_max_bytes
          MaxAccepted,      \* bound on the records one behaviour accepts
          MaxOverflow,      \* bound on the overflows counted per class
          MaxGeneration     \* bound on the configuration generations

Keys == NormalKeys \cup {ControlKey}
Shards == NormalShards \cup {ControlShard}
Classes == {"normal", "control"}

\* ResidentBudget.__init__ and IngressConfig refuse every other configuration.
ASSUME BudgetAssumption ==
    /\ WorkerMaxBytes \in Nat
    /\ ControlReserve \in Nat
    /\ 0 < ControlReserve
    /\ ControlReserve < WorkerMaxBytes
    /\ Charges \subseteq Nat \ {0}

ASSUME ShardAssumption ==
    /\ ShardMaxRecords \in Nat
    /\ ShardMaxBytes \in Nat
    /\ HighWaterBytes \in Nat
    /\ ControlShard \notin NormalShards
    /\ NoShard \notin Shards
    /\ ControlKey \notin NormalKeys

ASSUME BoundAssumption ==
    /\ MaxAccepted \in Nat
    /\ MaxOverflow \in Nat
    /\ MaxGeneration \in Nat

VARIABLES
    charges,        \* ResidentBudget._charges: acceptance ordinal -> charge
    residentBytes,  \* class -> _normal/_control_resident_bytes
    residentCount,  \* class -> _normal/_control_resident_records
    queues,         \* shard -> its queue of accepted records
    queuedBytes,    \* shard -> bytes of the records in its queue
    nextSeq,        \* key -> next writer sequence
    shardOf,        \* key -> the shard it is bound to
    nextOrdinal,    \* next acceptance ordinal, also the accepted count
    pending,        \* ordinals of the pending control associations
    overflows,      \* class -> overflow count
    highWater,      \* _enqueue_high_water_count
    generation,     \* config generation of the current ingress
    held            \* records drained by the writer, still charged (external)

budget == <<charges, residentBytes, residentCount>>
vars == <<charges, residentBytes, residentCount, queues, queuedBytes, nextSeq,
          shardOf, nextOrdinal, pending, overflows, highWater, generation, held>>

Record == [ord : Nat, key : Keys, seq : Nat, gen : Nat]

Init ==
    /\ charges = [o \in {} |-> << >>]
    /\ residentBytes = [c \in Classes |-> 0]
    /\ residentCount = [c \in Classes |-> 0]
    /\ queues = [s \in Shards |-> << >>]
    /\ queuedBytes = [s \in Shards |-> 0]
    /\ nextSeq = [k \in Keys |-> 0]
    /\ shardOf = [k \in Keys |-> NoShard]
    /\ nextOrdinal = 0
    /\ pending = {}
    /\ overflows = [c \in Classes |-> 0]
    /\ highWater = 0
    /\ generation = 0
    /\ held = {}
-----------------------------------------------------------------------------
(* ResidentBudget *)

Resident == residentBytes["normal"] + residentBytes["control"]

\* The reserve is forgotten: normal records may fill the whole budget.
FitsWithoutReserve(class, charge) == Resident + charge <= WorkerMaxBytes

Fits(class, charge) ==
    /\ Resident + charge <= WorkerMaxBytes
    /\ class = "normal" =>
          residentBytes["normal"] + charge <= WorkerMaxBytes - ControlReserve

Reserve(ord, class, charge) ==
    /\ charges' = [o \in DOMAIN charges \cup {ord} |->
                     IF o = ord THEN [class |-> class, bytes |-> charge]
                                ELSE charges[o]]
    /\ residentBytes' = [residentBytes EXCEPT ![class] = @ + charge]
    /\ residentCount' = [residentCount EXCEPT ![class] = @ + 1]

\* The wrong counter is credited: always the normal one.
UnchargeNormalOnly(ord) ==
    /\ charges' = [o \in DOMAIN charges \ {ord} |-> charges[o]]
    /\ residentBytes' = [residentBytes EXCEPT !["normal"] = @ - charges[ord].bytes]
    /\ residentCount' = [residentCount EXCEPT !["normal"] = @ - 1]

Uncharge(ord) ==
    LET class == charges[ord].class IN
    /\ charges' = [o \in DOMAIN charges \ {ord} |-> charges[o]]
    /\ residentBytes' = [residentBytes EXCEPT ![class] = @ - charges[ord].bytes]
    /\ residentCount' = [residentCount EXCEPT ![class] = @ - 1]
-----------------------------------------------------------------------------
(* RawIngress *)

Class(key) == IF key = ControlKey THEN "control" ELSE "normal"

\* The class of the shard is not checked.
ShardAllowedAnyClass(key, shard) == shardOf[key] \in {NoShard, shard}

\* The binding check is dropped: one identity may spread over two shards.
ShardAllowedUnbound(key, shard) == (shard = ControlShard) = (Class(key) = "control")

\* _validate_class_shard and the binding of a logical identity to one shard:
\* a draft that fails either raises before anything changes.
ShardAllowed(key, shard) ==
    /\ (shard = ControlShard) = (Class(key) = "control")
    /\ shardOf[key] \in {NoShard, shard}

HasRoom(key, shard, charge) ==
    /\ Len(queues[shard]) < ShardMaxRecords
    /\ queuedBytes[shard] + charge <= ShardMaxBytes
    /\ Fits(Class(key), charge)

\* try_accept, the admitting path.
Accept(key, shard, charge, associated) ==
    /\ nextOrdinal < MaxAccepted
    /\ ShardAllowed(key, shard)
    /\ associated => key = ControlKey
    /\ HasRoom(key, shard, charge)
    /\ Reserve(nextOrdinal, Class(key), charge)
    /\ highWater' = IF Resident + charge >= HighWaterBytes THEN highWater + 1
                                                           ELSE highWater
    /\ queues' = [queues EXCEPT ![shard] =
                    Append(@, [ord |-> nextOrdinal, key |-> key,
                               seq |-> nextSeq[key], gen |-> generation])]
    /\ pending' = IF associated THEN pending \cup {nextOrdinal} ELSE pending
    /\ queuedBytes' = [queuedBytes EXCEPT ![shard] = @ + charge]
    /\ shardOf' = [shardOf EXCEPT ![key] = shard]
    /\ nextSeq' = [nextSeq EXCEPT ![key] = @ + 1]
    /\ nextOrdinal' = nextOrdinal + 1
    /\ UNCHANGED <<overflows, generation, held>>

\* try_accept, the refusing path: only a counter changes.
Overflow(key, shard, charge) ==
    /\ overflows[Class(key)] < MaxOverflow
    /\ ShardAllowed(key, shard)
    /\ ~HasRoom(key, shard, charge)
    /\ overflows' = [overflows EXCEPT ![Class(key)] = @ + 1]
    /\ UNCHANGED <<budget, queues, queuedBytes, nextSeq, shardOf, nextOrdinal,
                   pending, highWater, generation, held>>

\* drain_one without the update of the shard's byte count.
DrainForgettingBytes(shard) ==
    /\ queues[shard] # << >>
    /\ queues' = [queues EXCEPT ![shard] = Tail(@)]
    /\ held' = held \cup {Head(queues[shard])}
    /\ UNCHANGED <<budget, queuedBytes, nextSeq, shardOf, nextOrdinal, pending,
                   overflows, highWater, generation>>

\* drain_one: the queued bytes go down, the resident charge stays.
DrainOne(shard) ==
    /\ queues[shard] # << >>
    /\ LET record == Head(queues[shard]) IN
       /\ queues' = [queues EXCEPT ![shard] = Tail(@)]
       /\ queuedBytes' = [queuedBytes EXCEPT ![shard] = @ - charges[record.ord].bytes]
       /\ held' = held \cup {record}
    /\ UNCHANGED <<budget, nextSeq, shardOf, nextOrdinal, pending, overflows,
                   highWater, generation>>

\* take_control_association: the writer takes it when it owns the record.
TakeControlAssociation(record) ==
    /\ record \in held
    /\ record.ord \in pending
    /\ pending' = pending \ {record.ord}
    /\ UNCHANGED <<budget, queues, queuedBytes, nextSeq, shardOf, nextOrdinal,
                   overflows, highWater, generation, held>>

\* A settled record keeps its charge.
ReleaseKeepingCharge(record) ==
    /\ record \in held
    /\ record.ord \notin pending
    /\ held' = held \ {record}
    /\ UNCHANGED <<budget, queues, queuedBytes, nextSeq, shardOf, nextOrdinal,
                   pending, overflows, highWater, generation>>

\* A record is settled although its association was never taken.
ReleaseUntaken(record) ==
    /\ record \in held
    /\ held' = held \ {record}
    /\ Uncharge(record.ord)
    /\ UNCHANGED <<queues, queuedBytes, nextSeq, shardOf, nextOrdinal, pending,
                   overflows, highWater, generation>>

\* The writer settles a record it holds (durable or uncertain) and releases
\* its charge; it has taken the association by then.
Release(record) ==
    /\ record \in held
    /\ record.ord \notin pending
    /\ held' = held \ {record}
    /\ Uncharge(record.ord)
    /\ UNCHANGED <<queues, queuedBytes, nextSeq, shardOf, nextOrdinal, pending,
                   overflows, highWater, generation>>

\* replacement_for_config without the test on the resident budget.
QueuesQuiescent ==
    /\ \A s \in Shards : queues[s] = << >> /\ queuedBytes[s] = 0
    /\ pending = {}

Quiescent ==
    /\ \A s \in Shards : queues[s] = << >> /\ queuedBytes[s] = 0
    /\ residentCount["normal"] + residentCount["control"] = 0
    /\ pending = {}

\* The replacement starts its sequences again, as a fresh RawIngress would.
ReplaceForConfigFresh ==
    /\ generation < MaxGeneration
    /\ Quiescent
    /\ generation' = generation + 1
    /\ queues' = [s \in Shards |-> << >>]
    /\ queuedBytes' = [s \in Shards |-> 0]
    /\ nextSeq' = [k \in Keys |-> 0]
    /\ UNCHANGED <<budget, shardOf, nextOrdinal, pending, overflows, highWater, held>>

\* replacement_for_config: a new ingress with empty queues over the same
\* budget; sequences, bindings, the ordinal and the counters carry over.
ReplaceForConfig ==
    /\ generation < MaxGeneration
    /\ Quiescent
    /\ generation' = generation + 1
    /\ queues' = [s \in Shards |-> << >>]
    /\ queuedBytes' = [s \in Shards |-> 0]
    /\ UNCHANGED <<budget, nextSeq, shardOf, nextOrdinal, pending, overflows,
                   highWater, held>>

Next ==
    \/ \E k \in Keys, s \in Shards, c \in Charges, a \in BOOLEAN : Accept(k, s, c, a)
    \/ \E k \in Keys, s \in Shards, c \in Charges : Overflow(k, s, c)
    \/ \E s \in Shards : DrainOne(s)
    \/ \E r \in held : TakeControlAssociation(r)
    \/ \E r \in held : Release(r)
    \/ ReplaceForConfig

Spec == Init /\ [][Next]_vars
-----------------------------------------------------------------------------
(* Properties *)

Queued(shard) == {queues[shard][i] : i \in DOMAIN queues[shard]}
AllQueued == UNION {Queued(s) : s \in Shards}
ResidentRecords == AllQueued \cup held
BytesOf(ords) == MapThenSumSet(LAMBDA o : charges[o].bytes, ords)
OrdsOf(class) == {o \in DOMAIN charges : charges[o].class = class}

TypeOK ==
    /\ DOMAIN charges \in SUBSET Nat
    /\ charges \in [DOMAIN charges -> [class : Classes, bytes : Charges]]
    /\ residentBytes \in [Classes -> Int]
    /\ residentCount \in [Classes -> Int]
    /\ queues \in [Shards -> Seq(Record)]
    /\ queuedBytes \in [Shards -> Int]
    /\ nextSeq \in [Keys -> Nat]
    /\ shardOf \in [Keys -> Shards \cup {NoShard}]
    /\ \A k \in NormalKeys : shardOf[k] # ControlShard
    /\ shardOf[ControlKey] \in {ControlShard, NoShard}
    /\ nextOrdinal \in Nat
    /\ pending \in SUBSET Nat
    /\ overflows \in [Classes -> Nat]
    /\ highWater \in Nat
    /\ generation \in Nat
    /\ held \in SUBSET Record

\* The two counters that admission compares with the budget (ResidentBudget)
\* never drift from the charges actually outstanding, in bytes and in records,
\* whatever the order in which the writer releases normal and control records.
BudgetConserved ==
    \A c \in Classes :
       /\ residentBytes[c] = BytesOf(OrdsOf(c))
       /\ residentCount[c] = Cardinality(OrdsOf(c))

\* Normal traffic, at any load, leaves the control reserve: a control record
\* that stays within the reserve always passes ResidentBudget.fits, and the
\* whole worker never holds more than worker_max_bytes.
ControlReserveKept ==
    /\ Resident <= WorkerMaxBytes
    /\ \A c \in Charges :
          residentBytes["control"] + c <= ControlReserve => Fits("control", c)

\* Each queue's byte count is the sum of its records' charges, so drain_one
\* never underflows and an empty queue frees the whole shard limit again.
QueuedBytesExact ==
    \A s \in Shards : queuedBytes[s] = BytesOf({r.ord : r \in Queued(s)})

\* A record is charged exactly while it is queued or in the writer's hands:
\* nothing is charged twice, leaked by a replacement, or held uncharged.
ChargedWhileResident ==
    /\ DOMAIN charges = {r.ord : r \in ResidentRecords}
    /\ \A r \in ResidentRecords : charges[r.ord].class = Class(r.key)

\* No two places hold records of one acceptance ordinal, and every ordinal in
\* use was handed out: an identity names one accepted record (the keys of
\* ResidentBudget._charges and of the writer's ledger rely on it).
OrdinalsUnique ==
    /\ \A s \in Shards : \A i \in DOMAIN queues[s] : queues[s][i].ord < nextOrdinal
    /\ \A r \in held : r.ord < nextOrdinal
    /\ \A s, t \in Shards : \A i \in DOMAIN queues[s] : \A j \in DOMAIN queues[t] :
          queues[s][i].ord = queues[t][j].ord => s = t /\ i = j
    /\ \A r \in held : \A s \in Shards : \A i \in DOMAIN queues[s] :
          queues[s][i].ord # r.ord
    /\ \A q, r \in held : q.ord = r.ord => q = r

\* The records of one logical identity leave the ingress in writer-sequence
\* order without a gap, from the one shard the identity is bound to: a queued
\* record is followed, in its own queue, by its successor or is the last one
\* accepted, across configuration generations.
SequenceOrder ==
    \A s \in Shards : \A i \in DOMAIN queues[s] :
       LET r == queues[s][i]
           later == {j \in DOMAIN queues[s] : j > i /\ queues[s][j].key = r.key}
       IN /\ shardOf[r.key] = s
          /\ r.seq < nextSeq[r.key]
          /\ \A j \in later : r.seq < queues[s][j].seq
          /\ \/ r.seq + 1 = nextSeq[r.key]
             \/ \E j \in later : queues[s][j].seq = r.seq + 1

\* Records of two configuration generations are never resident together: the
\* old configuration's records are all settled before the ingress is replaced.
SingleGeneration == \A r \in ResidentRecords : r.gen = generation

\* An associated control record keeps its association until the writer takes it.
PendingResident ==
    pending \subseteq {r.ord : r \in {x \in ResidentRecords : x.key = ControlKey}}

\* The ingress agrees with itself: what admission compares with its limits is
\* what is outstanding, each queue is a run of its keys' sequences, and no
\* association outlives its record, over any order of admissions, overflows,
\* drains, releases and a replacement.
IngressConsistent ==
    TypeOK /\ BudgetConserved /\ QueuedBytesExact /\ SequenceOrder /\ PendingResident

\* Sequences, ordinals and bindings only grow: a configuration change or an
\* overflow never hands out an identity that was already used.
IdentitiesNeverReused ==
    [][ /\ nextOrdinal' >= nextOrdinal
        /\ \A k \in Keys : /\ nextSeq'[k] >= nextSeq[k]
                           /\ shardOf[k] # NoShard => shardOf'[k] = shardOf[k] ]_vars
=============================================================================
