--------------------------- MODULE WriterService ---------------------------
(***************************************************************************)
(* The single actor of the raw storage writer                              *)
(* (src/crypto_collector/storage/service.py) from a started writer to its  *)
(* end: it drains the ingress queues into the active raw part of each      *)
(* stream, seals and syncs full or old frames, rotates parts, publishes    *)
(* them through the final barrier, and serves the sync, rotate, config,    *)
(* close and incomplete commands.                                          *)
(*                                                                         *)
(* The actor is one asyncio task.  Between two awaits nothing else runs,   *)
(* so clients, the timer and storage completions take steps only while it  *)
(* is suspended: at the top of its loop, at an explicit yield, or in an    *)
(* operation (op).  Most operations are awaited in _pump_task, where a     *)
(* wake-up makes the actor drain, without storage I/O, what it can: the    *)
(* nested drain, atomic here (nest).                                       *)
(*                                                                         *)
(* Abstractions: a frame holds FrameRecords rows, a "big" row exceeds a    *)
(* frame on its own; size and age limits of a part are a free choice; the  *)
(* drain quantum (1024 rows) and the sync concurrency are larger than the  *)
(* instances; the byte budget is RawIngress's subject.                     *)
(***************************************************************************)
EXTENDS Integers, Sequences, FiniteSets, FiniteSetsExt, SequencesExt

CONSTANTS DataStreams,    \* native logical streams
          ControlStream,  \* the _control stream
          ShardOf,        \* stream -> its ingress shard
          FrameRecords,   \* rows that fit one plain frame
          BigRows,        \* subset of BOOLEAN: may rows exceed a frame?
          TargetSets,     \* sets of streams a control row may ask to be linked to
          Kinds,          \* command kinds that clients submit
          MaxRecords,     \* bound on accepted records
          Hours,          \* the received UTC hours of records
          MaxRotations,   \* bound on size/age rotations
          MaxCommands,    \* bound on submitted commands
          StorageFails,   \* subset of BOOLEAN: may a storage operation fail?
          Ages            \* subset of BOOLEAN: may the oldest-record and close deadlines pass?

Streams == DataStreams \cup {ControlStream}
Shards == {ShardOf[s] : s \in Streams}
NoOp == [kind |-> "none", files |-> {}, pumped |-> FALSE, failed |-> "no"]
NoCmd == [kind |-> "none", wm |-> 0, cfg |-> 0]

ASSUME ServiceAssumption ==
    /\ ControlStream \notin DataStreams
    /\ ShardOf \in [Streams -> Shards]
    /\ FrameRecords \in Nat \ {0}
    /\ {MaxRecords, MaxRotations, MaxCommands} \subseteq Nat
    /\ BigRows \subseteq BOOLEAN /\ StorageFails \subseteq BOOLEAN /\ Ages \subseteq BOOLEAN
    /\ TargetSets \subseteq SUBSET Streams /\ {} \in TargetSets
    /\ Hours \subseteq Nat
    /\ Kinds \subseteq {"sync", "rotate_due", "rotate_config", "close", "incomplete"}

VARIABLES
    rec,         \* accepted records, by acceptance ordinal
    stage,       \* ordinal -> durability stage in the ledger
    queue,       \* shard -> ordinals queued in the ingress
    part,        \* raw parts, by generation
    active,      \* stream -> its active generation, 0 if none
    retiring,    \* _retiring
    pendingHour, \* _pending_hour_retired
    assoc,       \* ordinals in _control_associations
    work,        \* _work_event
    due,         \* _periodic_due
    cmds, cmd,   \* queued commands, active command
    life, adm,   \* lifecycle, admission state
    cfg,         \* config generation
    pc,          \* where the actor is
    mode,        \* "main", "cmd" or "crit": on whose behalf it drains
    op,          \* the storage operation it awaits
    nest,        \* TRUE inside the nested drain
    wakeAfter,   \* _pump_task's wake_after_task
    loc,         \* locals of the drain
    members,     \* generations being closed
    oldest,      \* _pending_oldest_error_facts is set
    cause,       \* why the writer became critical
    rotations, submitted, closing, synced  \* bounds and history

ingressVars == <<rec, queue>>
partVars == <<part, active, retiring, pendingHour, assoc>>
loopVars == <<work, due, cmds, cmd, life, adm, cfg>>
ctlVars == <<pc, mode, op, nest, wakeAfter, loc, members, oldest, cause>>
histVars == <<rotations, submitted, closing, synced>>
vars == <<ingressVars, stage, partVars, loopVars, ctlVars, histVars>>

Ords == DOMAIN rec
Gens == DOMAIN part
NoLocals == [todo |-> {}, busy |-> {}, held |-> << >>, roll |-> << >>,
             size |-> {}, cold |-> FALSE, moved |-> FALSE, from |-> "none", pop |-> 0]
SyncOp(files) == [kind |-> "sync", files |-> files, pumped |-> TRUE, failed |-> "no"]
FileOp(kind, pumped) == [kind |-> kind, files |-> {}, pumped |-> pumped, failed |-> "no"]

Init ==
    /\ rec = << >> /\ stage = << >>
    /\ queue = [s \in Shards |-> << >>]
    /\ part = << >>
    /\ active = [s \in Streams |-> 0]
    /\ retiring = {} /\ pendingHour = {} /\ assoc = {}
    /\ work = FALSE /\ due = FALSE
    /\ cmds = << >> /\ cmd = NoCmd
    /\ life = "ACCEPTING" /\ adm = "OPEN" /\ cfg = 0
    /\ pc = "idle" /\ mode = "main" /\ op = NoOp /\ nest = FALSE
    /\ wakeAfter = FALSE /\ loc = NoLocals /\ members = {}
    /\ oldest = FALSE /\ cause = "none"
    /\ rotations = 0 /\ submitted = 0 /\ closing = FALSE /\ synced = 0
-----------------------------------------------------------------------------
(* Helpers *)

Unsettled == {n \in Ords : stage[n] \in {"queued", "buffered", "inflight"}}
ActiveParts == {g \in Gens : active[part[g].stream] = g /\ part[g].state = "open"}

\* The retiring map is forgotten.
OwnedActive(g) == g \in ActiveParts

Owned(g) == g \in ActiveParts \cup retiring
Rows(g) == ToSet(part[g].buf) \cup part[g].claimed \cup part[g].done
Deferred == {g \in Gens : part[g].deferred # << >>}

\* Before the first record there is no watermark.
Within(n, wm) == wm = 0 \/ n <= wm


Watermark == IF mode = "cmd" THEN cmd.wm ELSE 0

\* The list that a batch is made from, smallest first: its members are of different
\* streams, so their order decides only who gets which number.
InOrder(S) ==
    CHOOSE f \in [1..Cardinality(S) -> S] : \A i, j \in 1..Cardinality(S) : i < j => f[i] < f[j]

Nonempty == {s \in Shards : queue[s] # << >>}

\* asyncio: anyone else runs only while the actor awaits something.
Suspended == ~nest /\ (pc \in {"idle", "yield"} \/ op # NoOp)

\* The hour of the record is not compared with the part's.
NoIOAnyHour(n) == active[rec[n].stream] \in ActiveParts

\* _can_drain_without_storage_io
NoIO(n) ==
    LET g == active[rec[n].stream] IN
    g \in ActiveParts /\ part[g].hour = rec[n].hour

NewPart(s, h) ==
    [stream |-> s, hour |-> h, cfg |-> cfg, state |-> "reserved", buf |-> << >>,
     claimed |-> {}, done |-> {}, deferred |-> << >>, folded |-> {}]

\* seal_for_sync of each part: its buffered rows become the claim in flight.
Seal(gens) ==
    [g \in Gens |-> IF g \in gens THEN [part[g] EXCEPT !.claimed = ToSet(part[g].buf),
                                                       !.buf = << >>]
                                  ELSE part[g]]
StageSealed(gens) ==
    [n \in Ords |-> IF \E g \in gens : n \in ToSet(part[g].buf) THEN "inflight" ELSE stage[n]]

\* _sync_parts over active_parts(): the parts with rows to sync.
DirtyActive == {g \in ActiveParts : part[g].buf # << >>}

\* Records still in the queues keep their stage.
UncertainDrained(settled) ==
    [n \in Ords |-> IF settled[n] \in {"buffered", "inflight"} THEN "uncertain" ELSE settled[n]]

\* Every record that is not settled becomes uncertain.
Uncertain(settled) ==
    [n \in Ords |-> IF settled[n] = "durable" THEN "durable" ELSE "uncertain"]

\* _enter_terminal_error and _release_resources: deferred rows go and queued
\* commands fail.
TerminalFrom(why, settled) ==
    /\ stage' = Uncertain(settled)
    /\ part' = [g \in Gens |-> [part[g] EXCEPT !.deferred = << >>]]
    /\ life' = "CRITICAL" /\ adm' = "CLOSED"
    /\ cause' = why
    /\ pc' = "stopped" /\ op' = NoOp /\ nest' = FALSE /\ loc' = NoLocals
    /\ cmds' = << >> /\ work' = FALSE /\ due' = FALSE /\ wakeAfter' = FALSE
    /\ UNCHANGED <<ingressVars, active, retiring, pendingHour, assoc, cmd, cfg,
                   mode, members, oldest, histVars>>

Terminal(why) == TerminalFrom(why, stage)
-----------------------------------------------------------------------------
(* Clients and the timer *)

\* The ledger is not told.
Unregistered == stage

Registered == Append(stage, "queued")

\* RawWriterService.try_accept: an admitted record gets the next ordinal, is
\* queued, and its control association names the generations active now.
TryAccept(s, h, big, targets) ==
    /\ Suspended
    /\ adm = "OPEN"
    /\ Len(rec) < MaxRecords
    /\ targets # {} => s = ControlStream
    /\ \A t \in targets : active[t] # 0
    /\ rec' = Append(rec, [stream |-> s, hour |-> h, cfg |-> cfg, big |-> big,
                           targets |-> {active[t] : t \in targets}])
    /\ stage' = Registered
    /\ queue' = [queue EXCEPT ![ShardOf[s]] = Append(@, Len(rec) + 1)]
    /\ work' = TRUE
    /\ UNCHANGED <<partVars, due, cmds, cmd, life, adm, cfg, ctlVars, histVars>>

\* _periodic_timer
Tick ==
    /\ Suspended
    /\ ~due \/ ~work
    /\ due' = TRUE /\ work' = TRUE
    /\ UNCHANGED <<ingressVars, stage, partVars, cmds, cmd, life, adm, cfg, ctlVars, histVars>>

Command(kind) == [kind |-> kind, wm |-> Len(rec), cfg |-> submitted + 1]

\* A command submitted during a rotation is forgotten.
EnqueuedUnlessRotating(kind) == IF life = "ROTATING" THEN cmds ELSE Append(cmds, Command(kind))

Enqueued(kind) == Append(cmds, Command(kind))

GateAfter(kind) == IF kind \in {"rotate_config", "close", "incomplete"} THEN "CLOSED" ELSE adm

\* sync_now, rotate_due_files, rotate_for_config, close_all, mark_incomplete:
\* what each changes before it awaits its future.  A client of
\* rotate_for_config asks for a generation nobody asked for before.
Submit(kind) ==
    /\ Suspended
    /\ submitted < MaxCommands
    /\ kind = "rotate_config" => life = "ACCEPTING"
    /\ kind = "close" => ~closing
    /\ adm' = GateAfter(kind)
    /\ life' = CASE kind = "rotate_config" /\ adm = "OPEN" -> "ROTATING"
                 [] kind = "close" /\ life # "CRITICAL" -> "CLOSING"
                 [] kind = "incomplete" /\ life = "ACCEPTING" -> "CLOSING"
                 [] OTHER -> life
    /\ cmds' = Enqueued(kind)
    /\ work' = TRUE
    /\ submitted' = submitted + 1
    /\ closing' = (closing \/ kind = "close")
    /\ UNCHANGED <<ingressVars, stage, partVars, due, cmd, cfg, ctlVars, rotations, synced>>
-----------------------------------------------------------------------------
(* Draining: _drain_ingress *)

At(p) == pc = p /\ op = NoOp /\ ~nest

\* _ActivePart.append_accepted: a retired part and a row out of order raise.
Accepts(g, n) == part[g].state = "open" /\ \A m \in Rows(g) : m < n
Fits(g, n) == ~rec[n].big /\ Len(part[g].buf) < FrameRecords

\* What appending row n to part g comes to, I/O allowed or not.
AppendRow(g, n, io) ==
    CASE ~Accepts(g, n) -> "error"
      [] Accepts(g, n) /\ Fits(g, n) -> "append"
      [] Accepts(g, n) /\ ~Fits(g, n) /\ (~io \/ part[g].claimed # {}) -> "defer"
      [] OTHER -> IF part[g].buf = << >> THEN "direct" ELSE "rollover"

\* A row overtakes the deferred rows of its part.
OutcomeOvertaking(g, n, io) == AppendRow(g, n, io)

\* _append_drained_record: behind a deferred row of its part, a row waits too.
Outcome(g, n, io) == IF g \in Deferred THEN "defer" ELSE AppendRow(g, n, io)

PartPlaced(g, n, outcome) ==
    CASE outcome = "append" -> [part EXCEPT ![g].buf = Append(@, n)]
      [] outcome = "defer" -> [part EXCEPT ![g].deferred = Append(@, n)]
      [] outcome = "direct" -> [part EXCEPT ![g].claimed = {n}]
      [] OTHER -> part

\* _defer_record forgets _mark_buffered.
StagePlacedUnmarked(n, outcome) ==
    CASE outcome = "append" -> [stage EXCEPT ![n] = "buffered"]
      [] outcome = "direct" -> [stage EXCEPT ![n] = "inflight"]
      [] OTHER -> stage

StagePlaced(n, outcome) ==
    CASE outcome \in {"append", "defer"} -> [stage EXCEPT ![n] = "buffered"]
      [] outcome = "direct" -> [stage EXCEPT ![n] = "inflight"]
      [] OTHER -> stage
\* take_control_association
Taken(n) == IF rec[n].targets # {} THEN assoc \cup {n} ELSE assoc

\* The top of _run: with a command waiting the drain is the command's.
WakeUp ==
    /\ At("idle") /\ work
    /\ work' = FALSE
    /\ mode' = "main" /\ loc' = NoLocals
    /\ pc' = IF cmds = << >> THEN "deferred" ELSE "commands"
    /\ UNCHANGED <<ingressVars, stage, partVars, due, cmds, cmd, life, adm, cfg, op, nest,
                   wakeAfter, members, oldest, cause, histVars>>

\* _drain_deferred, the rows whose part can take them now.
Drainable == {g \in Deferred \ loc.size : /\ Within(Head(part[g].deferred), Watermark)
                                          /\ part[g].claimed = {}}

DeferredLost ==
    /\ At("deferred")
    /\ \E g \in Deferred : ~Owned(g)
    /\ Terminal("contract")

DeferredRow ==
    /\ At("deferred") /\ Drainable # {}
    /\ LET g == Min(Drainable)
           n == Head(part[g].deferred)
           outcome == AppendRow(g, n, TRUE)
       IN /\ Owned(g)
          /\ \/ /\ outcome = "error"
                /\ Terminal("contract")
             \/ /\ outcome = "append"
                /\ part' = [part EXCEPT ![g].buf = Append(@, n), ![g].deferred = Tail(@)]
                /\ UNCHANGED <<ingressVars, stage, active, retiring, pendingHour, assoc,
                               loopVars, ctlVars, histVars>>
             \/ /\ outcome = "direct"
                /\ part' = PartPlaced(g, n, outcome)
                /\ stage' = StagePlaced(n, outcome)
                /\ op' = SyncOp({g})
                /\ pc' = "pop" /\ loc' = [loc EXCEPT !.pop = g]
                /\ UNCHANGED <<ingressVars, active, retiring, pendingHour, assoc, loopVars, mode,
                               nest, wakeAfter, members, oldest, cause, histVars>>
             \/ /\ outcome = "rollover"
                /\ loc' = [loc EXCEPT !.size = @ \cup {g}]
                /\ UNCHANGED <<ingressVars, stage, partVars, loopVars, pc, mode, op, nest,
                               wakeAfter, members, oldest, cause, histVars>>

\* A deferred row written directly leaves the deferral list after its sync.
PopDeferred ==
    /\ At("pop")
    /\ part' = [part EXCEPT ![loc.pop].deferred = Tail(@)]
    /\ pc' = "deferred" /\ loc' = [loc EXCEPT !.pop = 0]
    /\ UNCHANGED <<ingressVars, stage, active, retiring, pendingHour, assoc, loopVars, mode, op,
                   nest, wakeAfter, members, oldest, cause, histVars>>

\* The full parts are synced and the deferred rows looked at again, or the
\* drain goes on to the queues.
DeferredSettled ==
    /\ At("deferred") /\ Drainable = {}
    /\ \A g \in Deferred : Owned(g)
    /\ \/ /\ loc.size # {}
          /\ part' = Seal(loc.size) /\ stage' = StageSealed(loc.size)
          /\ op' = SyncOp(loc.size) /\ loc' = NoLocals /\ pc' = "deferred"
       \/ /\ loc.size = {}
          /\ pc' = "pass" /\ loc' = NoLocals
          /\ UNCHANGED <<part, stage, op>>
    /\ UNCHANGED <<ingressVars, active, retiring, pendingHour, assoc, loopVars, mode, nest,
                   wakeAfter, members, oldest, cause, histVars>>

\* One turn of _drain_ingress_owned: the heads without a part are drained
\* together and their first parts materialised (_drain_cold_ingress_batch).
Pass ==
    /\ At("pass")
    /\ \/ /\ Nonempty = {}
          /\ pc' = "drained"
          /\ UNCHANGED <<ingressVars, part, active, op, loc>>
       \/ /\ Nonempty # {}
          /\ LET cold == {s \in Nonempty : /\ Within(Head(queue[s]), Watermark)
                                           /\ active[rec[Head(queue[s])].stream] = 0}
                 rows == InOrder({Head(queue[s]) : s \in cold})
                 next == [loc EXCEPT !.todo = Nonempty, !.cold = FALSE, !.moved = FALSE]
             IN IF cold = {}
                THEN /\ pc' = "sweep" /\ loc' = next
                     /\ UNCHANGED <<ingressVars, part, active, op>>
                ELSE /\ queue' = [s \in Shards |-> IF s \in cold THEN Tail(queue[s]) ELSE queue[s]]
                     /\ part' = part \o [i \in DOMAIN rows |->
                                           NewPart(rec[rows[i]].stream, rec[rows[i]].hour)]
                     /\ active' = [s \in Streams |->
                                     IF \E i \in DOMAIN rows : rec[rows[i]].stream = s
                                     THEN Len(part) + CHOOSE i \in DOMAIN rows : rec[rows[i]].stream = s
                                     ELSE active[s]]
                     /\ op' = FileOp("materialize", TRUE)
                     /\ pc' = "materialized"
                     /\ loc' = [next EXCEPT !.held = rows, !.busy = cold, !.cold = TRUE,
                                            !.moved = TRUE, !.from = "cold"]
                     /\ UNCHANGED rec
    /\ UNCHANGED <<stage, retiring, pendingHour, assoc, loopVars, mode, nest, wakeAfter,
                   members, oldest, cause, histVars>>

\* commit_reserved_batch
Materialized ==
    /\ At("materialized")
    /\ part' = [g \in Gens |-> IF part[g].state = "reserved" THEN [part[g] EXCEPT !.state = "open"]
                                                             ELSE part[g]]
    /\ pc' = "place"
    /\ UNCHANGED <<ingressVars, stage, active, retiring, pendingHour, assoc, loopVars, mode, op,
                   nest, wakeAfter, loc, members, oldest, cause, histVars>>

\* The next shard of the turn: its head is drained if its stream has a part;
\* a part of another hour is replaced first (_ensure_part, not pumped).
Sweep ==
    /\ At("sweep") /\ loc.todo # {}
    /\ LET s == CHOOSE x \in loc.todo : TRUE
           n == Head(queue[s])
           left == [loc EXCEPT !.todo = @ \ {s}]
           taken == [left EXCEPT !.busy = @ \cup {s}, !.held = <<n>>, !.from = "sweep",
                                 !.moved = TRUE]
       IN IF queue[s] = << >> \/ ~Within(n, Watermark) \/ active[rec[n].stream] = 0
          THEN /\ loc' = left
               /\ UNCHANGED <<queue, part, op, pc>>
          ELSE /\ queue' = [queue EXCEPT ![s] = Tail(@)]
               /\ loc' = taken
               /\ IF NoIO(n) THEN pc' = "place" /\ UNCHANGED <<part, op>>
                             ELSE /\ part' = Append(part, NewPart(rec[n].stream, rec[n].hour))
                                  /\ op' = FileOp("materialize", FALSE)
                                  /\ pc' = "ensured"
    /\ UNCHANGED <<rec, stage, active, retiring, pendingHour, assoc, loopVars, mode, nest,
                   wakeAfter, members, oldest, cause, histVars>>

\* replace_reserved_for_hour: the old part retires and waits for its barrier.
\* (It enters _pending_hour_retired after the append, which nobody reads between.)
Ensured ==
    /\ At("ensured")
    /\ LET new == Len(part)
           s == part[new].stream
           old == active[s]
       IN /\ part' = [part EXCEPT ![new].state = "open", ![old].state = "retired"]
          /\ active' = [active EXCEPT ![s] = new]
          /\ retiring' = retiring \cup {old}
          /\ pendingHour' = pendingHour \cup {old}
    /\ pc' = "place"
    /\ UNCHANGED <<ingressVars, stage, assoc, loopVars, mode, op, nest, wakeAfter, loc, members,
                   oldest, cause, histVars>>

\* _append_drained_record for the next row in hand.
Place ==
    /\ At("place") /\ loc.held # << >>
    /\ LET n == Head(loc.held)
           g == active[rec[n].stream]
           outcome == Outcome(g, n, TRUE)
       IN \/ /\ outcome = "error" \/ (outcome = "rollover" /\ loc.from = "roll")
             /\ Terminal("contract")
          \/ /\ outcome # "error" /\ ~(outcome = "rollover" /\ loc.from = "roll")
             /\ part' = PartPlaced(g, n, outcome)
             /\ stage' = StagePlaced(n, outcome)
             /\ assoc' = Taken(n)
             /\ op' = IF outcome = "direct" THEN SyncOp({g}) ELSE NoOp
             /\ loc' = [loc EXCEPT !.held = Tail(@),
                                   !.roll = IF outcome = "rollover" /\ loc.from = "sweep"
                                            THEN Append(@, n) ELSE @]
             /\ UNCHANGED <<ingressVars, active, retiring, pendingHour, loopVars, pc, mode, nest,
                            wakeAfter, members, oldest, cause, histVars>>

\* The rows in hand are placed: their shards are free again, except those whose
\* row waits for its part's frame to be synced.
Placed ==
    /\ At("place") /\ loc.held = << >>
    /\ loc' = [loc EXCEPT !.busy = {ShardOf[rec[n].stream] : n \in ToSet(loc.roll)}]
    /\ pc' = "sweep"
    /\ UNCHANGED <<ingressVars, stage, partVars, loopVars, mode, op, nest, wakeAfter, members,
                   oldest, cause, histVars>>

\* The end of a turn: full frames are synced and their waiting rows appended;
\* then the drain yields after a cold batch, ends, or takes another turn.
PassEnd ==
    /\ At("sweep") /\ loc.todo = {}
    /\ LET full == {active[rec[n].stream] : n \in ToSet(loc.roll)} IN
       \/ /\ loc.roll # << >>
          /\ part' = Seal(full) /\ stage' = StageSealed(full)
          /\ op' = SyncOp(full)
          /\ loc' = [loc EXCEPT !.held = loc.roll, !.roll = << >>, !.from = "roll"]
          /\ pc' = "place"
          /\ UNCHANGED work
       \/ /\ loc.roll = << >>
          /\ pc' = IF loc.cold /\ mode = "main" THEN "yield"
                   ELSE IF loc.moved THEN "pass" ELSE "drained"
          /\ work' = (work \/ (loc.cold /\ mode = "main"))
          /\ loc' = NoLocals
          /\ UNCHANGED <<part, stage, op>>
    /\ UNCHANGED <<ingressVars, active, retiring, pendingHour, assoc, due, cmds, cmd, life, adm,
                   cfg, mode, nest, wakeAfter, members, oldest, cause, histVars>>

\* asyncio.sleep(0)
Resumed ==
    /\ At("yield")
    /\ pc' = "drained"
    /\ UNCHANGED <<ingressVars, stage, partVars, loopVars, mode, op, nest, wakeAfter, loc,
                   members, oldest, cause, histVars>>

\* _drain_ingress returns; a writer that turned critical meanwhile first drains
\* everything (_finish_oldest_critical_drain).
Drained ==
    /\ At("drained")
    /\ loc' = NoLocals
    /\ IF oldest /\ mode # "crit"
       THEN mode' = "crit" /\ pc' = "deferred"
       ELSE /\ pc' = CASE mode = "main" -> "commands" [] mode = "cmd" -> "exec"
                       [] mode = "crit" -> "critSync"
            /\ UNCHANGED mode
    /\ UNCHANGED <<ingressVars, stage, partVars, loopVars, op, nest, wakeAfter, members, oldest,
                   cause, histVars>>

\* The critical drain syncs the active parts until nothing is pending, then the
\* writer ends with the age error.
CritSync ==
    /\ At("critSync")
    /\ LET dirty == DirtyActive IN
       \/ /\ dirty # {}
          /\ part' = Seal(dirty) /\ stage' = StageSealed(dirty)
          /\ op' = SyncOp(dirty)
          /\ UNCHANGED <<ingressVars, active, retiring, pendingHour, assoc, loopVars, pc, mode,
                         nest, wakeAfter, loc, members, oldest, cause, histVars>>
       \/ /\ dirty = {}
          /\ Terminal("oldest")
-----------------------------------------------------------------------------
(* Commands and the periodic work: _run, _execute_command *)

BeginOldest == oldest' = TRUE /\ life' = "CRITICAL" /\ adm' = "CLOSED"

NextCommand ==
    /\ At("commands") /\ cmds # << >>
    /\ cmd' = Head(cmds) /\ cmds' = Tail(cmds)
    /\ mode' = "cmd" /\ pc' = "deferred"
    /\ UNCHANGED <<ingressVars, stage, partVars, work, due, life, adm, cfg, op, nest, wakeAfter,
                   loc, members, oldest, cause, histVars>>

\* Without commands: the periodic work if it is due.
PeriodicWork(late) ==
    /\ due' = FALSE
    /\ \/ /\ ~due
          /\ pc' = "idle"
          /\ UNCHANGED <<part, stage, op, mode, oldest, life, adm>>
       \/ /\ due /\ (oldest \/ (late /\ Unsettled # {}))
          /\ BeginOldest
          /\ mode' = "crit" /\ pc' = "deferred"
          /\ UNCHANGED <<part, stage, op>>
       \/ /\ due /\ ~(oldest \/ (late /\ Unsettled # {}))
          /\ LET dirty == DirtyActive IN
             /\ part' = Seal(dirty) /\ stage' = StageSealed(dirty)
             /\ op' = IF dirty = {} THEN NoOp ELSE SyncOp(dirty)
          /\ pc' = "rotate"
          /\ UNCHANGED <<mode, oldest, life, adm>>
    /\ UNCHANGED <<ingressVars, active, retiring, pendingHour, assoc, work, cmds, cmd, cfg, nest,
                   wakeAfter, loc, members, cause, histVars>>

\* The loop turns to the periodic work with commands still waiting.
PeriodicBeforeCommands(late) == At("commands") /\ PeriodicWork(late)

Periodic(late) == At("commands") /\ cmds = << >> /\ PeriodicWork(late)

ExecSync ==
    /\ At("exec") /\ cmd.kind \in {"sync", "rotate_due"}
    /\ LET dirty == IF cmd.kind = "sync" THEN DirtyActive ELSE {} IN
       /\ part' = Seal(dirty) /\ stage' = StageSealed(dirty)
       /\ op' = IF dirty = {} THEN NoOp ELSE SyncOp(dirty)
    /\ pc' = "rotate"
    /\ UNCHANGED <<ingressVars, active, retiring, pendingHour, assoc, loopVars, mode, nest,
                   wakeAfter, loc, members, oldest, cause, histVars>>

CloseMembers == pendingHour \cup ActiveParts

\* rotate_for_config and close_all detach every active part; the parts retired
\* by an hour change are closed with them.
ExecDetach(late) ==
    /\ At("exec") /\ cmd.kind \in {"rotate_config", "close"}
    /\ \/ /\ cmd.kind = "rotate_config" /\ cmd.cfg <= cfg
          /\ Terminal("contract")
       \/ /\ cmd.kind = "close" /\ late /\ Unsettled # {}
          /\ Terminal("deadline")
       \/ /\ cmd.kind = "rotate_config" => cmd.cfg > cfg
          /\ cmd.kind = "close" => ~(late /\ Unsettled # {})
          /\ members' = CloseMembers
          /\ part' = [g \in Gens |-> IF g \in ActiveParts THEN [part[g] EXCEPT !.state = "retired"]
                                                          ELSE part[g]]
          /\ active' = [s \in Streams |-> 0]
          /\ pc' = "discard"
          /\ UNCHANGED <<ingressVars, stage, retiring, pendingHour, assoc, loopVars, mode, op, nest,
                         wakeAfter, loc, oldest, cause, histVars>>

ExecIncomplete ==
    /\ At("exec") /\ cmd.kind = "incomplete"
    /\ Terminal("incomplete")
-----------------------------------------------------------------------------
(* Rotation and closing: _rotate_due_parts, _close_members *)

\* The caller goes on: the command returns or the loop waits for work.
RotationReturns ==
    /\ pc' = IF mode = "cmd" THEN "commands" ELSE "idle"
    /\ synced' = IF mode = "cmd" /\ cmd.kind = "sync" THEN Max({synced, cmd.wm}) ELSE synced
    /\ cmd' = NoCmd /\ mode' = "main"

\* plan_due_rotations and begin_rotations: any nonempty active parts may be due.
Rotate(chosen) ==
    /\ At("rotate")
    /\ \/ /\ oldest
          /\ mode' = "crit" /\ pc' = "deferred"
          /\ UNCHANGED <<part, active, retiring, op, members, life, rotations, synced, cmd>>
       \/ /\ ~oldest /\ chosen = {} /\ pendingHour = {}
          /\ RotationReturns
          /\ UNCHANGED <<part, active, retiring, op, members, life, rotations>>
       \/ /\ ~oldest /\ chosen = {} /\ pendingHour # {}
          /\ members' = pendingHour /\ life' = "ROTATING" /\ pc' = "discard"
          /\ UNCHANGED <<part, active, retiring, op, mode, rotations, synced, cmd>>
       \/ /\ ~oldest /\ chosen # {}
          /\ rotations + Cardinality(chosen) <= MaxRotations
          /\ LET gens == InOrder(chosen) IN
             /\ part' = [g \in Gens |-> IF g \in chosen THEN [part[g] EXCEPT !.state = "retired"]
                                                        ELSE part[g]]
                        \o [i \in DOMAIN gens |-> NewPart(part[gens[i]].stream, part[gens[i]].hour)]
             /\ active' = [s \in Streams |->
                             IF active[s] \in chosen
                             THEN Len(part) + CHOOSE i \in DOMAIN gens : gens[i] = active[s]
                             ELSE active[s]]
          /\ retiring' = retiring \cup chosen
          /\ members' = chosen
          /\ op' = FileOp("materialize", TRUE)
          /\ pc' = "rotated"
          /\ rotations' = rotations + Cardinality(chosen)
          /\ UNCHANGED <<mode, life, synced, cmd>>
    /\ UNCHANGED <<ingressVars, stage, pendingHour, assoc, work, due, cmds, adm, cfg, nest,
                   wakeAfter, loc, oldest, cause, submitted, closing>>

\* commit_rotations
Rotated ==
    /\ At("rotated")
    /\ part' = [g \in Gens |-> IF part[g].state = "reserved" THEN [part[g] EXCEPT !.state = "open"]
                                                             ELSE part[g]]
    /\ members' = members \cup pendingHour
    /\ life' = "ROTATING" /\ pc' = "discard"
    /\ UNCHANGED <<ingressVars, stage, active, retiring, pendingHour, assoc, work, due, cmds, cmd,
                   adm, cfg, mode, op, nest, wakeAfter, loc, oldest, cause, histVars>>

\* Parts that never took a row.
Empty == {g \in members : Rows(g) = {}}

\* _close_members: parts without rows are discarded, one await each, not pumped.
DiscardEmpty ==
    /\ At("discard") /\ Empty # {}
    /\ op' = FileOp("discard", FALSE)
    /\ pc' = "discarded"
    /\ UNCHANGED <<ingressVars, stage, partVars, loopVars, mode, nest, wakeAfter, loc, members,
                   oldest, cause, histVars>>

Discarded ==
    /\ At("discarded")
    /\ part' = [g \in Gens |-> IF g \in Empty THEN [part[g] EXCEPT !.state = "discarded"]
                                              ELSE part[g]]
    /\ retiring' = retiring \ Empty
    /\ pendingHour' = pendingHour \ Empty
    /\ members' = members \ Empty
    /\ pc' = "discard"
    /\ UNCHANGED <<ingressVars, stage, active, assoc, loopVars, mode, op, nest, wakeAfter, loc,
                   oldest, cause, histVars>>

\* The barrier does not wait for the controls of its parts.
DependenciesIgnored == {}

\* _control_dependencies_for_close: associated controls that name a closing
\* part, and the owned parts that hold their rows.
Dependencies == {n \in assoc : rec[n].targets \cap members # {}}
Closable == ActiveParts \cup retiring \cup members
HoldersOf(n) == {g \in Closable : n \in ToSet(part[g].buf) \cup part[g].claimed}
DependenciesOwned ==
    \A n \in Dependencies : rec[n].targets \subseteq Closable /\ Cardinality(HoldersOf(n)) = 1

\* The final barrier: members and the parts of their controls are sealed into
\* one batch.
Barrier ==
    /\ At("discard") /\ Empty = {}
    /\ \/ /\ members = {}
          /\ pc' = "closed"
          /\ UNCHANGED <<ingressVars, stage, partVars, loopVars, mode, op, nest, wakeAfter, loc,
                         members, oldest, cause, histVars>>
       \/ /\ members # {} /\ ~DependenciesOwned
          /\ Terminal("contract")
       \/ /\ members # {} /\ DependenciesOwned
          /\ LET files == members \cup UNION {HoldersOf(n) : n \in Dependencies} IN
             /\ part' = Seal(files) /\ stage' = StageSealed(files)
             /\ op' = [kind |-> "close", files |-> files, pumped |-> TRUE, failed |-> "no"]
          /\ retiring' = retiring \cup members
          /\ pc' = "closed"
          /\ UNCHANGED <<ingressVars, active, pendingHour, assoc, loopVars, mode, nest, wakeAfter,
                         loc, members, oldest, cause, histVars>>

\* After the barrier: what the rotation, the config change or the close does.
Closed ==
    /\ At("closed")
    /\ \/ /\ cmd.kind \in {"none", "sync", "rotate_due"}
          /\ life' = "ACCEPTING"
          /\ retiring' = retiring \ members /\ pendingHour' = pendingHour \ members
          /\ members' = {}
          /\ RotationReturns
          /\ UNCHANGED <<ingressVars, stage, part, active, assoc, work, due, cmds, adm, cfg, op,
                         nest, wakeAfter, loc, oldest, cause, rotations, submitted, closing>>
       \/ /\ cmd.kind = "rotate_config" /\ Unsettled # {}
          /\ Terminal("contract")
       \/ /\ cmd.kind = "rotate_config" /\ Unsettled = {}
          /\ cfg' = cmd.cfg /\ life' = "ACCEPTING" /\ adm' = "OPEN"
          /\ retiring' = retiring \ members /\ pendingHour' = pendingHour \ members
          /\ members' = {}
          /\ cmd' = NoCmd /\ mode' = "main" /\ pc' = "commands"
          /\ UNCHANGED <<ingressVars, stage, part, active, assoc, work, due, cmds, op, nest,
                         wakeAfter, loc, oldest, cause, histVars>>
       \/ /\ cmd.kind = "close"
          /\ life' = "CLOSED" /\ adm' = "CLOSED"
          /\ retiring' = retiring \ members /\ pendingHour' = pendingHour \ members
          /\ members' = {}
          /\ cmds' = << >> /\ pc' = "stopped"
          /\ UNCHANGED <<ingressVars, stage, part, active, assoc, work, due, cmd, cfg, mode, op,
                         nest, wakeAfter, loc, oldest, cause, histVars>>
-----------------------------------------------------------------------------
(* Storage operations and _pump_task *)

Settled(gens, to) ==
    [n \in Ords |-> IF \E g \in gens : n \in part[g].claimed THEN to ELSE stage[n]]

\* apply_completion of part g, the controls of `folded` recorded in their targets.
Completed(g, folded) ==
    [h \in Gens |->
        [part[h] EXCEPT !.done = IF h = g THEN @ \cup part[g].claimed ELSE @,
                        !.claimed = IF h = g THEN {} ELSE @,
                        !.folded = @ \cup {n \in folded : h \in rec[n].targets}]]

\* _handle_completion of an ordinary sync: every associated control of the claim
\* is folded into all its targets, then its rows are durable.
FileSynced(g) ==
    /\ op.kind = "sync" /\ g \in op.files /\ ~nest
    /\ LET controls == part[g].claimed \cap assoc
           lost == {n \in controls : \E t \in rec[n].targets : ~Owned(t)}
       IN \/ /\ lost = {}
             /\ part' = Completed(g, controls)
             /\ stage' = Settled({g}, "durable")
             /\ assoc' = assoc \ controls
             /\ op' = [op EXCEPT !.files = @ \ {g}]
             /\ UNCHANGED <<ingressVars, active, retiring, pendingHour, loopVars, pc, mode, nest,
                            wakeAfter, loc, members, oldest, cause, histVars>>
          \/ /\ lost # {}
             /\ TerminalFrom("contract", [n \in Ords |->
                    IF n \in part[g].claimed /\ n < Min(lost) THEN "durable" ELSE stage[n]])

\* _handle_completion in the final barrier: only the controls that the barrier
\* depends on are folded; a deadline that passed meanwhile fails the barrier,
\* although the rows are durable.
FileClosed(g, late) ==
    /\ op.kind = "close" /\ g \in op.files /\ ~nest
    /\ LET expired == oldest \/ (late /\ cmd.kind = "close" /\ part[g].claimed # {}) IN
       /\ part' = IF expired THEN part ELSE Completed(g, part[g].claimed \cap Dependencies)
       /\ op' = [op EXCEPT !.files = @ \ {g},
                           !.failed = IF expired THEN (IF oldest THEN "oldest" ELSE "deadline")
                                                 ELSE @]
    /\ stage' = Settled({g}, "durable")
    /\ assoc' = assoc \ part[g].claimed
    /\ UNCHANGED <<ingressVars, active, retiring, pendingHour, loopVars, pc, mode, nest, wakeAfter,
                   loc, members, oldest, cause, histVars>>

\* A failed write or sync: the rows of the file are uncertain.  (They stay in
\* claimed, here and above: the part never confirms them.)
FileFailed(g) ==
    /\ TRUE \in StorageFails
    /\ op.kind \in {"sync", "close"} /\ g \in op.files /\ ~nest
    /\ stage' = Settled({g}, "uncertain")
    /\ assoc' = assoc \ part[g].claimed
    /\ op' = [op EXCEPT !.files = @ \ {g}, !.failed = "storage"]
    /\ UNCHANGED <<ingressVars, part, active, retiring, pendingHour, loopVars, pc, mode, nest, wakeAfter,
                   loc, members, oldest, cause, histVars>>

\* The awaited task is done: _pump_task returns, with a wake-up it owes.
Resume ==
    /\ op' = NoOp
    /\ work' = (work \/ wakeAfter) /\ wakeAfter' = FALSE
    /\ UNCHANGED <<ingressVars, stage, active, retiring, pendingHour, assoc, due, cmds, cmd, life,
                   adm, cfg, pc, mode, nest, loc, members, oldest, cause, histVars>>

BatchOk == op.failed = "no"

BatchDone ==
    /\ op.kind \in {"sync", "close"} /\ op.files = {} /\ ~nest
    /\ \/ /\ ~BatchOk
          /\ Terminal(op.failed)
       \/ /\ BatchOk /\ op.kind = "sync"
          /\ Resume /\ UNCHANGED part
       \/ /\ BatchOk /\ op.kind = "close"
          /\ op' = [op EXCEPT !.kind = "publish"]
          /\ UNCHANGED <<ingressVars, stage, partVars, loopVars, pc, mode, nest, wakeAfter, loc,
                         members, oldest, cause, histVars>>

\* Files created, discarded or published (external: the storage executor).
FileOpDone(fails) ==
    /\ op.kind \in {"materialize", "discard", "publish"} /\ ~nest
    /\ \/ /\ fails
          /\ Terminal("storage")
       \/ /\ ~fails
          /\ Resume
          /\ part' = [g \in Gens |-> IF op.kind = "publish" /\ g \in members
                                     THEN [part[g] EXCEPT !.state = "published"] ELSE part[g]]

NestAllowed == cmds = << >> /\ (cmd = NoCmd \/ retiring # {})

\* A wake-up inside _pump_task: the age of the oldest record is looked at, and
\* with no command waiting the queues are drained without I/O (nest).
PumpWake(late) ==
    /\ op.pumped /\ work /\ ~nest
    /\ work' = FALSE
    /\ LET critical == oldest \/ (late /\ Unsettled # {})
           drain == ~critical /\ NestAllowed
       IN /\ nest' = drain
          /\ wakeAfter' = (wakeAfter \/ ~drain \/ due)
          /\ IF critical THEN BeginOldest ELSE UNCHANGED <<oldest, life, adm>>
    /\ UNCHANGED <<ingressVars, stage, partVars, due, cmds, cmd, cfg, pc, mode, op, loc, members,
                   cause, histVars>>

NestEligible == {s \in Nonempty \ loc.busy : Within(Head(queue[s]), cmd.wm) /\ NoIO(Head(queue[s]))}

NestRow ==
    /\ nest /\ NestEligible # {}
    /\ LET s == CHOOSE x \in NestEligible : TRUE
           n == Head(queue[s])
           g == active[rec[n].stream]
           outcome == Outcome(g, n, FALSE)
       IN \/ /\ outcome = "error"
             /\ Terminal("contract")
          \/ /\ outcome # "error"
             /\ queue' = [queue EXCEPT ![s] = Tail(@)]
             /\ part' = PartPlaced(g, n, outcome)
             /\ stage' = StagePlaced(n, outcome)
             /\ assoc' = Taken(n)
             /\ UNCHANGED <<rec, active, retiring, pendingHour, loopVars, ctlVars, histVars>>

NestEnd ==
    /\ nest /\ NestEligible = {}
    /\ nest' = FALSE
    /\ wakeAfter' = (wakeAfter \/ Nonempty # {} \/ Deferred # {})
    /\ UNCHANGED <<ingressVars, stage, partVars, loopVars, pc, mode, op, loc, members, oldest,
                   cause, histVars>>
-----------------------------------------------------------------------------
(* The specification *)

Clients ==
    \/ \E s \in Streams, h \in Hours, b \in BigRows, t \in TargetSets : TryAccept(s, h, b, t)
    \/ \E k \in Kinds : Submit(k)

Draining ==
    \/ WakeUp \/ DeferredLost \/ DeferredRow \/ PopDeferred \/ DeferredSettled
    \/ Pass \/ Materialized \/ Sweep \/ Ensured \/ Place \/ Placed \/ PassEnd
    \/ Resumed \/ Drained \/ CritSync

Commanding ==
    \/ NextCommand \/ ExecSync \/ ExecIncomplete
    \/ \E late \in Ages : Periodic(late) \/ ExecDetach(late)

Closing ==
    \/ \E due_ \in SUBSET {g \in ActiveParts : Rows(g) # {}} : Rotate(due_)
    \/ Rotated \/ DiscardEmpty \/ Discarded \/ Barrier \/ Closed

Pumping == (\E late \in Ages : PumpWake(late)) \/ NestRow \/ NestEnd

Storage ==
    \/ \E g \in Gens : FileSynced(g) \/ FileFailed(g)
    \/ \E g \in Gens, late \in Ages : FileClosed(g, late)
    \/ BatchDone
    \/ \E fails \in StorageFails : FileOpDone(fails)

Actor == Draining \/ Commanding \/ Closing \/ Pumping

\* A stopped writer stays as it is.
Stopped == pc = "stopped" /\ UNCHANGED vars

Next == Clients \/ Tick \/ Actor \/ Storage \/ Stopped

Spec == Init /\ [][Next]_vars

\* The event loop runs the actor, the timer fires, and _pump_task looks at the
\* completion queue on every turn, so storage completions are never starved.
FairSpec == Spec /\ WF_vars(Actor) /\ WF_vars(Tick) /\ SF_vars(Storage)
-----------------------------------------------------------------------------
(* Properties *)

Stages == {"queued", "buffered", "inflight", "durable", "uncertain"}
DeferredRows(g) == ToSet(part[g].deferred)
InHand == ToSet(loc.held) \cup ToSet(loc.roll)
InQueues == UNION {ToSet(queue[s]) : s \in Shards}

TypeOK ==
    /\ stage \in [Ords -> Stages]
    /\ \A n \in Ords : /\ rec[n].stream \in Streams /\ rec[n].hour \in Hours
                       /\ rec[n].targets \subseteq Gens
    /\ queue \in [Shards -> Seq(Ords)]
    /\ \A g \in Gens : /\ part[g].stream \in Streams
                       /\ part[g].state \in {"reserved", "open", "retired", "published", "discarded"}
                       /\ Rows(g) \cup DeferredRows(g) \cup part[g].folded \subseteq Ords
    /\ active \in [Streams -> Gens \cup {0}]
    /\ retiring \cup pendingHour \cup members \subseteq Gens
    /\ assoc \subseteq Ords
    /\ {work, due, nest, wakeAfter, oldest, closing} \subseteq BOOLEAN
    /\ life \in {"ACCEPTING", "ROTATING", "CLOSING", "CLOSED", "CRITICAL"}
    /\ adm \in {"OPEN", "CLOSED"}
    /\ mode \in {"main", "cmd", "crit"}
    /\ op.files \subseteq Gens
    /\ cause \in {"none", "contract", "storage", "oldest", "deadline", "incomplete"}

\* While the writer runs, the ledger stage of a record (_record_stages) says
\* where it is, and it is in one place only: queued or in the drain's hands,
\* buffered or deferred in one part, or in the claim of one part.  No drain,
\* deferral, rollover or nested drain loses or duplicates a record.
StageTellsPlace ==
    pc # "stopped" =>
      \A n \in Ords :
        LET holders == {g \in Gens : n \in Rows(g)}
            waiting == {g \in Gens : n \in DeferredRows(g)}
        IN CASE stage[n] = "queued" -> /\ (n \in InQueues) # (n \in InHand)
                                       /\ holders \cup waiting = {}
             [] stage[n] = "buffered" ->
                  /\ n \notin InQueues \cup InHand
                  /\ Cardinality(holders) + Cardinality(waiting) = 1
                  /\ \A g \in holders : n \in ToSet(part[g].buf)
             [] stage[n] = "inflight" ->
                  /\ \E g \in Gens : holders = {g} /\ n \in part[g].claimed
                  /\ n \notin InQueues
             [] OTHER -> n \notin InQueues /\ Cardinality(holders) = 1

\* Every row goes to a part of its own stream, received hour and configuration,
\* whatever hour changes, rotations and config changes happen while it waits.
RoutedRight ==
    \A g \in Gens : \A n \in Rows(g) \cup DeferredRows(g) :
       /\ rec[n].stream = part[g].stream
       /\ rec[n].hour = part[g].hour
       /\ rec[n].cfg = part[g].cfg

\* The rows of one stream are written in acceptance order: over its parts in
\* the order of their sequence, within a part, and never past a row that was
\* deferred or is still in the drain's hands or in the queue.
StreamOrder ==
    pc # "stopped" =>
      \A n, m \in Ords :
        (n < m /\ rec[n].stream = rec[m].stream) =>
          \A h \in Gens :
            /\ m \in Rows(h) => \E g \in 1..h : n \in Rows(g) \/ (g < h /\ n \in DeferredRows(g))
            /\ m \in DeferredRows(h) => n \notin InQueues \cup InHand

\* No row is lost, duplicated, misrouted or reordered on its way from the queue
\* to a part, whatever rolls over, is deferred, rotates or is drained meanwhile.
RowsKept == TypeOK /\ StageTellsPlace /\ RoutedRight /\ StreamOrder

\* When the actor has ended, however it ended, each accepted record has been
\* accounted durable or uncertain (unpersisted_record_count is 0).
AllSettled == pc = "stopped" => Unsettled = {}

\* A writer that reports CLOSED has every accepted record durable and confirmed
\* in a part that was published.
CloseComplete ==
    life = "CLOSED" =>
      \A n \in Ords : /\ stage[n] = "durable"
                      /\ \E g \in Gens : part[g].state = "published" /\ n \in part[g].done

\* sync_now is a watermark barrier: after it returned, each record accepted
\* before the call is durable, or the writer is critical.
SyncBarrier == \A n \in Ords : n <= synced => stage[n] = "durable" \/ life = "CRITICAL"

\* The writer never becomes critical because its own bookkeeping disagrees with
\* itself: a deferred row without owned part, a row for a retired part, an
\* association whose target is gone, a config change over unsettled records.
NoContractFailure == cause # "contract"

\* The bookkeeping of the writer disagrees with itself for two causes only: a row is
\* deferred when its part is retired, or when a barrier needs it; or a control record
\* names a part that was published or discarded before the record was drained.  Whatever else is
\* interleaved, no row is placed in a part that is gone or behind a newer one, and the
\* controls of a barrier have their targets and one part each.
ContractForCause ==
    [][(cause # "contract" /\ cause' = "contract") =>
         \/ \E g \in Deferred : g \notin ActiveParts \/ DeferredRows(g) \cap Dependencies # {}
         \/ \E n \in Unsettled : \E t \in rec[n].targets :
               part[t].state \in {"published", "discarded"}]_vars

\* A published part has nothing pending and confirms only durable rows: an
\* uncertain or unsynced row never gets a normal manifest.
PublishedComplete ==
    \A g \in Gens : part[g].state = "published" =>
       /\ part[g].buf = << >> /\ part[g].claimed = {}
       /\ \A n \in part[g].done : stage[n] = "durable"

\* A durable control record is recorded in the manifest accumulator of every
\* generation it was associated with (_fold_control_association), unless an
\* expired deadline ended the writer first.
DurableFolded ==
    (pc # "stopped" /\ op.failed = "no") =>
      \A n \in Ords : stage[n] = "durable" => \A t \in rec[n].targets : n \in part[t].folded

\* A generation that an unsettled control record is associated with stays
\* active or retiring until the control is folded: it is not published before.
TargetsOwned ==
    pc # "stopped" => \A n \in Unsettled : \A t \in rec[n].targets :
                         part[t].state \notin {"published", "discarded"}

\* A control row whose part closes, or has closed, in a final barrier that none of
\* the generations it names takes part in.
ClosedApart(n) ==
    \E g \in Gens : /\ n \in part[g].done
                    /\ part[g].state \in {"retired", "published"}
                    /\ g \in members => rec[n].targets \cap members = {}

\* The associations (_control_associations) are those of the control rows that
\* were drained and are not settled yet, and a control row that an ordinary sync
\* or the barrier of a generation it names made durable is in the manifest of each
\* generation it names, never of some only: whatever part it went to, however it
\* was deferred, and whoever rotated, changed the configuration or closed meanwhile.
ControlsTracked ==
    (pc # "stopped" /\ op.failed = "no") =>
      /\ assoc \subseteq Unsettled
      /\ \A n \in Ords : (stage[n] \in {"buffered", "inflight"} /\ rec[n].targets # {}) => n \in assoc
      /\ \A n \in Ords : stage[n] = "durable" =>
           \/ \A t \in rec[n].targets : n \in part[t].folded
           \/ ClosedApart(n) /\ \A t \in rec[n].targets : n \notin part[t].folded

\* The critical drain for an over-age record persists whatever was accepted:
\* if no storage operation fails, every record ends durable.
CriticalDrainComplete == cause = "oldest" => \A n \in Ords : stage[n] = "durable"


\* After close_all was called no record can be accepted: whenever a client can
\* run, admission is closed, also when an older command reopens it.
AdmissionStaysClosed == closing /\ Suspended => adm = "CLOSED"

\* A close keeps its word: admission stays closed, only complete parts are
\* published, and CLOSED means that every record is in one.
CloseKept == AdmissionStaysClosed /\ PublishedComplete /\ CloseComplete

\* Every accepted record is eventually durable or uncertain, although nobody
\* asks for a sync: the timer and the wake-ups owed by _pump_task see to it.
EverySettles ==
    \A n \in 1..MaxRecords :
       (n \in Ords) ~> (n \in Ords /\ stage[n] \in {"durable", "uncertain"})

\* A requested close ends: the actor stops, CLOSED or CRITICAL.
CloseEnds == closing ~> (pc = "stopped")

\* The writer makes progress without anyone's help: records settle and a close
\* ends although wake-ups are consumed inside other awaits (_pump_task).
WriterProgress == EverySettles /\ CloseEnds
=============================================================================
