-------------------------- MODULE DurabilityProofs --------------------------
(***************************************************************************)
(* Proofs about the durability coordinator, for any number of calls, files *)
(* and slots and any cancellations.                                        *)
(*                                                                         *)
(* What the sink and the callers are told depends on the stage of the      *)
(* batch and of each file task.  The claim on a generation is what keeps   *)
(* two calls apart: a work item that was accepted and not yet reported is  *)
(* open, an open item's generation is in flight, and no generation has two *)
(* open items.  So ending one item's claim never ends another's.           *)
(***************************************************************************)
EXTENDS Durability, FiniteSetTheorems, TLAPS

InternalStates == {"none", "created", "running", "cancelled", "ok", "critical"}
CallerStates == {"idle", "waiting", "refused", "returned", "cancelled", "critical"}

Types ==
    /\ files \in [Calls -> SUBSET Generations]
    /\ inflight \in SUBSET Generations
    /\ internal \in [Calls -> InternalStates]
    /\ task \in [Work -> TaskStates]
    /\ disk \in [Work -> {"none", "written", "synced"}]
    /\ sink \in [Work -> {<< >>, <<TRUE>>, <<FALSE>>}]
    /\ affected \in [Calls -> SUBSET Generations]
    /\ caller \in [Calls -> CallerStates]

\* Accepted, and not reported yet.
OpenItem(c, g) == g \in files[c] /\ sink[<<c, g>>] = << >>

\* The stage of the batch and what its caller has learned.
CallStage(c) ==
    /\ internal[c] = "none" => files[c] = {} /\ caller[c] \in {"idle", "refused"}
    /\ internal[c] # "none" => files[c] # {} /\ caller[c] \notin {"idle", "refused"}
    /\ internal[c] \in {"created", "running"} => caller[c] = "waiting"
    /\ caller[c] \in {"returned", "cancelled"} => internal[c] = "ok"
    /\ caller[c] = "critical" => internal[c] \in {"cancelled", "critical"}
    /\ internal[c] = "critical" => affected[c] = Failures(c) /\ affected[c] # {}
    /\ internal[c] = "cancelled" /\ caller[c] = "critical" => affected[c] = files[c]

\* The stage of a file task fits that of its batch.
TaskStage(c, g) ==
    LET w == <<c, g>> IN
    /\ g \notin files[c] \/ internal[c] \in {"none", "created", "cancelled"} => task[w] = "none"
    /\ g \in files[c] /\ internal[c] = "running" => task[w] # "none"
    /\ g \in files[c] /\ internal[c] = "ok" => task[w] = "ok"
    /\ g \in files[c] /\ internal[c] = "critical" => task[w] \in {"ok", "failed", "dropped"}
    /\ task[w] = "none" => disk[w] = "none"
    /\ task[w] \in {"done", "ok"} => disk[w] = "synced"

\* When the completion of a work item is given, and which.
SinkStage(c, g) ==
    LET w == <<c, g>> IN
    /\ g \notin files[c] => sink[w] = << >>
    /\ internal[c] = "created" => sink[w] = << >>
    /\ internal[c] = "cancelled" /\ g \in files[c] =>
          (sink[w] = << >> <=> caller[c] = "waiting")
    /\ task[w] \in {"created", "slot", "thread", "done", "writefail", "syncfail"} => sink[w] = << >>
    /\ task[w] = "dropped" => (sink[w] = << >> <=> internal[c] = "running")
    /\ task[w] = "ok" => sink[w] = <<TRUE>>
    /\ task[w] = "failed" => sink[w] # << >>

\* The claim of an open item, which it shares with no other.
Claims ==
    /\ \A c \in Calls, g \in Generations : OpenItem(c, g) => g \in inflight
    /\ \A b, c \in Calls, g \in Generations : OpenItem(b, g) /\ OpenItem(c, g) => b = c

IInv ==
    /\ Types
    /\ \A c \in Calls : CallStage(c)
    /\ \A c \in Calls, g \in Generations : TaskStage(c, g) /\ SinkStage(c, g)
    /\ Claims
-----------------------------------------------------------------------------
\* A work item is a pair of a call and a generation.
LEMMA WorkPairs ==
    /\ \A c \in Calls, g \in Generations : <<c, g>> \in Work
    /\ \A w \in Work : w[1] \in Calls /\ w[2] \in Generations /\ w = <<w[1], w[2]>>
BY DEF Work

\* The work items of a call are those of its files.
LEMMA OfPairs ==
    ASSUME Types, NEW c \in Calls
    PROVE  /\ Of(c) \in SUBSET Work
           /\ \A b \in Calls, g \in Generations : <<b, g>> \in Of(c) <=> b = c /\ g \in files[c]
<1>1. files[c] \in SUBSET Generations
  BY DEF Types
<1> QED
  BY <1>1 DEF Of, Work

\* What one completion does to the sink, for items that were not reported.
LEMMA EmitFacts ==
    ASSUME Types, NEW works \in SUBSET Work, NEW ok \in BOOLEAN, Emit(works, ok),
           \A w \in works : sink[w] = << >>
    PROVE  /\ sink' \in [Work -> {<< >>, <<TRUE>>, <<FALSE>>}]
           /\ \A w \in works : sink'[w] = <<ok>>
           /\ \A w \in Work \ works : sink'[w] = sink[w]
<1>1. Append(<< >>, ok) = <<ok>>
  OBVIOUS
<1>2. \A w \in Work : sink'[w] = IF w \in works THEN Append(sink[w], ok) ELSE sink[w]
  BY DEF Emit
<1>3. \A w \in works : sink'[w] = <<ok>>
  BY <1>1, <1>2
<1>4. \A w \in Work \ works : sink'[w] = sink[w]
  BY <1>2
<1>5. \A w \in Work : sink'[w] \in {<< >>, <<TRUE>>, <<FALSE>>}
  BY <1>3, <1>4 DEF Types
<1> QED
  BY <1>3, <1>4, <1>5 DEF Emit

\* A completion is not an empty sequence.
LEMMA OneIsNotNone == \A ok \in BOOLEAN : <<ok>> # << >>
OBVIOUS

LEMMA FailuresAre ==
    ASSUME Types, NEW c \in Calls
    PROVE  Failures(c) = {g \in files[c] : task[<<c, g>>] # "ok"}
BY OfPairs DEF Failures, Of, Types

\* The stages of what a step leaves alone.
LEMMA ItemKept ==
    ASSUME NEW b \in Calls, NEW g \in Generations, TaskStage(b, g), SinkStage(b, g),
           files'[b] = files[b], internal'[b] = internal[b], caller'[b] = caller[b],
           task'[<<b, g>>] = task[<<b, g>>], disk'[<<b, g>>] = disk[<<b, g>>],
           sink'[<<b, g>>] = sink[<<b, g>>]
    PROVE  TaskStage(b, g)' /\ SinkStage(b, g)'
BY DEF TaskStage, SinkStage

LEMMA CallKept ==
    ASSUME Types, Types', NEW b \in Calls, CallStage(b),
           files'[b] = files[b], internal'[b] = internal[b], caller'[b] = caller[b],
           affected'[b] = affected[b],
           internal[b] = "critical" => \A g \in files[b] : task'[<<b, g>>] = task[<<b, g>>]
    PROVE  CallStage(b)'
<1>1. internal[b] = "critical" => Failures(b)' = Failures(b)
  <2>1. Failures(b) = {g \in files[b] : task[<<b, g>>] # "ok"}
    BY FailuresAre
  <2>2. Failures(b)' = {g \in files'[b] : task'[<<b, g>>] # "ok"}
    BY FailuresAre DEF Failures, Of, Types
  <2> QED
    BY <2>1, <2>2
<1> QED
  BY <1>1 DEF CallStage
-----------------------------------------------------------------------------
LEMMA InitIInv == Init => IInv
<1> SUFFICES ASSUME Init PROVE IInv
  OBVIOUS
<1>1. Types
  BY DEF Init, Types, InternalStates, CallerStates, TaskStates
<1>2. \A c \in Calls : CallStage(c)
  BY DEF Init, CallStage
<1>3. \A c \in Calls, g \in Generations : TaskStage(c, g) /\ SinkStage(c, g)
  BY WorkPairs DEF Init, TaskStage, SinkStage
<1>4. Claims
  BY DEF Init, Claims, OpenItem
<1> QED
  BY <1>1, <1>2, <1>3, <1>4 DEF IInv

\* sync_batch
LEMMA SyncBatchStep ==
    ASSUME IInv, NEW c \in Calls, NEW gs \in SUBSET Generations, gs # {}, SyncBatch(c, gs)
    PROVE  IInv'
<1>0. Types /\ CallStage(c) /\ Claims /\ internal[c] = "none" /\ files[c] = {}
  BY DEF IInv, SyncBatch, CallStage
<1>1. CASE UNCHANGED <<files, inflight, internal>> /\ caller' = [caller EXCEPT ![c] = "refused"]
  <2>1. Types'
    BY <1>0, <1>1 DEF SyncBatch, Types, CallerStates
  <2>2. \A b \in Calls : CallStage(b)'
    BY <1>0, <1>1 DEF SyncBatch, IInv, CallStage, Failures, Of, Types, CallerStates
  <2>3. \A b \in Calls, g \in Generations : TaskStage(b, g)' /\ SinkStage(b, g)'
    <3> SUFFICES ASSUME NEW b \in Calls, NEW g \in Generations
                 PROVE  TaskStage(b, g)' /\ SinkStage(b, g)'
      OBVIOUS
    <3>1. /\ UNCHANGED <<task, disk, sink>>
          /\ internal[b] = "cancelled" => caller'[b] = caller[b]
      BY <1>0, <1>1 DEF SyncBatch, Types
    <3>2. TaskStage(b, g) /\ SinkStage(b, g)
      BY DEF IInv
    <3> QED
      BY <1>1, <3>1, <3>2 DEF TaskStage, SinkStage
  <2>4. Claims'
    BY <1>0, <1>1 DEF SyncBatch, Claims, OpenItem
  <2> QED
    BY <2>1, <2>2, <2>3, <2>4 DEF IInv
<1>2. CASE /\ ~Claimed(gs)
           /\ files' = [files EXCEPT ![c] = gs] /\ inflight' = inflight \cup gs
           /\ internal' = [internal EXCEPT ![c] = "created"]
           /\ caller' = [caller EXCEPT ![c] = "waiting"]
  <2>0. UNCHANGED <<task, disk, sink, affected>>
    BY DEF SyncBatch
  <2>1. Types'
    BY <1>0, <1>2, <2>0 DEF Types, CallerStates, InternalStates
  <2>a. /\ files'[c] = gs /\ internal'[c] = "created" /\ caller'[c] = "waiting"
        /\ \A b \in Calls \ {c} : files'[b] = files[b] /\ internal'[b] = internal[b] /\ caller'[b] = caller[b]
    BY <1>0, <1>2 DEF Types
  <2>2. \A b \in Calls : CallStage(b)'
    BY <2>0, <2>a DEF IInv, CallStage, Failures, Of
  <2>3. \A b \in Calls, g \in Generations : TaskStage(b, g)' /\ SinkStage(b, g)'
    <3> SUFFICES ASSUME NEW b \in Calls, NEW g \in Generations
                 PROVE  TaskStage(b, g)' /\ SinkStage(b, g)'
      OBVIOUS
    <3>1. TaskStage(b, g) /\ SinkStage(b, g)
      BY DEF IInv
    <3>2. CASE b = c
      BY <1>0, <2>0, <2>a, <3>1, <3>2 DEF TaskStage, SinkStage
    <3>3. CASE b # c
      BY <2>0, <2>a, <3>1, <3>3 DEF TaskStage, SinkStage
    <3> QED
      BY <3>2, <3>3
  <2>4. Claims'
    BY <1>0, <1>2, <2>0, <2>a DEF Claims, OpenItem, Claimed
  <2> QED
    BY <2>1, <2>2, <2>3, <2>4 DEF IInv
<1> QED
  BY <1>1, <1>2 DEF SyncBatch
-----------------------------------------------------------------------------
(* The steps of one file task *)

\* A task that has started and not ended belongs to a running batch.
LEMMA ActiveTask ==
    ASSUME IInv, NEW c \in Calls, NEW g \in Generations,
           task[<<c, g>>] \notin {"none", "dropped", "ok", "failed"}
    PROVE  g \in files[c] /\ internal[c] = "running" /\ caller[c] = "waiting" /\ OpenItem(c, g)
<1>1. <<c, g>> \in Work /\ task[<<c, g>>] \in TaskStates
  BY WorkPairs DEF IInv, Types
<1>2. TaskStage(c, g) /\ SinkStage(c, g) /\ CallStage(c) /\ internal[c] \in InternalStates
  BY DEF IInv, Types
<1>3. g \in files[c] /\ internal[c] = "running"
  BY <1>2 DEF TaskStage, InternalStates
<1>4. sink[<<c, g>>] = << >>
  BY <1>1, <1>2 DEF SinkStage, TaskStates
<1> QED
  BY <1>2, <1>3, <1>4 DEF CallStage, OpenItem

\* A step of one item of a running batch: its stages hold again, and its claim
\* ends only with its report.
LEMMA ItemStep ==
    ASSUME IInv, Types', NEW c \in Calls, NEW g \in Generations, internal[c] = "running",
           OpenItem(c, g), UNCHANGED <<files, internal, affected, caller>>,
           \A w \in Work : w # <<c, g>> => /\ task'[w] = task[w] /\ disk'[w] = disk[w]
                                           /\ sink'[w] = sink[w],
           \/ inflight' = inflight
           \/ inflight' = inflight \ {g} /\ sink'[<<c, g>>] # << >>,
           TaskStage(c, g)', SinkStage(c, g)'
    PROVE  IInv'
<1>1. \A b \in Calls : CallStage(b)'
  <2> SUFFICES ASSUME NEW b \in Calls PROVE CallStage(b)'
    OBVIOUS
  <2>1. CallStage(b) /\ Types
    BY DEF IInv
  <2>2. ASSUME internal[b] = "critical", NEW h \in files[b]
        PROVE  task'[<<b, h>>] = task[<<b, h>>]
    <3>1. h \in Generations /\ b # c
      BY <2>1, <2>2 DEF Types
    <3>2. <<b, h>> \in Work /\ <<b, h>> # <<c, g>>
      BY <3>1, WorkPairs
    <3> QED
      BY <3>2
  <2> QED
    BY <2>1, <2>2, CallKept
<1>2. ASSUME NEW b \in Calls, NEW h \in Generations
      PROVE  TaskStage(b, h)' /\ SinkStage(b, h)'
  <2>1. TaskStage(b, h) /\ SinkStage(b, h) /\ <<b, h>> \in Work
    BY WorkPairs DEF IInv
  <2>2. CASE b = c /\ h = g
    BY <2>2
  <2>3. CASE ~(b = c /\ h = g)
    <3>1. <<b, h>> # <<c, g>>
      BY <2>3
    <3> QED
      BY <2>1, <3>1, ItemKept
  <2> QED
    BY <2>2, <2>3
<1>3. Claims'
  <2>1. \A b \in Calls, h \in Generations : OpenItem(b, h)' => OpenItem(b, h)
    <3> SUFFICES ASSUME NEW b \in Calls, NEW h \in Generations, OpenItem(b, h)'
                 PROVE  OpenItem(b, h)
      OBVIOUS
    <3>1. CASE b = c /\ h = g
      BY <3>1
    <3>2. CASE ~(b = c /\ h = g)
      <4>1. <<b, h>> \in Work /\ <<b, h>> # <<c, g>>
        BY <3>2, WorkPairs
      <4> QED
        BY <4>1 DEF OpenItem
    <3> QED
      BY <3>1, <3>2
  <2>2. Claims
    BY DEF IInv
  <2>3. ASSUME NEW b \in Calls, NEW h \in Generations, OpenItem(b, h)'
        PROVE  h \in inflight'
    <3>1. OpenItem(b, h) /\ h \in inflight
      BY <2>1, <2>2, <2>3 DEF Claims
    <3>2. CASE inflight' = inflight
      BY <3>1, <3>2
    <3>3. CASE inflight' = inflight \ {g} /\ sink'[<<c, g>>] # << >>
      <4>1. h # g
        BY <2>2, <2>3, <3>1, <3>3 DEF Claims, OpenItem
      <4> QED
        BY <3>1, <3>3, <4>1
    <3> QED
      BY <3>2, <3>3
  <2> QED
    BY <2>1, <2>2, <2>3 DEF Claims
<1> QED
  BY <1>1, <1>2, <1>3 DEF IInv

\* A step that moves the task, or what its thread did, and reports nothing.
LEMMA QuietItemStep ==
    ASSUME IInv, NEW c \in Calls, NEW g \in Generations,
           task[<<c, g>>] \in {"created", "slot", "thread"},
           UNCHANGED <<files, inflight, internal, sink, affected, caller>>,
           NEW t \in {"slot", "thread", "dropped", "writefail", "syncfail", "done"},
           NEW d \in {"none", "written", "synced"},
           task' = [task EXCEPT ![<<c, g>>] = t] \/ (task' = task /\ t = task[<<c, g>>]),
           disk' = [disk EXCEPT ![<<c, g>>] = d] \/ (disk' = disk /\ d = disk[<<c, g>>]),
           t = "done" => d = "synced"
    PROVE  IInv'
<1> DEFINE w == <<c, g>>
<1>0. Types /\ w \in Work /\ TaskStage(c, g) /\ SinkStage(c, g)
  BY WorkPairs DEF IInv
<1>1. g \in files[c] /\ internal[c] = "running" /\ caller[c] = "waiting" /\ OpenItem(c, g)
  BY ActiveTask
<1>2. /\ task'[w] = t /\ disk'[w] = d /\ sink'[w] = << >>
      /\ \A v \in Work : v # w => task'[v] = task[v] /\ disk'[v] = disk[v] /\ sink'[v] = sink[v]
  BY <1>0, <1>1 DEF Types, OpenItem
<1>3. Types'
  BY <1>0 DEF Types, TaskStates
<1>4. TaskStage(c, g)'
  BY <1>1, <1>2 DEF TaskStage
<1>5. SinkStage(c, g)'
  BY <1>1, <1>2 DEF SinkStage
<1> QED
  BY <1>1, <1>2, <1>3, <1>4, <1>5, ItemStep

\* The report of an open item ends its claim.
LEMMA ReportStep ==
    ASSUME IInv, NEW c \in Calls, NEW g \in Generations, NEW ok \in BOOLEAN,
           task[<<c, g>>] \notin {"none", "dropped", "ok", "failed"},
           ok => disk[<<c, g>>] = "synced",
           Report(<<c, g>>, ok), UNCHANGED <<files, internal, disk, affected, caller>>
    PROVE  IInv'
<1> DEFINE w == <<c, g>>
<1>0. Types /\ w \in Work /\ TaskStage(c, g) /\ SinkStage(c, g) /\ {w} \in SUBSET Work
  BY WorkPairs DEF IInv
<1>1. g \in files[c] /\ internal[c] = "running" /\ caller[c] = "waiting" /\ OpenItem(c, g)
  BY ActiveTask
<1>2. /\ sink' \in [Work -> {<< >>, <<TRUE>>, <<FALSE>>}]
      /\ sink'[w] = <<ok>>
      /\ \A v \in Work : v # w => sink'[v] = sink[v]
  <2>1. Emit({w}, ok) /\ \A v \in {w} : sink[v] = << >>
    BY <1>1 DEF Report, OpenItem
  <2> HIDE DEF w
  <2> QED
    BY <1>0, <2>1, EmitFacts
<1>3. /\ task'[w] \in {"ok", "failed"}
      /\ task'[w] = "ok" => ok
      /\ task' \in [Work -> TaskStates]
      /\ \A v \in Work : v # w => task'[v] = task[v]
  BY <1>0 DEF Report, Types, TaskStates
<1>4. inflight' = inflight \ {g}
  BY DEF Report
<1>5. Types'
  BY <1>0, <1>2, <1>3, <1>4 DEF Types
<1>6. TaskStage(c, g)'
  BY <1>0, <1>1, <1>3 DEF TaskStage
<1>7. sink'[w] # << >>
  BY <1>2, OneIsNotNone
<1>8. SinkStage(c, g)'
  BY <1>1, <1>2, <1>3, <1>7 DEF SinkStage
<1> QED
  BY <1>1, <1>2, <1>3, <1>4, <1>5, <1>6, <1>7, <1>8, ItemStep

LEMMA TaskStep ==
    ASSUME IInv, NEW c \in Calls, NEW g \in Generations,
           \/ StartTask(<<c, g>>) \/ AcquireSlot(<<c, g>>) \/ CancelTask(<<c, g>>)
           \/ ThreadWrites(<<c, g>>) \/ ThreadSyncs(<<c, g>>) \/ ExecutorCancels(<<c, g>>)
           \/ TaskEnds(<<c, g>>)
    PROVE  IInv'
<1> DEFINE w == <<c, g>>
<1>0. w \in Work /\ disk[w] \in {"none", "written", "synced"} /\ task[w] \in TaskStates
      /\ TaskStage(c, g)
  BY WorkPairs DEF IInv, Types
<1>1. CASE StartTask(w)
  BY <1>0, <1>1, QuietItemStep DEF StartTask
<1>2. CASE AcquireSlot(w)
  BY <1>0, <1>2, QuietItemStep DEF AcquireSlot
<1>3. CASE CancelTask(w)
  <2>1. CASE task[w] = "created"
    BY <1>0, <1>3, <2>1, QuietItemStep DEF CancelTask
  <2>2. CASE task[w] # "created"
    BY <1>3, <2>2, ReportStep DEF CancelTask
  <2> QED
    BY <2>1, <2>2
<1>4. CASE ThreadWrites(w)
  BY <1>0, <1>4, QuietItemStep DEF ThreadWrites
<1>5. CASE ThreadSyncs(w)
  BY <1>0, <1>5, QuietItemStep DEF ThreadSyncs
<1>6. CASE ExecutorCancels(w)
  BY <1>0, <1>6, QuietItemStep DEF ExecutorCancels
<1>7. CASE TaskEnds(w)
  <2>1. task[w] = "done" => disk[w] = "synced"
    BY <1>0 DEF TaskStage
  <2> QED
    BY <1>7, <2>1, ReportStep DEF TaskEnds
<1> QED
  BY <1>1, <1>2, <1>3, <1>4, <1>5, <1>6, <1>7
-----------------------------------------------------------------------------
(* The steps of a batch and of its caller *)

\* What a step of call c leaves of the other calls.
LEMMA OthersKept ==
    ASSUME IInv, Types', NEW c \in Calls,
           \A b \in Calls \ {c} : /\ files'[b] = files[b] /\ internal'[b] = internal[b]
                                  /\ caller'[b] = caller[b] /\ affected'[b] = affected[b],
           \A b \in Calls \ {c}, g \in Generations :
              /\ task'[<<b, g>>] = task[<<b, g>>] /\ disk'[<<b, g>>] = disk[<<b, g>>]
              /\ sink'[<<b, g>>] = sink[<<b, g>>]
    PROVE  /\ \A b \in Calls \ {c} : CallStage(b)'
           /\ \A b \in Calls \ {c}, g \in Generations : TaskStage(b, g)' /\ SinkStage(b, g)'
<1>1. ASSUME NEW b \in Calls \ {c} PROVE CallStage(b)'
  <2>1. CallStage(b) /\ Types /\ files[b] \in SUBSET Generations
    BY DEF IInv, Types
  <2> QED
    BY <2>1, CallKept
<1>2. ASSUME NEW b \in Calls \ {c}, NEW g \in Generations
      PROVE  TaskStage(b, g)' /\ SinkStage(b, g)'
  <2>1. TaskStage(b, g) /\ SinkStage(b, g)
    BY DEF IInv
  <2> QED
    BY <2>1, ItemKept
<1> QED
  BY <1>1, <1>2

\* The claims of call c that end are those of items that are not open any more;
\* the items of the others keep theirs.
LEMMA ClaimsKept ==
    ASSUME IInv, NEW c \in Calls, NEW gone \in SUBSET Generations,
           inflight' = inflight \ gone, files' = files,
           \A g \in gone : OpenItem(c, g) /\ ~OpenItem(c, g)',
           \A g \in Generations : OpenItem(c, g)' => OpenItem(c, g),
           \A b \in Calls \ {c}, g \in Generations : sink'[<<b, g>>] = sink[<<b, g>>]
    PROVE  Claims'
<1>1. Claims
  BY DEF IInv
<1>2. \A b \in Calls, g \in Generations : OpenItem(b, g)' => OpenItem(b, g)
  BY DEF OpenItem
<1>3. ASSUME NEW b \in Calls, NEW g \in Generations, OpenItem(b, g)'
      PROVE  g \in inflight'
  <2>1. OpenItem(b, g) /\ g \in inflight
    BY <1>1, <1>2, <1>3 DEF Claims
  <2>2. g \notin gone
    BY <1>1, <1>3, <2>1 DEF Claims
  <2> QED
    BY <2>1, <2>2
<1> QED
  BY <1>1, <1>2, <1>3 DEF Claims

LEMMA CallerResumesStep ==
    ASSUME IInv, NEW c \in Calls, CallerResumes(c)
    PROVE  IInv'
<1>0. /\ Types /\ CallStage(c) /\ caller[c] = "waiting" /\ files[c] \in SUBSET Generations
      /\ \A g \in Generations : TaskStage(c, g) /\ SinkStage(c, g) /\ <<c, g>> \in Work
  BY WorkPairs DEF IInv, Types, CallerResumes
<1>1. UNCHANGED <<files, internal, task, disk>>
  BY DEF CallerResumes
<1>2. CASE internal[c] = "cancelled"
  <2>1. /\ Emit(Of(c), FALSE) /\ inflight' = inflight \ files[c]
        /\ affected' = [affected EXCEPT ![c] = files[c]]
        /\ caller' = [caller EXCEPT ![c] = "critical"]
    BY <1>2 DEF CallerResumes
  <2>2. /\ Of(c) \in SUBSET Work
        /\ \A b \in Calls, g \in Generations : <<b, g>> \in Of(c) <=> b = c /\ g \in files[c]
    BY <1>0, OfPairs
  <2>3. \A w \in Of(c) : sink[w] = << >>
    BY <1>0, <1>2 DEF Of, SinkStage
  <2>4. /\ sink' \in [Work -> {<< >>, <<TRUE>>, <<FALSE>>}]
        /\ \A w \in Of(c) : sink'[w] = <<FALSE>>
        /\ \A w \in Work \ Of(c) : sink'[w] = sink[w]
    BY <1>0, <2>1, <2>2, <2>3, EmitFacts
  <2>5. Types'
    BY <1>0, <1>1, <2>1, <2>4 DEF Types, CallerStates
  <2>6. /\ affected'[c] = files[c] /\ caller'[c] = "critical"
        /\ \A b \in Calls \ {c} : affected'[b] = affected[b] /\ caller'[b] = caller[b]
        /\ \A b \in Calls \ {c}, g \in Generations : sink'[<<b, g>>] = sink[<<b, g>>]
    BY <1>0, <2>1, <2>2, <2>4, WorkPairs DEF Types
  <2>7. /\ \A b \in Calls \ {c} : CallStage(b)'
        /\ \A b \in Calls \ {c}, g \in Generations : TaskStage(b, g)' /\ SinkStage(b, g)'
    BY <1>1, <2>5, <2>6, OthersKept
  <2>8. CallStage(c)'
    BY <1>0, <1>1, <1>2, <2>6 DEF CallStage
  <2>9. ASSUME NEW g \in Generations PROVE TaskStage(c, g)' /\ SinkStage(c, g)'
    <3>1. TaskStage(c, g) /\ SinkStage(c, g) /\ task[<<c, g>>] = "none"
      BY <1>0, <1>2 DEF TaskStage
    <3>2. g \in files[c] => sink'[<<c, g>>] # << >>
      BY <2>2, <2>4, OneIsNotNone
    <3>3. g \notin files[c] => sink'[<<c, g>>] = sink[<<c, g>>]
      BY <1>0, <2>2, <2>4
    <3> QED
      BY <1>1, <1>2, <2>6, <3>1, <3>2, <3>3 DEF TaskStage, SinkStage
  <2>10. Claims'
    <3>1. ASSUME NEW g \in files[c] PROVE OpenItem(c, g) /\ ~OpenItem(c, g)'
      BY <1>0, <1>1, <2>2, <2>3, <2>4, OneIsNotNone DEF OpenItem
    <3>2. ASSUME NEW g \in Generations, OpenItem(c, g)' PROVE OpenItem(c, g)
      BY <1>1, <3>1, <3>2 DEF OpenItem
    <3> QED
      BY <1>0, <1>1, <2>1, <2>6, <3>1, <3>2, ClaimsKept
  <2> QED
    BY <2>5, <2>7, <2>8, <2>9, <2>10 DEF IInv
<1>3. CASE internal[c] \in {"critical", "ok"}
  <2>1. /\ UNCHANGED <<sink, inflight, affected>>
        /\ internal[c] = "critical" => caller' = [caller EXCEPT ![c] = "critical"]
        /\ internal[c] = "ok" => caller' = [caller EXCEPT ![c] = "cancelled"]
                                 \/ caller' = [caller EXCEPT ![c] = "returned"]
    BY <1>3 DEF CallerResumes
  <2>2. Types'
    BY <1>0, <1>1, <1>3, <2>1 DEF Types, CallerStates
  <2>3. /\ internal[c] = "critical" => caller'[c] = "critical"
        /\ internal[c] = "ok" => caller'[c] \in {"cancelled", "returned"}
        /\ \A b \in Calls \ {c} : caller'[b] = caller[b]
    BY <1>0, <1>3, <2>1 DEF Types
  <2>4. /\ \A b \in Calls \ {c} : CallStage(b)'
        /\ \A b \in Calls \ {c}, g \in Generations : TaskStage(b, g)' /\ SinkStage(b, g)'
    BY <1>1, <2>1, <2>2, <2>3, OthersKept
  <2>5. CallStage(c)'
    BY <1>0, <1>1, <1>3, <2>1, <2>3 DEF CallStage, Failures, Of
  <2>6. ASSUME NEW g \in Generations PROVE TaskStage(c, g)' /\ SinkStage(c, g)'
    <3>1. TaskStage(c, g) /\ SinkStage(c, g)
      BY <1>0
    <3> QED
      BY <1>1, <1>3, <2>1, <3>1 DEF TaskStage, SinkStage
  <2>7. Claims'
    BY <1>1, <2>1 DEF IInv, Claims, OpenItem
  <2> QED
    BY <2>2, <2>4, <2>5, <2>6, <2>7 DEF IInv
<1> QED
  BY <1>2, <1>3 DEF CallerResumes

LEMMA StartBatchStep ==
    ASSUME IInv, NEW c \in Calls, NEW made \in SUBSET files[c], StartBatch(c, made)
    PROVE  IInv'
<1> DEFINE lost == {w \in Of(c) : w[2] \notin made}
<1>0. /\ Types /\ CallStage(c) /\ internal[c] = "created" /\ files[c] \in SUBSET Generations
      /\ \A g \in Generations : TaskStage(c, g) /\ SinkStage(c, g) /\ <<c, g>> \in Work
  BY WorkPairs DEF IInv, Types, StartBatch
<1>1. /\ UNCHANGED <<files, disk, affected, caller>> /\ inflight' = inflight \ (files[c] \ made)
      /\ internal' = [internal EXCEPT ![c] = "running"] /\ Emit(lost, FALSE)
  BY DEF StartBatch
<1>2. /\ Of(c) \in SUBSET Work
      /\ \A b \in Calls, g \in Generations : <<b, g>> \in Of(c) <=> b = c /\ g \in files[c]
  BY <1>0, OfPairs
<1>3. /\ lost \in SUBSET Work
      /\ \A b \in Calls, g \in Generations : <<b, g>> \in lost <=> b = c /\ g \in files[c] \ made
  BY <1>2
<1>4. \A w \in lost : sink[w] = << >>
  <2>1. \A g \in files[c] : sink[<<c, g>>] = << >>
    BY <1>0 DEF SinkStage
  <2> QED
    BY <2>1 DEF Of
<1>5. /\ sink' \in [Work -> {<< >>, <<TRUE>>, <<FALSE>>}]
      /\ \A w \in lost : sink'[w] = <<FALSE>>
      /\ \A w \in Work \ lost : sink'[w] = sink[w]
  <2> HIDE DEF lost
  <2> QED
    BY <1>0, <1>1, <1>3, <1>4, EmitFacts
<1>6. /\ task' \in [Work -> TaskStates]
      /\ \A g \in made : task'[<<c, g>>] = "created"
      /\ \A g \in files[c] \ made : task'[<<c, g>>] = "failed"
      /\ \A g \in Generations \ files[c] : task'[<<c, g>>] = task[<<c, g>>]
      /\ \A b \in Calls \ {c}, g \in Generations : task'[<<b, g>>] = task[<<b, g>>]
  <2>1. task' = [w \in Work |-> IF w \notin Of(c) THEN task[w]
                                ELSE IF w[2] \in made THEN "created" ELSE "failed"]
    BY DEF StartBatch
  <2> QED
    BY <1>0, <1>2, <2>1, WorkPairs DEF Types, TaskStates
<1>7. Types'
  BY <1>0, <1>1, <1>5, <1>6 DEF Types, InternalStates
<1>8. /\ internal'[c] = "running"
      /\ \A b \in Calls \ {c} : internal'[b] = internal[b]
      /\ \A b \in Calls \ {c}, g \in Generations : sink'[<<b, g>>] = sink[<<b, g>>]
  BY <1>0, <1>1, <1>3, <1>5, WorkPairs DEF Types
<1>9. /\ \A b \in Calls \ {c} : CallStage(b)'
      /\ \A b \in Calls \ {c}, g \in Generations : TaskStage(b, g)' /\ SinkStage(b, g)'
  BY <1>1, <1>6, <1>7, <1>8, OthersKept
<1>10. CallStage(c)'
  BY <1>0, <1>1, <1>8 DEF CallStage
<1>11. ASSUME NEW g \in Generations PROVE TaskStage(c, g)' /\ SinkStage(c, g)'
  <2>1. TaskStage(c, g) /\ SinkStage(c, g) /\ task[<<c, g>>] = "none" /\ sink[<<c, g>>] = << >>
    BY <1>0 DEF TaskStage, SinkStage
  <2>2. CASE g \in files[c] \ made
    <3>1. sink'[<<c, g>>] # << >>
      BY <1>3, <1>5, <2>2, OneIsNotNone
    <3> QED
      BY <1>1, <1>6, <1>8, <2>1, <2>2, <3>1 DEF TaskStage, SinkStage
  <2>3. CASE g \notin files[c] \ made
    <3>1. sink'[<<c, g>>] = << >>
      BY <1>0, <1>3, <1>5, <2>1, <2>3
    <3>2. g \in files[c] => task'[<<c, g>>] = "created"
      BY <1>6, <2>3
    <3>3. g \notin files[c] => task'[<<c, g>>] = "none"
      BY <1>6, <2>1
    <3> QED
      BY <1>1, <1>8, <2>1, <3>1, <3>2, <3>3 DEF TaskStage, SinkStage
  <2> QED
    BY <2>2, <2>3
<1>12. Claims'
  <2>1. ASSUME NEW g \in files[c] \ made PROVE OpenItem(c, g) /\ ~OpenItem(c, g)'
    BY <1>0, <1>1, <1>3, <1>4, <1>5, OneIsNotNone DEF OpenItem
  <2>2. ASSUME NEW g \in Generations, OpenItem(c, g)' PROVE OpenItem(c, g)
    BY <1>0, <1>1, <2>2 DEF OpenItem, SinkStage
  <2> QED
    BY <1>0, <1>1, <1>8, <2>1, <2>2, ClaimsKept
<1> QED
  BY <1>7, <1>9, <1>10, <1>11, <1>12 DEF IInv

LEMMA CancelBatchStep ==
    ASSUME IInv, NEW c \in Calls, CancelBatch(c)
    PROVE  IInv'
<1>0. /\ Types /\ CallStage(c) /\ internal[c] = "created" /\ caller[c] = "waiting"
      /\ \A g \in Generations : TaskStage(c, g) /\ SinkStage(c, g)
  BY DEF IInv, CancelBatch, CallStage
<1>1. /\ UNCHANGED <<files, inflight, task, disk, sink, affected, caller>>
      /\ internal' = [internal EXCEPT ![c] = "cancelled"]
  BY DEF CancelBatch
<1>2. Types' /\ internal'[c] = "cancelled" /\ \A b \in Calls \ {c} : internal'[b] = internal[b]
  BY <1>0, <1>1 DEF Types, InternalStates
<1>3. /\ \A b \in Calls \ {c} : CallStage(b)'
      /\ \A b \in Calls \ {c}, g \in Generations : TaskStage(b, g)' /\ SinkStage(b, g)'
  BY <1>1, <1>2, OthersKept
<1>4. CallStage(c)'
  BY <1>0, <1>1, <1>2 DEF CallStage
<1>5. ASSUME NEW g \in Generations PROVE TaskStage(c, g)' /\ SinkStage(c, g)'
  <2>1. TaskStage(c, g) /\ SinkStage(c, g)
    BY <1>0
  <2> QED
    BY <1>0, <1>1, <1>2, <2>1 DEF TaskStage, SinkStage
<1>6. Claims'
  BY <1>1 DEF IInv, Claims, OpenItem
<1> QED
  BY <1>2, <1>3, <1>4, <1>5, <1>6 DEF IInv

\* The items that FinishBatch reports are those whose task was dropped: nobody
\* else can have ended their claim.
LEMMA FinishBatchStep ==
    ASSUME IInv, NEW c \in Calls, FinishBatch(c)
    PROVE  IInv'
<1>0. /\ Types /\ CallStage(c) /\ internal[c] = "running" /\ caller[c] = "waiting"
      /\ files[c] \in SUBSET Generations
      /\ \A g \in Generations : TaskStage(c, g) /\ SinkStage(c, g) /\ <<c, g>> \in Work
  BY WorkPairs DEF IInv, Types, FinishBatch, CallStage
<1>1. /\ UNCHANGED <<files, task, disk, caller>>
      /\ Emit(Unreported(c), FALSE) /\ inflight' = inflight \ {w[2] : w \in Unreported(c)}
      /\ affected' = [affected EXCEPT ![c] = Failures(c)]
      /\ internal' = [internal EXCEPT ![c] = IF Failures(c) = {} THEN "ok" ELSE "critical"]
  BY DEF FinishBatch
<1>2. /\ Of(c) \in SUBSET Work
      /\ \A b \in Calls, g \in Generations : <<b, g>> \in Of(c) <=> b = c /\ g \in files[c]
  BY <1>0, OfPairs
<1>3. \A g \in files[c] : task[<<c, g>>] \in {"ok", "failed", "dropped"}
  BY <1>0, <1>2 DEF FinishBatch
<1>4. Failures(c) = {g \in files[c] : task[<<c, g>>] # "ok"}
  BY <1>0, FailuresAre
<1>5. \A g \in files[c] : task[<<c, g>>] = "dropped" => OpenItem(c, g) /\ g \in inflight
  BY <1>0 DEF SinkStage, OpenItem, IInv, Claims
<1>6. /\ Unreported(c) \in SUBSET Work
      /\ \A b \in Calls, g \in Generations :
            <<b, g>> \in Unreported(c) <=> b = c /\ g \in files[c] /\ task[<<c, g>>] = "dropped"
      /\ \A w \in Unreported(c) : sink[w] = << >>
  <2>1. \A b \in Calls, g \in Generations :
            <<b, g>> \in Unreported(c) <=> b = c /\ g \in files[c] /\ task[<<c, g>>] = "dropped"
    BY <1>2, <1>5 DEF Unreported
  <2>2. Unreported(c) \in SUBSET Work
    BY <1>2 DEF Unreported
  <2>3. ASSUME NEW w \in Unreported(c) PROVE sink[w] = << >>
    <3>1. w[1] \in Calls /\ w[2] \in Generations /\ w = <<w[1], w[2]>>
      BY <2>2, WorkPairs
    <3>2. w = <<c, w[2]>> /\ w[2] \in files[c] /\ task[<<c, w[2]>>] = "dropped"
      BY <2>1, <3>1
    <3> QED
      BY <1>5, <3>2 DEF OpenItem
  <2> QED
    BY <2>1, <2>2, <2>3
<1>7. /\ sink' \in [Work -> {<< >>, <<TRUE>>, <<FALSE>>}]
      /\ \A w \in Unreported(c) : sink'[w] = <<FALSE>>
      /\ \A w \in Work \ Unreported(c) : sink'[w] = sink[w]
  BY <1>0, <1>1, <1>6, EmitFacts
<1>8. Types'
  BY <1>0, <1>1, <1>4, <1>7 DEF Types, InternalStates
<1>9. /\ affected'[c] = Failures(c)
      /\ internal'[c] = IF Failures(c) = {} THEN "ok" ELSE "critical"
      /\ \A b \in Calls \ {c} : internal'[b] = internal[b] /\ affected'[b] = affected[b]
      /\ \A b \in Calls \ {c}, g \in Generations : sink'[<<b, g>>] = sink[<<b, g>>]
  BY <1>0, <1>1, <1>6, <1>7, WorkPairs DEF Types
<1>10. /\ \A b \in Calls \ {c} : CallStage(b)'
       /\ \A b \in Calls \ {c}, g \in Generations : TaskStage(b, g)' /\ SinkStage(b, g)'
  BY <1>1, <1>8, <1>9, OthersKept
<1>11. CallStage(c)'
  <2>1. Failures(c)' = Failures(c)
    BY <1>1 DEF Failures, Of
  <2> QED
    BY <1>0, <1>1, <1>9, <2>1 DEF CallStage
<1>12. ASSUME NEW g \in Generations PROVE TaskStage(c, g)' /\ SinkStage(c, g)'
  <2>1. TaskStage(c, g) /\ SinkStage(c, g)
    BY <1>0
  <2>2. internal'[c] \in {"ok", "critical"}
    BY <1>9
  <2>3. g \in files[c] /\ internal'[c] = "ok" => task[<<c, g>>] = "ok"
    BY <1>4, <1>9
  <2>4. TaskStage(c, g)'
    BY <1>1, <1>3, <2>1, <2>2, <2>3 DEF TaskStage
  <2>5. CASE g \in files[c] /\ task[<<c, g>>] = "dropped"
    <3>1. sink'[<<c, g>>] # << >>
      BY <1>6, <1>7, <2>5, OneIsNotNone
    <3> QED
      BY <1>1, <2>1, <2>2, <2>4, <2>5, <3>1 DEF SinkStage
  <2>6. CASE ~(g \in files[c] /\ task[<<c, g>>] = "dropped")
    <3>1. sink'[<<c, g>>] = sink[<<c, g>>]
      BY <1>0, <1>6, <1>7, <2>6
    <3>2. task[<<c, g>>] # "dropped"
      BY <2>1, <2>6 DEF TaskStage
    <3>3. /\ g \notin files[c] => sink[<<c, g>>] = << >>
          /\ task[<<c, g>>] \in {"created", "slot", "thread", "done", "writefail", "syncfail"} =>
                sink[<<c, g>>] = << >>
          /\ task[<<c, g>>] = "ok" => sink[<<c, g>>] = <<TRUE>>
          /\ task[<<c, g>>] = "failed" => sink[<<c, g>>] # << >>
      BY <2>1 DEF SinkStage
    <3> QED
      BY <1>1, <2>2, <2>4, <3>1, <3>2, <3>3 DEF SinkStage
  <2> QED
    BY <2>4, <2>5, <2>6
<1>13. Claims'
  <2> DEFINE gone == {w[2] : w \in Unreported(c)}
  <2>1. /\ gone \in SUBSET Generations
        /\ \A g \in gone : g \in files[c] /\ task[<<c, g>>] = "dropped" /\ <<c, g>> \in Unreported(c)
    <3>1. ASSUME NEW w \in Unreported(c)
          PROVE  w[2] \in Generations /\ w[2] \in files[c] /\ task[<<c, w[2]>>] = "dropped"
                 /\ <<c, w[2]>> \in Unreported(c)
      <4>1. w[1] \in Calls /\ w[2] \in Generations /\ w = <<w[1], w[2]>>
        BY <1>6, WorkPairs
      <4> QED
        BY <1>6, <4>1
    <3> QED
      BY <3>1
  <2>2. ASSUME NEW g \in gone PROVE OpenItem(c, g) /\ ~OpenItem(c, g)'
    BY <1>5, <1>7, <2>1, OneIsNotNone DEF OpenItem
  <2>3. ASSUME NEW g \in Generations, OpenItem(c, g)' PROVE OpenItem(c, g)
    <3>1. <<c, g>> \notin Unreported(c)
      BY <1>7, <2>3, OneIsNotNone DEF OpenItem
    <3> QED
      BY <1>0, <1>1, <1>7, <2>3, <3>1 DEF OpenItem
  <2> HIDE DEF gone
  <2> QED
    BY <1>1, <1>9, <2>1, <2>2, <2>3, ClaimsKept DEF gone
<1> QED
  BY <1>8, <1>10, <1>11, <1>12, <1>13 DEF IInv
-----------------------------------------------------------------------------
LEMMA StepIInv == IInv /\ [Next]_vars => IInv'
<1> SUFFICES ASSUME IInv, [Next]_vars PROVE IInv'
  OBVIOUS
<1>0. ASSUME UNCHANGED <<files, inflight, internal, task, disk, sink, affected, caller>>
      PROVE  IInv'
  <2>1. Types /\ Types' /\ Claims'
    BY <1>0 DEF IInv, Types, Claims, OpenItem
  <2>2. ASSUME NEW c \in Calls PROVE CallStage(c)'
    BY <1>0, <2>1, CallKept DEF IInv
  <2>3. ASSUME NEW c \in Calls, NEW g \in Generations PROVE TaskStage(c, g)' /\ SinkStage(c, g)'
    BY <1>0, ItemKept DEF IInv
  <2> QED
    BY <2>1, <2>2, <2>3 DEF IInv
<1>1. CASE UNCHANGED vars
  BY <1>0, <1>1 DEF vars
<1>2. ASSUME NEW c \in Calls, CancelCaller(c) PROVE IInv'
  BY <1>0, <1>2 DEF CancelCaller
<1>3. ASSUME NEW c \in Calls, Progress(c) PROVE IInv'
  BY <1>3, CallerResumesStep, FinishBatchStep, StartBatchStep, TaskStep DEF Progress
<1>4. ASSUME NEW c \in Calls, NEW gs \in (SUBSET Generations) \ {{}}, SyncBatch(c, gs) PROVE IInv'
  BY <1>4, SyncBatchStep
<1>5. ASSUME NEW c \in Calls, NEW g \in Generations, CancelTask(<<c, g>>) \/ ExecutorCancels(<<c, g>>)
      PROVE  IInv'
  BY <1>5, TaskStep
<1> QED
  BY <1>1, <1>2, <1>3, <1>4, <1>5, CancelBatchStep DEF Next

\* The inductive invariant holds of every behaviour of the coordinator.
THEOREM IInvAlways == Spec => []IInv
BY InitIInv, StepIInv, PTL DEF Spec

\* The slots of the limiter: free ones and held ones.
Slots == free \in Nat /\ free + Cardinality(HoldingSlot) = MaxConcurrency

LEMMA HoldingFinite == IsFiniteSet(HoldingSlot) /\ Cardinality(HoldingSlot) \in Nat
<1>1. IsFiniteSet(Work)
  BY DurabilityAssumption, FS_Product DEF Work
<1>2. HoldingSlot \in SUBSET Work
  BY DEF HoldingSlot
<1> QED
  BY <1>1, <1>2, FS_Subset, FS_CardinalityType

LEMMA InitSlots == Init => Slots
<1> SUFFICES ASSUME Init PROVE Slots
  OBVIOUS
<1>1. HoldingSlot = {}
  BY DEF Init, HoldingSlot
<1> QED
  BY <1>1, FS_EmptySet, DurabilityAssumption DEF Init, Slots

\* AcquireSlot takes one, TaskEnds returns it; no other step starts or ends a hold.
LEMMA StepSlots == IInv /\ Slots /\ [Next]_vars => Slots'
<1> SUFFICES ASSUME IInv, Slots, [Next]_vars PROVE Slots'
  OBVIOUS
<1>0. Types /\ IsFiniteSet(HoldingSlot) /\ Cardinality(HoldingSlot) \in Nat /\ MaxConcurrency \in Nat
  BY HoldingFinite, DurabilityAssumption DEF IInv
<1> DEFINE Holds == {"thread", "done", "writefail", "syncfail"}
<1>1. ASSUME free' = free, \A w \in Work : task'[w] \in Holds <=> task[w] \in Holds
      PROVE  Slots'
  <2>1. HoldingSlot' = HoldingSlot
    BY <1>1 DEF HoldingSlot
  <2> QED
    BY <1>1, <2>1 DEF Slots
<1>2. ASSUME NEW w \in Work, StartTask(w) \/ CancelTask(w) \/ ThreadWrites(w) \/ ThreadSyncs(w)
                             \/ ExecutorCancels(w)
      PROVE  Slots'
  <2>1. free' = free /\ \A v \in Work : task'[v] \in Holds <=> task[v] \in Holds
    BY <1>0, <1>2 DEF Types, StartTask, CancelTask, ThreadWrites, ThreadSyncs, ExecutorCancels, Report
  <2> QED
    BY <1>1, <2>1
<1>3. ASSUME NEW w \in Work, AcquireSlot(w) PROVE Slots'
  <2>1. w \notin HoldingSlot /\ HoldingSlot' = HoldingSlot \cup {w}
    BY <1>0, <1>3 DEF AcquireSlot, HoldingSlot, Types
  <2>2. Cardinality(HoldingSlot \cup {w}) = Cardinality(HoldingSlot) + 1
    BY <1>0, <2>1, FS_AddElement
  <2> QED
    BY <1>0, <1>3, <2>1, <2>2 DEF AcquireSlot, Slots
<1>4. ASSUME NEW w \in Work, TaskEnds(w) PROVE Slots'
  <2>1. w \in HoldingSlot /\ HoldingSlot' = HoldingSlot \ {w}
    BY <1>0, <1>4 DEF TaskEnds, Report, HoldingSlot, Types
  <2>2. Cardinality(HoldingSlot \ {w}) = Cardinality(HoldingSlot) - 1
    BY <1>0, <2>1, FS_RemoveElement
  <2> QED
    BY <1>0, <1>4, <2>1, <2>2 DEF TaskEnds, Slots
<1>5. ASSUME NEW c \in Calls, NEW made \in SUBSET files[c], StartBatch(c, made) PROVE Slots'
  <2>1. ASSUME NEW w \in Work PROVE task'[w] \in Holds <=> task[w] \in Holds
    <3>1. CASE w \in Of(c)
      <4>1. PICK g \in files[c] : w = <<c, g>>
        BY <3>1 DEF Of
      <4>2. task[w] = "none"
        BY <1>0, <1>5, <4>1 DEF IInv, TaskStage, StartBatch, Types
      <4> QED
        BY <1>5, <3>1, <4>2 DEF StartBatch
    <3>2. CASE w \notin Of(c)
      BY <1>5, <3>2 DEF StartBatch
    <3> QED
      BY <3>1, <3>2
  <2> QED
    BY <1>1, <1>5, <2>1 DEF StartBatch
<1>6. ASSUME NEW c \in Calls,
             \/ CallerResumes(c) \/ FinishBatch(c) \/ CancelCaller(c) \/ CancelBatch(c)
             \/ \E gs \in (SUBSET Generations) \ {{}} : SyncBatch(c, gs)
      PROVE  Slots'
  BY <1>1, <1>6 DEF CallerResumes, FinishBatch, CancelCaller, CancelBatch, SyncBatch
<1>7. CASE UNCHANGED vars
  BY <1>1, <1>7 DEF vars
<1> QED
  BY <1>2, <1>3, <1>4, <1>5, <1>6, <1>7, WorkPairs DEF Next, Progress

\* A generation is claimed as long as anything may still touch its file, for any
\* number of calls: no two calls of sync_batch ever work on one file at once, and
\* a caller is not told before its threads have ended (durability.py); and every
\* slot of the StorageIoLimiter is either free or held by one of the threads.
THEOREM ClaimAlwaysCoversWork == Spec => []ClaimCoversWork
<1>1. IInv /\ Slots => ClaimCoversWork
  <2> SUFFICES ASSUME IInv, Slots PROVE ClaimCoversWork
    OBVIOUS
  <2>1. ASSUME NEW w \in Work, task[w] \in {"created", "slot"} \/ w \in HoldingSlot
        PROVE  /\ w[1] \in Calls /\ w[2] \in Generations /\ w = <<w[1], w[2]>>
               /\ OpenItem(w[1], w[2]) /\ w[2] \in inflight /\ caller[w[1]] = "waiting"
    <3>1. w[1] \in Calls /\ w[2] \in Generations /\ w = <<w[1], w[2]>>
      BY WorkPairs
    <3>2. task[<<w[1], w[2]>>] \notin {"none", "dropped", "ok", "failed"}
      BY <2>1, <3>1 DEF HoldingSlot
    <3>3. OpenItem(w[1], w[2]) /\ caller[w[1]] = "waiting"
      BY <3>1, <3>2, ActiveTask
    <3> QED
      BY <3>1, <3>3 DEF IInv, Claims
  <2>2. ASSUME NEW v \in HoldingSlot, NEW w \in HoldingSlot, v # w PROVE v[2] # w[2]
    <3>1. v \in Work /\ w \in Work
      BY DEF HoldingSlot
    <3> QED
      BY <2>1, <2>2, <3>1 DEF IInv, Claims
  <2>3. ASSUME NEW w \in HoldingSlot PROVE ~Ended(w[1])
    <3>1. w \in Work
      BY DEF HoldingSlot
    <3> QED
      BY <2>1, <3>1 DEF Ended
  <2> QED
    BY <2>1, <2>2, <2>3 DEF ClaimCoversWork, Slots
<1>2. Spec => []Slots
  BY IInvAlways, InitSlots, StepSlots, PTL DEF Spec
<1> QED
  BY <1>1, <1>2, IInvAlways, PTL

\* Every accepted file is reported to the sink exactly once by the time its call
\* ends, and what the caller learns is true of the disk, whichever of the caller,
\* the batch, the file tasks and the executor's jobs are cancelled or fail.
THEOREM CallsAlwaysHonest == Spec => []CallsHonest
<1>1. IInv => CallsHonest
  <2> SUFFICES ASSUME IInv PROVE CallsHonest
    OBVIOUS
  <2>0. Types
    BY DEF IInv
  <2>1. ReportedOnce
    <3> SUFFICES ASSUME NEW c \in Calls, NEW g \in Generations
                 PROVE  /\ Len(sink[<<c, g>>]) <= 1
                        /\ Ended(c) => (Len(sink[<<c, g>>]) = 1 <=> g \in files[c])
      BY DEF ReportedOnce
    <3>1. sink[<<c, g>>] \in {<< >>, <<TRUE>>, <<FALSE>>}
      BY <2>0, WorkPairs DEF Types
    <3>2. Len(<< >>) = 0 /\ Len(<<TRUE>>) = 1 /\ Len(<<FALSE>>) = 1
      OBVIOUS
    <3>3. CallStage(c) /\ TaskStage(c, g) /\ SinkStage(c, g) /\ task[<<c, g>>] \in TaskStates
      BY <2>0, WorkPairs DEF IInv, Types
    <3>4. ASSUME Ended(c), g \in files[c] PROVE sink[<<c, g>>] # << >>
      <4>1. CASE internal[c] = "cancelled"
        BY <3>3, <3>4, <4>1 DEF Ended, SinkStage
      <4>2. CASE internal[c] # "cancelled"
        <5>1. internal[c] \in {"ok", "critical"}
          BY <3>3, <3>4, <4>2 DEF Ended, CallStage
        <5>2. task[<<c, g>>] \in {"ok", "failed", "dropped"}
          BY <3>3, <3>4, <5>1 DEF TaskStage
        <5> QED
          BY <3>3, <5>1, <5>2, OneIsNotNone DEF SinkStage
      <4> QED
        BY <4>1, <4>2
    <3>5. g \notin files[c] => sink[<<c, g>>] = << >>
      BY <3>3 DEF SinkStage
    <3>6. /\ Len(sink[<<c, g>>]) \in {0, 1}
          /\ Len(sink[<<c, g>>]) = 1 <=> sink[<<c, g>>] # << >>
      <4>1. CASE sink[<<c, g>>] = << >>
        BY <3>2, <4>1
      <4>2. CASE sink[<<c, g>>] = <<TRUE>>
        BY <3>2, <4>2, OneIsNotNone
      <4>3. CASE sink[<<c, g>>] = <<FALSE>>
        BY <3>2, <4>3, OneIsNotNone
      <4> QED
        BY <3>1, <4>1, <4>2, <4>3
    <3>7. Ended(c) => (Len(sink[<<c, g>>]) = 1 <=> g \in files[c])
      BY <3>4, <3>5, <3>6
    <3>8. Len(sink[<<c, g>>]) <= 1
      BY <3>6
    <3> QED
      BY <3>7, <3>8
  <2>2. OutcomeHonest
    <3> SUFFICES ASSUME NEW c \in Calls
                 PROVE  /\ caller[c] \in {"returned", "cancelled"} =>
                              \A w \in Of(c) : disk[w] = "synced" /\ sink[w] = <<TRUE>>
                        /\ caller[c] = "critical" =>
                              /\ affected[c] # {}
                              /\ {w[2] : w \in {v \in Of(c) : disk[v] # "synced"}} \subseteq affected[c]
      BY DEF OutcomeHonest
    <3>1. CallStage(c) /\ files[c] \in SUBSET Generations
      BY <2>0 DEF IInv, Types
    <3>2. \A g \in files[c] : TaskStage(c, g) /\ SinkStage(c, g)
      BY <3>1 DEF IInv
    <3>3. ASSUME caller[c] \in {"returned", "cancelled"}, NEW g \in files[c]
          PROVE  disk[<<c, g>>] = "synced" /\ sink[<<c, g>>] = <<TRUE>>
      <4>1. task[<<c, g>>] = "ok"
        BY <3>1, <3>2, <3>3 DEF CallStage, TaskStage
      <4> QED
        BY <3>2, <4>1 DEF TaskStage, SinkStage
    <3>4. ASSUME caller[c] = "critical"
          PROVE  affected[c] # {} /\ \A g \in files[c] : disk[<<c, g>>] # "synced" => g \in affected[c]
      <4>1. CASE internal[c] = "cancelled"
        BY <3>1, <3>4, <4>1 DEF CallStage
      <4>2. CASE internal[c] = "critical"
        <5>1. affected[c] = {g \in files[c] : task[<<c, g>>] # "ok"} /\ affected[c] # {}
          BY <2>0, <3>1, <4>2, FailuresAre DEF CallStage
        <5>2. \A g \in files[c] : task[<<c, g>>] = "ok" => disk[<<c, g>>] = "synced"
          BY <3>2 DEF TaskStage
        <5> QED
          BY <5>1, <5>2
      <4> QED
        BY <3>1, <3>4, <4>1, <4>2 DEF CallStage
    <3>5. caller[c] = "critical" =>
              {w[2] : w \in {v \in Of(c) : disk[v] # "synced"}} \subseteq affected[c]
      <4> SUFFICES ASSUME caller[c] = "critical", NEW v \in Of(c), disk[v] # "synced"
                   PROVE  v[2] \in affected[c]
        OBVIOUS
      <4>1. PICK g \in files[c] : v = <<c, g>>
        BY DEF Of
      <4> QED
        BY <3>4, <4>1
    <3> QED
      BY <3>3, <3>4, <3>5 DEF Of
  <2> QED
    BY <2>1, <2>2 DEF CallsHonest
<1> QED
  BY <1>1, IInvAlways, PTL
=============================================================================
