----------------------------- MODULE Durability -----------------------------
(***************************************************************************)
(* The durability coordinator (src/crypto_collector/storage/durability.py: *)
(* DurabilityCoordinator, StorageIoLimiter).  A call of sync_batch claims  *)
(* the generations of its files, runs them in a task of its own, one task  *)
(* per file, and each file's write and sync in a thread of the executor.   *)
(* Callers, batch tasks and file tasks may be cancelled at any await; the  *)
(* threads cannot.  Every claimed file must be reported to the sink once,  *)
(* and nobody may believe a file settled while its thread still runs.      *)
(***************************************************************************)
EXTENDS Naturals, Sequences, FiniteSets

CONSTANTS Calls,          \* calls of sync_batch
          Generations,    \* file generations
          MaxConcurrency  \* slots of the StorageIoLimiter

ASSUME DurabilityAssumption ==
    IsFiniteSet(Calls) /\ IsFiniteSet(Generations) /\ MaxConcurrency \in Nat \ {0}

VARIABLES
    files,       \* call -> the generations of its work items
    inflight,    \* _inflight_generations
    free,        \* free slots of the limiter
    internal,    \* call -> its batch task: "none", "created", "running", "cancelled", "ok", "critical"
    task,        \* call -> generation -> its file task, see TaskStates
    disk,        \* call -> generation -> what its thread did: "none", "written", "synced"
    sink,        \* call -> generation -> the completions given to the sink, in order
    cancelled,   \* calls whose caller was cancelled while it waited
    affected,    \* call -> generations named by its critical error
    caller       \* call -> "idle", "waiting", "refused", "returned", "cancelled", "critical"

vars == <<files, inflight, free, internal, task, disk, sink, cancelled, affected, caller>>

\* "created": not run yet; "dropped": cancelled before that; "slot": waits for a
\* slot; "thread": submitted to the executor; "done", "writefail", "syncfail":
\* the thread's outcome; "ok", "failed": reported.
TaskStates == {"none", "created", "dropped", "slot", "thread", "done", "writefail", "syncfail",
               "ok", "failed"}
Work == Calls \X Generations

Init ==
    /\ files = [c \in Calls |-> {}] /\ inflight = {} /\ free = MaxConcurrency
    /\ internal = [c \in Calls |-> "none"]
    /\ task = [w \in Work |-> "none"] /\ disk = [w \in Work |-> "none"]
    /\ sink = [w \in Work |-> << >>]
    /\ cancelled = {} /\ affected = [c \in Calls |-> {}]
    /\ caller = [c \in Calls |-> "idle"]

Of(c) == {<<c, g>> : g \in files[c]}
-----------------------------------------------------------------------------
(* sync_batch *)

\* _register_work: is one of the generations in flight?
ClaimedAll(gs) == gs \subseteq inflight
Claimed(gs) == gs \cap inflight # {}

\* _register_work, and the task of the batch.  A generation in flight is
\* refused; when the task cannot be created the claim is rolled back.
SyncBatch(c, gs) ==
    /\ caller[c] = "idle"
    /\ \/ /\ Claimed(gs)
          /\ caller' = [caller EXCEPT ![c] = "refused"]
          /\ UNCHANGED <<files, inflight, internal>>
       \/ /\ ~Claimed(gs)
          /\ files' = [files EXCEPT ![c] = gs] /\ inflight' = inflight \cup gs
          /\ internal' = [internal EXCEPT ![c] = "created"]
          /\ caller' = [caller EXCEPT ![c] = "waiting"]
       \/ /\ ~Claimed(gs)
          /\ caller' = [caller EXCEPT ![c] = "refused"]
          /\ UNCHANGED <<files, inflight, internal>>
    /\ UNCHANGED <<free, task, disk, sink, cancelled, affected>>

\* Cancelling the caller interrupts the wait, not the batch.
CancelCaller(c) ==
    /\ caller[c] = "waiting" /\ cancelled' = cancelled \cup {c}
    /\ UNCHANGED <<files, inflight, free, internal, task, disk, sink, affected, caller>>

\* One completion to the sink for each of the works.
Emit(works, ok) == sink' = [w \in Work |-> IF w \in works THEN Append(sink[w], ok) ELSE sink[w]]

\* The batch has ended: its result goes to the caller.
CallerResumes(c) ==
    /\ caller[c] = "waiting"
    /\ \/ /\ internal[c] = "cancelled"
          /\ Emit(Of(c), FALSE) /\ inflight' = inflight \ files[c]
          /\ affected' = [affected EXCEPT ![c] = files[c]]
          /\ caller' = [caller EXCEPT ![c] = "critical"]
       \/ /\ internal[c] = "critical"
          /\ caller' = [caller EXCEPT ![c] = "critical"] /\ UNCHANGED <<sink, inflight, affected>>
       \/ /\ internal[c] = "ok"
          /\ caller' = [caller EXCEPT ![c] = IF c \in cancelled THEN "cancelled" ELSE "returned"]
          /\ UNCHANGED <<sink, inflight, affected>>
    /\ UNCHANGED <<files, free, internal, task, disk, cancelled>>
-----------------------------------------------------------------------------
(* _run_owned_batch *)

\* Tasks are created in order; if one cannot be, it and those after it fail.
StartBatch(c, made) ==
    /\ internal[c] = "created" /\ made \subseteq files[c]
    /\ internal' = [internal EXCEPT ![c] = "running"]
    /\ task' = [w \in Work |-> IF w \notin Of(c) THEN task[w]
                               ELSE IF w[2] \in made THEN "created" ELSE "failed"]
    /\ Emit({w \in Of(c) : w[2] \notin made}, FALSE)
    /\ inflight' = inflight \ (files[c] \ made)
    /\ UNCHANGED <<files, free, disk, cancelled, affected, caller>>

\* A batch task cancelled before it ran never runs; later it ignores it.
CancelBatch(c) ==
    /\ internal[c] = "created" /\ internal' = [internal EXCEPT ![c] = "cancelled"]
    /\ UNCHANGED <<files, inflight, free, task, disk, sink, cancelled, affected, caller>>

\* The files whose task never ran, and the files that failed.
UnreportedFailures(c) == {w \in Of(c) : task[w] \in {"dropped", "failed"}}
Unreported(c) == {w \in Of(c) : task[w] = "dropped" /\ w[2] \in inflight}
FailuresReported(c) == {w[2] : w \in {v \in Of(c) : task[v] = "failed"}}
Failures(c) == {w[2] : w \in {v \in Of(c) : task[v] # "ok"}}

\* All file tasks have ended.  Those that never ran are reported here.
FinishBatch(c) ==
    /\ internal[c] = "running"
    /\ \A w \in Of(c) : task[w] \in {"ok", "failed", "dropped"}
    /\ Emit(Unreported(c), FALSE) /\ inflight' = inflight \ {w[2] : w \in Unreported(c)}
    /\ affected' = [affected EXCEPT ![c] = Failures(c)]
    /\ internal' = [internal EXCEPT ![c] = IF Failures(c) = {} THEN "ok" ELSE "critical"]
    /\ UNCHANGED <<files, free, task, disk, cancelled, caller>>
-----------------------------------------------------------------------------
(* _persist_one and _await_blocking_outcome *)

StartTask(w) ==
    /\ task[w] = "created" /\ task' = [task EXCEPT ![w] = "slot"]
    /\ UNCHANGED <<files, inflight, free, internal, disk, sink, cancelled, affected, caller>>

AcquireSlot(w) ==
    /\ task[w] = "slot" /\ free > 0
    /\ free' = free - 1 /\ task' = [task EXCEPT ![w] = "thread"]
    /\ UNCHANGED <<files, inflight, internal, disk, sink, cancelled, affected, caller>>

\* The one report of a file, and the end of its claim.
Report(w, ok) ==
    /\ Emit({w}, ok) /\ inflight' = inflight \ {w[2]}
    /\ \E raised \in BOOLEAN : task' = [task EXCEPT ![w] = IF ok /\ ~raised THEN "ok" ELSE "failed"]

\* A file task is cancelled before it ran, or while it waits for a slot; while
\* its thread runs it keeps waiting.
CancelTask(w) ==
    /\ \/ /\ task[w] = "created" /\ task' = [task EXCEPT ![w] = "dropped"]
          /\ UNCHANGED <<sink, inflight>>
       \/ task[w] = "slot" /\ Report(w, FALSE)
    /\ UNCHANGED <<files, free, internal, disk, cancelled, affected, caller>>

\* _persist_blocking, in the executor's thread.  A clock that runs backward in a
\* sync (durability.py:471) is a failed sync; one that raises before the write (456)
\* is left out.
ThreadWrites(w) ==
    /\ task[w] = "thread" /\ disk[w] = "none"
    /\ \/ disk' = [disk EXCEPT ![w] = "written"] /\ UNCHANGED task
       \/ task' = [task EXCEPT ![w] = "writefail"] /\ UNCHANGED disk
    /\ UNCHANGED <<files, inflight, free, internal, sink, cancelled, affected, caller>>

ThreadSyncs(w) ==
    /\ task[w] = "thread" /\ disk[w] = "written"
    /\ \/ disk' = [disk EXCEPT ![w] = "synced"] /\ task' = [task EXCEPT ![w] = "done"]
       \/ task' = [task EXCEPT ![w] = "syncfail"] /\ UNCHANGED disk
    /\ UNCHANGED <<files, inflight, free, internal, sink, cancelled, affected, caller>>

\* The executor refuses the work or cancels it before a thread took it.
ExecutorCancels(w) ==
    /\ task[w] = "thread" /\ disk[w] = "none" /\ task' = [task EXCEPT ![w] = "syncfail"]
    /\ UNCHANGED <<files, inflight, free, internal, disk, sink, cancelled, affected, caller>>

\* The task sees the thread's outcome: the slot is returned, the file reported.
TaskEndsLeaking(w) ==
    /\ task[w] \in {"done", "writefail", "syncfail"}
    /\ free' = (IF task[w] = "done" THEN free + 1 ELSE free) /\ Report(w, task[w] = "done")
    /\ UNCHANGED <<files, internal, disk, cancelled, affected, caller>>
TaskEnds(w) ==
    /\ task[w] \in {"done", "writefail", "syncfail"}
    /\ free' = free + 1 /\ Report(w, task[w] = "done")
    /\ UNCHANGED <<files, internal, disk, cancelled, affected, caller>>
-----------------------------------------------------------------------------
Progress(c) ==
    \/ CallerResumes(c) \/ FinishBatch(c)
    \/ \E made \in SUBSET files[c] : StartBatch(c, made)
    \/ \E g \in Generations : \/ StartTask(<<c, g>>) \/ AcquireSlot(<<c, g>>)
                              \/ ThreadWrites(<<c, g>>) \/ ThreadSyncs(<<c, g>>) \/ TaskEnds(<<c, g>>)

Next ==
    \E c \in Calls :
        \/ Progress(c)
        \/ \E gs \in (SUBSET Generations) \ {{}} : SyncBatch(c, gs)
        \/ CancelCaller(c) \/ CancelBatch(c)
        \/ \E g \in Generations : CancelTask(<<c, g>>) \/ ExecutorCancels(<<c, g>>)

\* The event loop runs what is ready and a thread that was started ends.
Spec == Init /\ [][Next]_vars /\ \A c \in Calls : WF_vars(Progress(c))
-----------------------------------------------------------------------------
(* Properties *)

HoldingSlot == {w \in Work : task[w] \in {"thread", "done", "writefail", "syncfail"}}
Ended(c) == caller[c] \in {"returned", "cancelled", "critical"}

\* Every claimed file is reported to the sink exactly once, whichever of the
\* caller, the batch and the file task is cancelled, and never twice on the way.
ReportedOnce ==
    \A c \in Calls, g \in Generations :
        /\ Len(sink[<<c, g>>]) <= 1
        /\ Ended(c) => (Len(sink[<<c, g>>]) = 1 <=> g \in files[c])

\* A generation is claimed as long as anything may still touch its file: no two
\* calls work on it at once, and a caller is not told before its threads ended.
\* No end of a file task loses a slot of the limiter or returns it twice.
ClaimCoversWork ==
    /\ \A w \in Work : task[w] \in {"created", "slot"} \/ w \in HoldingSlot => w[2] \in inflight
    /\ \A v, w \in HoldingSlot : v # w => v[2] # w[2]
    /\ \A w \in HoldingSlot : ~Ended(w[1])
    /\ free + Cardinality(HoldingSlot) = MaxConcurrency

\* What a caller learns is true of the files: a batch that returned, or whose
\* caller only sees its own cancellation, is on the disk in full; a file whose
\* sync did not succeed is named by the critical error.
OutcomeHonest ==
    \A c \in Calls :
        /\ caller[c] \in {"returned", "cancelled"} =>
               \A w \in Of(c) : disk[w] = "synced" /\ sink[w] = <<TRUE>>
        /\ caller[c] = "critical" => /\ affected[c] # {}
                                     /\ {w[2] : w \in {v \in Of(c) : disk[v] # "synced"}} \subseteq affected[c]

\* sync_batch tells the truth about each file once to the sink and once to its
\* caller.
CallsHonest == ReportedOnce /\ OutcomeHonest

\* Every accepted call ends, cancelled or not: no cancellation or failure keeps a
\* slot that a waiting file needs.
EveryCallEnds == \A c \in Calls : caller[c] = "waiting" ~> Ended(c)
=============================================================================
