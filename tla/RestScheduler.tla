--------------------------- MODULE RestScheduler ---------------------------
(***************************************************************************)
(* The REST scheduler (src/crypto_collector/scheduler/rest.py) and the     *)
(* token buckets it pays with (src/crypto_collector/network/rate_limit.py).*)
(* Callers submit jobs; any number of dispatchers wait in next_ready for   *)
(* the next job that is due and that one of its routes' budgets can pay.   *)
(*                                                                         *)
(* Every method runs between two awaits of one event loop, so it is one    *)
(* action.  Time is a count of ticks; tokens and refill rates are integers *)
(* per tick.  A job is a record: priority prio (smaller first), the budget *)
(* keys of its routes in order, those its connection generation allows     *)
(* (eligible), cost, ready time, deadline, logical key, whether a newer    *)
(* occurrence (sched) of that key may replace it.                          *)
(*                                                                         *)
(* Left out: submissions that raise or return before anything changes (a   *)
(* closed scheduler, also next_ready, a job id already pending, a cost above a bucket's     *)
(* capacity); the bounded histories of expired and evicted ids; _revision, *)
(* which cannot change between its read and its test; _next_budget_ready,  *)
(* which is only read right after the selection that wrote it.             *)
(***************************************************************************)
EXTENDS Integers, Sequences, FiniteSets, FiniteSetsExt, SequencesExt

CONSTANTS Jobs,        \* names of the jobs that callers submit
          JobOf,       \* job -> its fields
          Keys,        \* budget keys
          LogicalKeys, \* logical keys of replaceable jobs
          NoKey,       \* logical key of a job without one
          NoJob,
          Cap,         \* hard capacity of every bucket
          Rate,        \* hard refill rate of every bucket
          Floor,       \* lowest refill rate that a shrink or multiplier leaves
          Dispatchers,
          MaxPending,  \* _max_pending
          MaxSubmits,  \* bound on sequences given out
          MaxChanges,  \* bound on changes of the budgets by others
          MaxTime      \* bound on the clock

Never == MaxTime + 1000   \* no deadline
Running == -1

Fields == [prio : Nat, keys : Seq(Keys), eligible : SUBSET Keys, cost : Nat \ {0}, ready : Nat,
           deadline : Nat, lkey : LogicalKeys \cup {NoKey}, replaceable : BOOLEAN, sched : Nat]

ASSUME SchedulerAssumption ==
    /\ NoJob \notin Jobs /\ NoKey \notin LogicalKeys \cup Keys
    /\ {Cap, Rate, Floor, MaxPending} \subseteq Nat \ {0} /\ Floor <= Rate
    /\ {MaxSubmits, MaxChanges, MaxTime} \subseteq Nat
    /\ JobOf \in [Jobs -> Fields]
    /\ \A j \in Jobs : /\ JobOf[j].cost <= Cap
                       /\ JobOf[j].eligible # {} /\ JobOf[j].eligible \subseteq ToSet(JobOf[j].keys)
                       /\ JobOf[j].replaceable => JobOf[j].lkey # NoKey

VARIABLES
    now,      \* the monotonic clock
    seq,      \* job -> its sequence while it is pending, else 0 (_jobs)
    count,    \* _sequence
    index,    \* _logical_index
    future,   \* _future: jobs not yet due, with their sequence
    ready,    \* _ready
    tokens, rate, refilled,  \* of each bucket: _tokens, _refill_per_second, _last_refill_ns
    closed,   \* _closed
    armed,    \* dispatcher -> the deadline of its wait, Running if it does not wait
    log,      \* history: the dispatches
    changes   \* history: changes of the budgets by others

poolVars == <<seq, count, index, future, ready>>
bucketVars == <<tokens, rate, refilled>>
vars == <<now, poolVars, bucketVars, closed, armed, log, changes>>

Init ==
    /\ now = 0 /\ count = 0 /\ closed = FALSE /\ log = << >>
    /\ seq = [j \in Jobs |-> 0]
    /\ index = [l \in LogicalKeys |-> NoJob]
    /\ future = {} /\ ready = {}
    /\ tokens = [k \in Keys |-> Cap] /\ rate = [k \in Keys |-> Rate]
    /\ refilled = [k \in Keys |-> 0]
    /\ armed = [d \in Dispatchers |-> Running] /\ changes = 0

Pending == {j \in Jobs : seq[j] # 0}
-----------------------------------------------------------------------------
(* Token buckets *)

\* TokenBucket._refill at the current time: the tokens of bucket k.
Refilled(k) == Min({Cap, tokens[k] + rate[k] * (now - refilled[k])})

\* A refill that leaves _last_refill_ns as it is.
StampStale(touched) == refilled

Stamp(touched) == [k \in Keys |-> IF k \in touched THEN now ELSE refilled[k]]

CeilDiv(a, b) == (a + b - 1) \div b

\* The wait is rounded down.
ReadyAtFloor(k, cost) == now + (cost - Refilled(k)) \div rate[k]

\* TokenBucket.ready_at_ns of a cost that the bucket cannot pay now.
ReadyAt(k, cost) == now + CeilDiv(cost - Refilled(k), rate[k])

Changed == changes < MaxChanges /\ changes' = changes + 1

\* observe_available: the exchange reports what is left.
Observe(k, left) ==
    /\ tokens' = [tokens EXCEPT ![k] = Min({Refilled(k), left})]
    /\ refilled' = Stamp({k})
    /\ Changed
    /\ UNCHANGED <<now, poolVars, rate, closed, armed, log>>

\* shrink with a multiplier of one half
Shrink(k) ==
    /\ tokens' = [tokens EXCEPT ![k] = Refilled(k)]
    /\ refilled' = Stamp({k})
    /\ rate' = [rate EXCEPT ![k] = Min({@, Max({Floor, @ \div 2})})]
    /\ Changed
    /\ UNCHANGED <<now, poolVars, closed, armed, log>>
-----------------------------------------------------------------------------
(* The pool of pending jobs *)

Late(j) == now > JobOf[j].deadline

\* _changed.set() wakes every waiting dispatcher.
Notified == [d \in Dispatchers |-> Running]

\* The heap entries of removed jobs stay.
WithoutKept(entries, gone) == entries

Without(entries, gone) == {e \in entries : e.job \notin gone}

\* _remove_pending, _expire_all: the jobs leave the pool, the index and the heaps.
SeqWithout(gone) == [j \in Jobs |-> IF j \in gone THEN 0 ELSE seq[j]]
IndexWithout(gone) == [l \in LogicalKeys |-> IF index[l] \in gone THEN NoJob ELSE index[l]]

Expired == {j \in Pending : Late(j)}

Rank(j) == <<JobOf[j].prio, seq[j]>>
Before(a, b) == a[1] < b[1] \/ (a[1] = b[1] /\ a[2] < b[2])

\* Any job of a lower priority makes room.
EvictableAny(j, left) == {i \in left : JobOf[i].prio > JobOf[j].prio}

\* _eviction_candidate: the replaceable jobs that may make room for j.
Evictable(j, left) ==
    {i \in left : ~JobOf[j].replaceable /\ JobOf[i].replaceable /\ JobOf[i].prio > JobOf[j].prio}

\* The pending occurrence that j would replace.
Replaced(j) == IF JobOf[j].replaceable THEN {index[JobOf[j].lkey]} \ {NoJob} ELSE {}

\* submit_nowait of a job that is already past its deadline.
SubmitLate(j) ==
    /\ Late(j)
    /\ seq' = SeqWithout(Replaced(j)) /\ index' = IndexWithout(Replaced(j))
    /\ future' = Without(future, Replaced(j)) /\ ready' = Without(ready, Replaced(j))
    /\ armed' = IF Replaced(j) # {} THEN Notified ELSE armed
    /\ UNCHANGED count

\* submit_nowait of a job in time: overdue jobs expire, then j takes the place of
\* the occurrence it replaces, or of one it evicts, or the scheduler is full.
SubmitInTime(j) ==
    /\ ~Late(j)
    /\ LET left == Pending \ Expired
           full == Replaced(j) \cap left = {} /\ Cardinality(left) >= MaxPending
           refused == full /\ Evictable(j, left) = {}
           victims == {i \in Evictable(j, left) : \A h \in Evictable(j, left) : ~Before(Rank(i), Rank(h))}
           gone == Expired \cup Replaced(j) \cup (IF full THEN victims ELSE {})
           added == IF refused THEN {} ELSE {[job |-> j, seq |-> count + 1]}
           due == JobOf[j].ready <= now
       IN /\ count' = IF refused THEN count ELSE count + 1
          /\ seq' = IF refused THEN SeqWithout(gone) ELSE [SeqWithout(gone) EXCEPT ![j] = count + 1]
          /\ index' = [l \in LogicalKeys |->
                         IF ~refused /\ JobOf[j].replaceable /\ l = JobOf[j].lkey THEN j
                         ELSE IndexWithout(gone)[l]]
          /\ ready' = Without(ready, gone) \cup (IF due THEN added ELSE {})
          /\ future' = Without(future, gone) \cup (IF due THEN {} ELSE added)
          /\ armed' = IF refused /\ gone = {} THEN armed ELSE Notified

Submit(j) ==
    /\ ~closed /\ seq[j] = 0 /\ count < MaxSubmits
    /\ \A i \in Replaced(j) : JobOf[j].sched > JobOf[i].sched
    /\ SubmitLate(j) \/ SubmitInTime(j)
    /\ UNCHANGED <<now, bucketVars, closed, log, changes>>
-----------------------------------------------------------------------------
(* Dispatch: _next_ready *)

\* The heap entries that are due: _expire_all, then _promote_ready.
DueEntries == {e \in Without(ready \cup future, Expired) : e \in ready \/ JobOf[e.job].ready <= now}
StillFuture == Without(future, Expired) \ DueEntries

\* The heap pops the smallest priority first, and of one priority the oldest.
LeastUrgent(entries) ==
    CHOOSE e \in entries :
        \A f \in entries : ~Before(<<JobOf[e.job].prio, e.seq>>, <<JobOf[f.job].prio, f.seq>>)

NothingYet == [job |-> NoJob, key |-> NoKey, blocked |-> {}, tried |-> {}, wake |-> Never, stale |-> {}]

\* A budget that cannot pay one job may still pay a later one.
BlockedNone(blocked, avail) == blocked

BlockedWith(blocked, avail) == blocked \cup avail

\* Any budget pays.
PaysAlways(k, cost) == TRUE

Pays(k, cost) == cost <= Refilled(k)

\* One turn of the selection loop: the routes whose budget no better job waits
\* for are tried in order; if none can pay, they are blocked for the others.
Consider(acc, e) ==
    LET job == JobOf[e.job]
        avail == job.eligible \ acc.blocked
        payers == {i \in DOMAIN job.keys : job.keys[i] \in avail /\ Pays(job.keys[i], job.cost)}
    IN CASE acc.job # NoJob \/ (e.seq = seq[e.job] /\ avail = {}) -> acc
         [] acc.job = NoJob /\ e.seq # seq[e.job] -> [acc EXCEPT !.stale = @ \cup {e}]
         [] acc.job = NoJob /\ e.seq = seq[e.job] /\ payers # {} ->
              [acc EXCEPT !.job = e.job, !.key = job.keys[Min(payers)],
                          !.tried = @ \cup (avail \cap {job.keys[i] : i \in 1..Min(payers)})]
         [] OTHER ->
              [acc EXCEPT !.blocked = BlockedWith(@, avail),
                          !.tried = @ \cup avail,
                          !.wake = Min({@} \cup {ReadyAt(k, job.cost) : k \in avail})]

\* The loop over the heap: what is considered last is the least urgent entry.
Selection ==
    MapThenFoldSet(LAMBDA e, acc : Consider(acc, e), NothingYet, LAMBDA e : e, LeastUrgent, DueEntries)

\* Only budgets and deadlines wake a dispatcher.
WakeWithoutFuture(jobs, waiting, budget) ==
    Min({budget} \cup {JobOf[j].deadline + 1 : j \in jobs})

\* _next_wait_deadline_ns: the budget of a blocked job, the next job to become
\* due, or a deadline to enforce.
WakeAt(jobs, waiting, budget) ==
    Min({budget} \cup {JobOf[e.job].ready : e \in waiting}
                 \cup {JobOf[j].deadline + 1 : j \in jobs})

\* What a selection s leaves in the pool and takes from the buckets.
Selected(s) ==
    LET gone == Expired \cup ({s.job} \ {NoJob}) IN
    /\ seq' = SeqWithout(gone) /\ index' = IndexWithout(gone)
    /\ ready' = Without(DueEntries, gone) \ s.stale
    /\ future' = StillFuture
    /\ tokens' = [k \in Keys |-> IF k = s.key THEN Refilled(k) - JobOf[s.job].cost
                                 ELSE IF k \in s.tried THEN Refilled(k) ELSE tokens[k]]
    /\ refilled' = Stamp(s.tried)
    /\ log' = IF s.job = NoJob THEN log
              ELSE Append(log, [job |-> s.job, key |-> s.key, at |-> now])

\* next_ready: a turn of the loop returns a dispatch, or arms the wait.  The two
\* readings of the clock (rest.py:660, 744) are one: a deadline that passes between
\* them ends the wait at once.  A wait too long for a float (120) is never armed here.
NextReady(d) ==
    /\ armed[d] = Running /\ ~closed
    /\ LET s == Selection IN
       /\ Selected(s)
       /\ \/ s.job # NoJob /\ UNCHANGED armed
          \/ /\ s.job = NoJob
             /\ armed' = [armed EXCEPT ![d] = WakeAt(Pending \ Expired, StillFuture, s.wake)]
    /\ UNCHANGED <<now, count, rate, closed, changes>>

\* next_ready_or_none
NextReadyOrNone ==
    /\ ~closed
    /\ Selected(Selection)
    /\ UNCHANGED <<now, count, rate, closed, armed, changes>>

\* EventMonotonicWaiter: the wait ends at its deadline.
Timeout(d) ==
    /\ armed[d] # Running /\ now >= armed[d]
    /\ armed' = [armed EXCEPT ![d] = Running]
    /\ UNCHANGED <<now, poolVars, bucketVars, closed, log, changes>>

\* set_refill_multiplier back to the full rate.  It wakes nobody by itself: whoever
\* raises a rate is taken to call notify_resources_changed in the same turn of the
\* event loop (nothing in the collector calls either yet).
Restore(k) ==
    /\ rate[k] < Rate /\ ~closed
    /\ tokens' = [tokens EXCEPT ![k] = Refilled(k)]
    /\ refilled' = Stamp({k})
    /\ rate' = [rate EXCEPT ![k] = Rate]
    /\ armed' = Notified
    /\ Changed
    /\ UNCHANGED <<now, poolVars, closed, log>>

\* notify_resources_changed alone: a spurious wake-up
Notify ==
    /\ ~closed
    /\ armed' = Notified
    /\ UNCHANGED <<now, poolVars, bucketVars, closed, log, changes>>

Close ==
    /\ ~closed
    /\ closed' = TRUE
    /\ armed' = Notified
    /\ UNCHANGED <<now, poolVars, bucketVars, log, changes>>

Tick ==
    /\ now < MaxTime
    /\ now' = now + 1
    /\ UNCHANGED <<poolVars, bucketVars, closed, armed, log, changes>>

Next ==
    \/ \E j \in Jobs : Submit(j)
    \/ \E d \in Dispatchers : NextReady(d) \/ Timeout(d)
    \/ NextReadyOrNone
    \/ \E k \in Keys : Shrink(k) \/ Restore(k) \/ (\E left \in 0..Cap : Observe(k, left))
    \/ Notify \/ Close \/ Tick

Spec == Init /\ [][Next]_vars
-----------------------------------------------------------------------------
(* Properties *)

TypeOK ==
    /\ now \in 0..MaxTime /\ count \in 0..MaxSubmits /\ closed \in BOOLEAN
    /\ seq \in [Jobs -> 0..count]
    /\ index \in [LogicalKeys -> Jobs \cup {NoJob}]
    /\ ready \cup future \subseteq [job : Jobs, seq : 1..count]
    /\ tokens \in [Keys -> 0..Cap] /\ rate \in [Keys -> Floor..Rate]
    /\ refilled \in [Keys -> 0..now]
    /\ armed \in [Dispatchers -> {Running} \cup 0..Never] /\ changes \in 0..MaxChanges

\* _jobs, the two heaps and the logical index agree after any sequence of
\* replacements, expiries, evictions and resubmissions: each pending job has one
\* heap entry, of its own sequence, nothing else has any, and of each logical
\* key at most one replaceable occurrence is pending, the indexed one.
IndexAgrees ==
    /\ ready \cap future = {}
    /\ ready \cup future = {[job |-> j, seq |-> seq[j]] : j \in Pending}
    /\ \A j \in Pending : JobOf[j].replaceable => index[JobOf[j].lkey] = j
    /\ \A l \in LogicalKeys : index[l] # NoJob => index[l] \in Pending

\* A dispatcher that sleeps with time left on its wait has nothing to dispatch:
\* whatever was submitted, expired, paid or slowed down by others since it armed
\* its wait, no job is due that a budget could pay.
NoMissedWake ==
    \A d \in Dispatchers : now < armed[d] => Selection.job = NoJob

\* A wait is never armed with a time that has come: next_ready would otherwise
\* loop without an await and hold the event loop.
ArmedAhead ==
    \A d \in Dispatchers : armed'[d] \in {armed[d], Running} \/ armed'[d] > now

\* Through every window between two dispatches on one budget, the cost that was
\* dispatched stays within what the exchange grants: the capacity and the refill
\* of the window, however lazily the bucket is refilled and its rate changed.
WindowRespected ==
    \A m, n \in DOMAIN log :
       LET spent == MapThenSumSet(LAMBDA i : JobOf[log[i].job].cost,
                          {i \in m..n : log[i].key = log[n].key})
       IN log[m].key = log[n].key /\ m <= n => spent <= Cap + Rate * (log[n].at - log[m].at)

\* A dispatch takes nothing from a budget that a more urgent job in the ready
\* heap waits for: a cheap job cannot starve a dear one of a better rank.
NoOvertaking ==
    Len(log') > Len(log) =>
      \A e \in ready' : LET sent == Last(log') IN
         Before(Rank(e.job), Rank(sent.job)) => sent.key \notin JobOf[e.job].eligible

\* A pending job leaves only when it is dispatched, past its deadline, replaced
\* by a newer occurrence, or evicted, replaceable, for a more urgent one.
LeavesForCause ==
    \A j \in Pending : seq'[j] # seq[j] =>
      \/ Len(log') > Len(log) /\ Last(log').job = j
      \/ Late(j)
      \/ JobOf[j].replaceable /\ \E i \in Jobs : seq[i] = 0 /\
           \/ seq'[i] # 0 /\ JobOf[i].prio < JobOf[j].prio
           \/ JobOf[i].lkey = JobOf[j].lkey /\ JobOf[i].sched > JobOf[j].sched

\* The scheduler's indexes agree and no dispatcher sleeps over a payable job.
WaitsSound == TypeOK /\ IndexAgrees /\ NoMissedWake

\* Every step of the dispatch loop respects rank and reason, and waits ahead.
DispatchSound == [][NoOvertaking /\ LeavesForCause /\ ArmedAhead]_vars
=============================================================================
