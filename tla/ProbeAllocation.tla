-------------------------- MODULE ProbeAllocation --------------------------
(***************************************************************************)
(* How a probe shares one exchange's connections and request budgets among *)
(* its markets (config/probe_contracts.py: ProbeEngine._compose_exchange;  *)
(* selection/capacity.py; network/assignment.py).  Each turn of the loop   *)
(* admits candidates to whole connections, reserves physical connections,  *)
(* places instruments on them and stretches the snapshot intervals; a turn *)
(* that does not work out drops a market or one candidate and starts over. *)
(***************************************************************************)
EXTENDS Integers, FiniteSets, SequencesExt

CONSTANTS Cases,    \* what a probe may meet, see given
          RateUnit  \* a time that every interval divides: rates are requests in it

ASSUME ProbeAssumption ==
    /\ RateUnit \in Nat \ {0}
    /\ \A c \in Cases :
          /\ \A n \in 1..c.maximum : RateUnit % n = 0
          /\ \A s \in DOMAIN c.market : \A k \in DOMAIN c.market[s].entry :
                \A d \in c.market[s].entry[k].deep : RateUnit % d.every = 0

VARIABLES
    given,    \* the configuration and the evidence, never changes:
              \*  egress: egress -> [conns, group, up]
              \*  market: market -> [draft, per, entry: key -> candidate, work: set, rank]
              \*    draft: whether the catalog came and its fixed pairs resolve; per: instruments
              \*    per connection; a candidate has prio, at (first seen, or rank), policy (of the
              \*    capacity) and deep, its snapshot [depth, every, overload] or nothing;
              \*    work: endpoint work [endpoint, depth, cost, jobs]; rank: key -> its egresses
              \*  budget: <<group, endpoint>> -> tokens
              \*  maximum: deep_snapshot_max_interval_ns
    phase,    \* "prepare", "turn", "admitted", "allocated", "raised" or "done"
    active,   \* active_drafts
    rejected, \* rest_rejections: market -> keys
    failed,   \* the markets a failure names
    admission, \* exchange_admission and where it is placed: [alloc, admitted, shards]
    raised,   \* what ended the turn early: see Fails and Reduces
    report    \* market -> [admitted, shards, plans]

vars == <<given, phase, active, rejected, failed, admission, raised, report>>

Markets == DOMAIN given.market
Nobody == [s \in Markets |-> {}]

\* Nothing raised; an error that fails markets; one candidate less, please.
Fine == [kind |-> "fine", markets |-> {}, market |-> 0, key |-> 0]
Fails(markets) == [Fine EXCEPT !.kind = "fails", !.markets = markets]
Reduces(s, k) == [Fine EXCEPT !.kind = "reduces", !.market = s, !.key = k]

Init ==
    /\ given \in Cases /\ phase = "prepare" /\ active = {} /\ rejected = Nobody
    /\ failed = {} /\ admission = << >> /\ report = << >>
    /\ raised = Fine
-----------------------------------------------------------------------------
(* Admission: selection/capacity.py *)

Less(a, b) == \E i \in DOMAIN a : a[i] < b[i] /\ \A j \in 1..(i - 1) : a[j] = b[j]
Before(keys, order, k) == {j \in keys : Less(order[j], order[k])}
Sorted(keys, order) ==
    [n \in 1..Cardinality(keys) |->
        CHOOSE k \in keys : Cardinality(Before(keys, order, k)) = n - 1]
Sum(f) == MapThenSumSet(LAMBDA x : f[x], DOMAIN f)

Class == [fixed |-> 0, new |-> 1, top |-> 2]
AdmissionOrder(k, c) == <<Class[c.prio], c.at, k>>
EvictionOrder(k, c) == <<2 - Class[c.prio], -c.at, k>>

FixedOf(cands) == {k \in DOMAIN cands : cands[k].prio = "fixed"}

\* admit: what must go when there are more candidates than slots.
Evicted(cands, slots) ==
    LET order == [k \in DOMAIN cands |-> EvictionOrder(k, cands[k])]
        removable == DOMAIN cands \ FixedOf(cands)
    IN  {k \in removable :
            Cardinality(Before(removable, order, k)) < Cardinality(DOMAIN cands) - slots}

\* The physical connections in the order in which they are given out.
Reachable == {e \in DOMAIN given.egress : given.egress[e].up}
Pool ==
    LET order == Sorted(Reachable, [e \in Reachable |-> <<e>>])
        of(e) == [i \in 1..given.egress[e].conns |-> <<e, i - 1>>]
    IN  FlattenSeq([n \in DOMAIN order |-> of(order[n])])

Per(s) == given.market[s].per

\* The candidates of each market that still takes part.
DemandsAll(act, rej) == [s \in act |-> given.market[s].entry]
Demands(act, rej) ==
    [s \in act |-> [k \in DOMAIN given.market[s].entry \ rej[s] |-> given.market[s].entry[k]]]

\* The connections the fixed pairs need.
Reserved(dem) ==
    [s \in DOMAIN dem |-> (Cardinality(FixedOf(dem[s])) + Per(s) - 1) \div Per(s)]

\* The candidates that one more connection would carry.
Chunk(ordered, s, taken) ==
    SubSeq(ordered[s], taken * Per(s) + 1, Min({(taken + 1) * Per(s), Len(ordered[s])}))

\* _best_connection_scope: the market whose next candidates come first; a
\* shorter chunk is padded with what comes last.
BestScope(dem, chunk) ==
    LET longest == Max({Len(chunk[s]) : s \in DOMAIN chunk})
        padded(s) == [i \in 1..longest |->
                         IF i <= Len(chunk[s]) THEN AdmissionOrder(chunk[s][i], dem[s][chunk[s][i]])
                         ELSE <<3, 0, 0>>]
        order == [s \in DOMAIN chunk |-> Append(FlattenSeq(padded(s)), s)]
    IN  Sorted(DOMAIN chunk, order)[1]

\* The connections of each market: those of its fixed pairs, and then one by
\* one to the best market until none is left or needed.
Allocation(dem) ==
    LET order(s) == [k \in DOMAIN dem[s] |-> AdmissionOrder(k, dem[s][k])]
        ordered == [s \in DOMAIN dem |-> Sorted(DOMAIN dem[s], order(s))]
        free == Len(Pool) - Sum(Reserved(dem))
        after[n \in 0..free] ==
            IF n = 0 THEN Reserved(dem)
            ELSE LET alloc == after[n - 1]
                     chunk == [s \in DOMAIN dem |-> Chunk(ordered, s, alloc[s])]
                     options == {s \in DOMAIN dem : chunk[s] # << >>}
                 IN  IF options = {} THEN alloc
                     ELSE [alloc EXCEPT ![BestScope(dem, [s \in options |-> chunk[s]])] = @ + 1]
    IN  after[free]

Admitted(dem, alloc) ==
    [s \in DOMAIN dem |-> DOMAIN dem[s] \ Evicted(dem[s], alloc[s] * Per(s))]

\* The market admit_exchange_capacity raises for, if it raises: the fixed pairs
\* need too much, or one goes that must not.
AdmissionFailure(dem) ==
    IF Sum(Reserved(dem)) > Len(Pool) THEN {Max({s \in DOMAIN dem : Reserved(dem)[s] > 0})}
    ELSE LET adm == Admitted(dem, Allocation(dem))
             broken == {s \in DOMAIN dem : \E k \in DOMAIN dem[s] \ adm[s] : dem[s][k].policy = "fail"}
         IN  IF broken # {} THEN {Min(broken)} ELSE {}
-----------------------------------------------------------------------------
(* Placement: _reserve_connections, assign_instruments, pack_egress_shards *)

\* The connections of a market follow those of the markets before it.
ReservedFirst(alloc, s) == SubSeq(Pool, 1, alloc[s])
Reservation(alloc, s) ==
    LET before == MapThenSumSet(LAMBDA t : alloc[t], {t \in DOMAIN alloc : t < s})
    IN  SubSeq(Pool, before + 1, before + alloc[s])
On(conns, e) == SelectSeq(conns, LAMBDA c : c[1] = e)

\* The instruments in order, each to its best ranked egress that has room.
Assignment(conns, s, keys) ==
    LET order == Sorted(keys, [k \in keys |-> <<k>>])
        pick(k, room) == SelectSeq(given.market[s].rank[k], LAMBDA e : room[e] > 0)
        after[n \in 0..Len(order)] ==
            IF n = 0
            THEN [plan |-> << >>, room |-> [e \in DOMAIN given.egress |-> Len(On(conns, e)) * Per(s)]]
            ELSE LET open == pick(order[n], after[n - 1].room)
                     e == IF open = << >> THEN 0 ELSE open[1]
                 IN  [plan |-> Append(after[n - 1].plan, [key |-> order[n], egress |-> e]),
                      room |-> [x \in DOMAIN given.egress |->
                                   after[n - 1].room[x] - (IF x = e THEN 1 ELSE 0)]]
    IN  after[Len(order)].plan

\* The instruments of an egress in chunks, each under its physical index.
Shards(conns, per, plan) ==
    UNION {LET mine == SelectSeq(plan, LAMBDA p : p.egress = e)
               count == (Len(mine) + per - 1) \div per
           IN  {[egress |-> e,
                 index |-> IF n <= Len(On(conns, e)) THEN On(conns, e)[n][2] ELSE -1,
                 keys |-> {mine[i].key : i \in ((n - 1) * per + 1)..Min({n * per, Len(mine)})}]
                   : n \in 1..count}
           : e \in {p.egress : p \in ToSet(plan)}}
-----------------------------------------------------------------------------
(* Intervals: _allocate_intervals, _reduce_rest_or_fail *)

\* The snapshots the admitted instruments need, one per matching work.  Those
\* of equal attributes form a cohort and share its interval.
Snapshots(adm) ==
    UNION {{[market |-> s, key |-> k, work |-> w, deep |-> d] :
               d \in given.market[s].entry[k].deep,
               w \in {v \in given.market[s].work :
                         \E x \in given.market[s].entry[k].deep : x.depth = v.depth}}
           : <<s, k>> \in UNION {{s} \X adm[s] : s \in DOMAIN adm}}
Unworked(adm) ==
    {s \in DOMAIN adm : \E k \in adm[s] : \E d \in given.market[s].entry[k].deep :
        \A w \in given.market[s].work : w.depth # d.depth}

Endpoints(shots) == {x.work.endpoint : x \in shots}
Groups == {given.egress[e].group : e \in Reachable}
Budget(ep) == RateUnit * MapThenSumSet(LAMBDA g : given.budget[<<g, ep>>], Groups)
Rate(x, every) == x.work.jobs * x.work.cost * (RateUnit \div every)
Required(shots) == MapThenSumSet(LAMBDA x : Rate(x, x.deep.every), shots)

\* The interval a snapshot gets, a fraction in lowest terms: its own, or
\* stretched so that the flexible ones fit what the strict ones leave.
Scaled(x, left, need) ==
    LET num == x.deep.every * need
        common == Max({n \in 1..left : num % n = 0 /\ left % n = 0})
    IN  IF x.deep.overload = "fail" \/ need <= left THEN <<x.deep.every, 1>>
        ELSE <<num \div common, left \div common>>
Effective(scaled) == (scaled[1] + scaled[2] - 1) \div scaled[2]

\* over_maximum, as written: an interval that is no whole number may already be
\* over when it rounds up to the maximum.
OverMaximum(scaled) == scaled[1] + scaled[2] - 1 > given.maximum * scaled[2]

\* The demand on one endpoint.
Load(all, ep) ==
    LET shots == {x \in all : x.work.endpoint = ep}
        strict == {x \in shots : x.deep.overload = "fail"}
    IN  [shots |-> shots, strict |-> strict, budget |-> Budget(ep),
         left |-> Budget(ep) - Required(strict), need |-> Required(shots \ strict)]

\* _rest_reduction_candidate: neither a fixed pair nor one that must not degrade.
Reducible(shots) ==
    {<<x.market, x.key>> : x \in {y \in shots :
        LET c == given.market[y.market].entry[y.key] IN c.prio # "fixed" /\ c.policy # "fail"}}
\* _reduce_rest_or_fail: the last candidate of those that may go, else the error.
ReduceOrFail(shots, blamed) ==
    LET order == [sk \in Reducible(shots) |->
                     LET c == given.market[sk[1]].entry[sk[2]]
                     IN  <<2 - Class[c.prio], -c.at, sk[1], sk[2]>>]
        first == {sk \in DOMAIN order : Before(DOMAIN order, order, sk) = {}}
    IN  IF first = {} THEN Fails({x.market : x \in blamed})
        ELSE LET sk == CHOOSE x \in first : TRUE IN Reduces(sk[1], sk[2])

\* Who is over the budget of an endpoint: whose candidates may go, and who is
\* to blame when none may.
OverBudget(load) ==
    LET over == {x \in load.shots : OverMaximum(Scaled(x, load.left, load.need))}
        flexible == load.shots \ load.strict
    IN  IF load.budget = 0 THEN <<load.shots, load.shots>>
        ELSE IF load.left < 0 THEN <<load.strict, load.strict>>
        ELSE IF load.left = 0 /\ flexible # {} THEN <<flexible, flexible>>
        ELSE IF over \cap load.strict # {} THEN <<over \cap load.strict, over \cap load.strict>>
        ELSE <<flexible, over>>

\* The endpoints in order, up to the first that a group has no budget for or
\* that is over its budget.
EndpointFailure(all, ep) ==
    IF \E g \in Groups : <<g, ep>> \notin DOMAIN given.budget
    THEN Fails({x.market : x \in {y \in all : y.work.endpoint = ep}})
    ELSE LET over == OverBudget(Load(all, ep))
         IN  IF over[2] = {} THEN Fine ELSE ReduceOrFail(over[1], over[2])

Intervals(adm) ==
    LET failures == {f \in {<<ep, EndpointFailure(Snapshots(adm), ep)>> : ep \in Endpoints(Snapshots(adm))} :
                        f[2] # Fine}
    IN  IF Unworked(adm) # {} THEN Fails({Min(Unworked(adm))})
        ELSE IF failures = {} THEN Fine
        ELSE (CHOOSE f \in failures : \A g \in failures : f[1] <= g[1])[2]
-----------------------------------------------------------------------------
(* The loop: _compose_exchange *)

\* _prepare_market: catalog, fixed pairs and one instrument per connection.
Prepare ==
    /\ phase = "prepare" /\ phase' = "turn"
    /\ active' = {s \in Markets : given.market[s].draft /\ Per(s) > 0}
    /\ failed' = Markets \ active'
    /\ UNCHANGED <<given, rejected, admission, raised, report>>

\* Admission, reservation and placement work out.
Admission(dem) ==
    LET alloc == Allocation(dem)
        adm == Admitted(dem, alloc)
        conns == [s \in DOMAIN dem |-> Reservation(alloc, s)]
    IN  [alloc |-> alloc, admitted |-> adm,
         shards |-> [s \in DOMAIN dem |->
                        Shards(conns[s], Per(s), Assignment(conns[s], s, adm[s]))]]
Admit ==
    /\ phase = "turn" /\ active # {}
    /\ LET dem == Demands(active, rejected)
           failure == AdmissionFailure(dem)
       IN  \/ /\ failure # {} /\ raised' = Fails(failure)
              /\ phase' = "raised" /\ UNCHANGED admission
           \/ /\ failure = {} /\ admission' = Admission(dem)
              /\ phase' = "admitted" /\ UNCHANGED raised
    /\ UNCHANGED <<given, active, rejected, failed, report>>

AllocateIntervals ==
    /\ phase = "admitted"
    /\ raised' = Intervals(admission.admitted)
    /\ phase' = IF raised' = Fine THEN "allocated" ELSE "raised"
    /\ UNCHANGED <<given, active, rejected, failed, admission, report>>

\* Markets fail; the others start again from their original selection.
DropKeeping ==
    /\ phase = "raised" /\ raised.kind = "fails"
    /\ active' = active \ raised.markets
    /\ failed' = failed \cup raised.markets
    /\ phase' = "turn" /\ raised' = Fine
    /\ UNCHANGED <<given, rejected, admission, report>>
DropMarkets ==
    /\ phase = "raised" /\ raised.kind = "fails"
    /\ active' = active \ raised.markets
    /\ failed' = failed \cup raised.markets
    /\ rejected' = Nobody
    /\ phase' = "turn" /\ raised' = Fine
    /\ UNCHANGED <<given, admission, report>>

\* _RestCapacityReduction: one candidate less.
ReduceRest ==
    /\ phase = "raised" /\ raised.kind = "reduces"
    /\ rejected' = [rejected EXCEPT ![raised.market] = @ \cup {raised.key}]
    /\ phase' = "turn" /\ raised' = Fine
    /\ UNCHANGED <<given, active, failed, admission, report>>

\* The plans of the admitted instruments: each snapshot and its interval.
Plans(all) ==
    UNION {LET load == Load(all, ep)
           IN  {<<x, Effective(Scaled(x, load.left, load.need))>> : x \in load.shots}
           : ep \in Endpoints(all)}
Publish ==
    /\ phase = "allocated" /\ phase' = "done"
    /\ LET plans == Plans(Snapshots(admission.admitted))
       IN  report' = [s \in active |->
               [admitted |-> admission.admitted[s], shards |-> admission.shards[s],
                plans |-> {p \in plans : p[1].market = s}]]
    /\ UNCHANGED <<given, active, rejected, failed, admission, raised>>

\* No market is left.
GiveUp ==
    /\ phase = "turn" /\ active = {} /\ phase' = "done"
    /\ UNCHANGED <<given, active, rejected, failed, admission, raised, report>>

\* The probe has returned: the only state in which the loop may rest.
Returned == phase = "done" /\ UNCHANGED vars

Next ==
    \/ Prepare \/ Admit \/ AllocateIntervals \/ DropMarkets \/ ReduceRest \/ Publish \/ GiveUp
    \/ Returned

Spec == Init /\ [][Next]_vars
-----------------------------------------------------------------------------
(* Properties *)

Entry(s, k) == given.market[s].entry[k]

\* In each turn that admits, with any markets and candidates left out, nothing
\* after the admission can raise: the fixed pairs fit their slots, the pool has
\* the connections, each admitted instrument finds room on one connection of its
\* market, and no two markets share a physical connection.
EveryPlanFits ==
    phase = "admitted" =>
      LET dem == Demands(active, rejected)
          shards == UNION {{<<s, h>> : h \in admission.shards[s]} : s \in active}
          on(x) == <<x[2].egress, x[2].index>>
      IN  /\ Sum(admission.alloc) <= Len(Pool)
          /\ \A s \in active :
                /\ Cardinality(FixedOf(dem[s])) <= admission.alloc[s] * Per(s)
                /\ \A k \in admission.admitted[s] :
                      Cardinality({h \in admission.shards[s] : k \in h.keys}) = 1
          /\ \A x \in shards : on(x) \in ToSet(Pool) /\ \A y \in shards : on(x) = on(y) => x = y

\* A reported market collects each fixed pair and each instrument whose capacity
\* policy is fail, and gave up none that comes before one it admitted.
PromisesKept ==
    \A s \in DOMAIN report :
      /\ \A k \in DOMAIN given.market[s].entry :
            Entry(s, k).prio = "fixed" \/ Entry(s, k).policy = "fail" => k \in report[s].admitted
      /\ \A k \in report[s].admitted :
            \A j \in DOMAIN given.market[s].entry \ (report[s].admitted \cup rejected[s]) :
               ~Less(<<Class[Entry(s, j).prio], Entry(s, j).at>>,
                     <<Class[Entry(s, k).prio], Entry(s, k).at>>)

\* The intervals of all reported markets together fit the budget of the quota
\* groups, none is longer than the maximum or shorter than asked, and those that
\* must not be stretched are not.
WithinBudget ==
    LET plans == UNION {report[s].plans : s \in DOMAIN report}
    IN  /\ \A p \in plans : /\ p[1].deep.every <= p[2] /\ p[2] <= given.maximum
                            /\ p[1].deep.overload = "fail" => p[2] = p[1].deep.every
        /\ \A ep \in {p[1].work.endpoint : p \in plans} :
              MapThenSumSet(LAMBDA p : Rate(p[1], p[2]),
                            {p \in plans : p[1].work.endpoint = ep}) <= Budget(ep)
        /\ \A s \in DOMAIN report : \A k \in report[s].admitted :
              Entry(s, k).deep # {} => \E p \in plans : p[1].market = s /\ p[1].key = k

\* What was given up is what the reported markets alone would give up: nothing
\* is left of the turns in which a market that failed took part.
NothingStale ==
    LET alone[rej \in [Markets -> SUBSET UNION {DOMAIN given.market[s].entry : s \in Markets}]] ==
            LET dem == Demands(active, rej)
                turn == Intervals(Admitted(dem, Allocation(dem)))
            IN  IF turn.kind = "reduces"
                THEN alone[[rej EXCEPT ![turn.market] = @ \cup {turn.key}]] ELSE rej
    IN  active # {} => rejected = alone[Nobody]

\* The report of a probe can be believed, and each market is reported or failed
\* and not both.
ReportSound ==
    phase = "done" =>
      /\ \A s \in Markets : (s \in DOMAIN report) # (s \in failed)
      /\ PromisesKept /\ WithinBudget /\ NothingStale

\* The loop ends, although a dropped market gives back what was given up: a turn
\* that starts over has fewer markets, or as many and fewer candidates.  (No turn
\* is stuck: the run checks for deadlock.)
Left == <<Cardinality(active),
          Cardinality(UNION {{s} \X (DOMAIN given.market[s].entry \ rejected[s]) : s \in active})>>
StartsOver == phase = "raised" /\ phase' = "turn"
TurnsDescend == [][StartsOver => Less(Left', Left)]_vars
=============================================================================
