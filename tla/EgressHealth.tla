---------------------------- MODULE EgressHealth ----------------------------
(***************************************************************************)
(* The network policy: persisted quota and transport restrictions          *)
(* (network/state_store.py), the process-local admissions made from them   *)
(* (network/health.py) and the retry decisions (network/retry.py).         *)
(*                                                                         *)
(* Several processes share the database.  Restrictions are stored in wall  *)
(* time; a process converts them once, at admission, into deadlines of its *)
(* monotonic clock.  Every time is kept as what is left of it, so that     *)
(* time is unbounded: Tick lowers them all, and a step back of the wall    *)
(* clock raises the stored ones only.  (A step forward shortens them; the  *)
(* code has no defence against it and it is not modelled.)                 *)
(***************************************************************************)
EXTENDS Integers, FiniteSets

CONSTANTS Workers,      \* processes, each with its own EgressStateStore
          Egresses, Group,               \* Group: egress -> quota group
          MaxAttempts, Base, Cap,        \* RetryPolicy
          Budget,       \* a request's deadline
          Delays,       \* Retry-After values and cooldowns
          MaxFaults,    \* bound on failed replies, crashes and clock steps
          MaxBack       \* bound: how far the wall clock has stepped back in all

Groups == {Group[e] : e \in Egresses}

ASSUME EgressAssumption ==
    /\ IsFiniteSet(Workers) /\ IsFiniteSet(Egresses)
    /\ Groups \cap Egresses = {}
    /\ {MaxAttempts, Base, Cap} \subseteq Nat \ {0}
    /\ Budget \in Nat /\ Delays \subseteq Nat /\ MaxFaults \in Nat /\ MaxBack \in Nat

VARIABLES
    quota,     \* quota_state: group -> [ban, cooldown, pending, rev]; pending: last_reason is set
    egress,    \* egress_state: egress -> [fails, cooldown, rev]
    owed,      \* history: group, egress -> real time left of what was reported since the last clear
    worker,    \* process -> [pc, health, quotaProbe, transportProbe, told, on, attempt, deadline,
               \*   wake]; told is the owed it had been told of when it admitted its health
    back,      \* how far the wall clock has stepped back
    faults     \* faults so far

vars == <<quota, egress, owed, worker, back, faults>>

MaxOf(a, b) == IF a >= b THEN a ELSE b
Nothing == [x \in {} |-> 0]
\* Less than -MaxBack no step of the clock can revive.
Less(left) == MaxOf(left - 1, -MaxBack)

Idle == [pc |-> "idle", health |-> Nothing, quotaProbe |-> Nothing, transportProbe |-> Nothing,
         told |-> Nothing, on |-> "none", attempt |-> 0, deadline |-> 0, wake |-> 0]

Init ==
    /\ quota = [g \in Groups |-> [ban |-> 0, cooldown |-> 0, pending |-> FALSE, rev |-> 0]]
    /\ egress = [e \in Egresses |-> [fails |-> 0, cooldown |-> 0, rev |-> 0]]
    /\ owed = [x \in Groups \cup Egresses |-> 0]
    /\ worker = [w \in Workers |-> Idle]
    /\ back = 0 /\ faults = 0
-----------------------------------------------------------------------------
(* admit_health *)

\* The restrictions of an egress, as times left; expired ones count as zero.
QuotaLeft(g) == MaxOf(0, MaxOf(quota[g].ban, quota[g].cooldown))
TransportLeft(e) == MaxOf(0, egress[e].cooldown)
Restricted(e) == quota[Group[e]].pending \/ egress[e].fails > 0
ProbeAfterQuota(e) == IF quota[Group[e]].pending THEN QuotaLeft(Group[e]) ELSE 0
ProbeAfter(e) == MaxOf(IF quota[Group[e]].pending THEN QuotaLeft(Group[e]) ELSE 0,
                       IF egress[e].fails > 0 THEN TransportLeft(e) ELSE 0)

\* One read transaction: the unavailable egresses with their deadline, and a
\* token per restriction with the revision read.
Admitted(r) ==
    [r EXCEPT !.pc = "admitted", !.told = owed,
              !.health = [e \in {x \in Egresses : Restricted(x)} |-> ProbeAfter(e)],
              !.quotaProbe = [g \in {x \in Groups : quota[x].pending} |->
                                [rev |-> quota[g].rev, after |-> QuotaLeft(g)]],
              !.transportProbe = [e \in {x \in Egresses : egress[x].fails > 0} |->
                                    [rev |-> egress[e].rev, after |-> TransportLeft(e)]]]

\* External: a process starts a request, or the next attempt of one.
AdmitHealth(w) ==
    /\ \/ /\ worker[w].pc = "idle"
          /\ worker' = [worker EXCEPT ![w] = Admitted([Idle EXCEPT !.deadline = Budget])]
       \/ /\ worker[w].pc = "waiting" /\ worker[w].wake = 0
          /\ worker' = [worker EXCEPT ![w] = Admitted(worker[w])]
    /\ UNCHANGED <<quota, egress, owed, back, faults>>

\* choose_egress takes an available egress (whichever the hash prefers); a
\* restricted one may be probed from its deadline on; with neither the request
\* is given up.
Available(r) == Egresses \ DOMAIN r.health
MayProbe(r) == {e \in DOMAIN r.health : r.health[e] = 0}

ChooseEgress(w) ==
    /\ worker[w].pc = "admitted"
    /\ \/ \E e \in Available(worker[w]) \cup MayProbe(worker[w]) :
             worker' = [worker EXCEPT ![w].pc = "sent", ![w].on = e]
       \/ /\ Available(worker[w]) = {}
          /\ worker' = [worker EXCEPT ![w] = Idle]
    /\ UNCHANGED <<quota, egress, owed, back, faults>>
-----------------------------------------------------------------------------
(* Replies and retries *)

\* full_jitter_ns: up to the exponential limit.
ExponentialLimit(attempt) ==
    IF Base >= Cap THEN Cap ELSE IF Base * 2^attempt > Cap THEN Cap ELSE Base * 2^attempt

\* RetryPolicy.decide: the decision for a failed attempt, with the Retry-After
\* that came along (0: none) and the jitter drawn.  Where the deadline has passed
\* (r.deadline < 0) the code raises, and there is no retry either.
Decide(r, retryAfter, jitter) ==
    LET delay == MaxOf(retryAfter, jitter)
    IN  [retry |-> r.attempt < MaxAttempts /\ retryAfter <= r.deadline /\ delay <= r.deadline,
         delay |-> delay]

AfterDecision(r, d) ==
    IF d.retry THEN [r EXCEPT !.pc = "waiting", !.attempt = @ + 1, !.wake = d.delay] ELSE Idle

\* _record_quota_restriction: MAX, so that a late report shortens nothing.
RecordRestriction(q, column, left) ==
    [q EXCEPT ![column] = MaxOf(@, left), !.pending = TRUE, !.rev = @ + 1]

\* A ban: decide, then apply_quota_retry_effect with what was decided.
RestrictedReply(w, retryAfter, jitter) ==
    LET r == worker[w]
        g == Group[r.on]
        d == Decide(r, retryAfter, jitter)
    IN  /\ r.pc = "sent" /\ faults < MaxFaults /\ faults' = faults + 1
        /\ r.deadline >= 0
        /\ quota' = [quota EXCEPT ![g] = RecordRestriction(@, "ban", d.delay)]
        /\ owed' = [owed EXCEPT ![g] = MaxOf(@, d.delay)]
        /\ worker' = [worker EXCEPT ![w] = AfterDecision(r, d)]
        /\ UNCHANGED <<egress, back>>

\* record_cooldown: an operation of the store that nothing in the collector calls yet.
RecordCooldown(g, cooldown) ==
    /\ faults < MaxFaults /\ faults' = faults + 1
    /\ quota' = [quota EXCEPT ![g] = RecordRestriction(@, "cooldown", cooldown)]
    /\ owed' = [owed EXCEPT ![g] = MaxOf(@, cooldown)]
    /\ UNCHANGED <<egress, worker, back>>

\* A reply that restricts nothing: a 429 shrinks the bucket (RestScheduler) and is
\* retried like a 5xx; any other status, a passed deadline too, ends the request.
OtherReply(w, retryAfter, jitter) ==
    /\ worker[w].pc = "sent"
    /\ \E next \in {AfterDecision(worker[w], Decide(worker[w], retryAfter, jitter)), Idle} :
          worker' = [worker EXCEPT ![w] = next]
    /\ UNCHANGED <<quota, egress, owed, back, faults>>

\* record_transport_failure, then a backoff.
FailedReply(w, cooldown, jitter) ==
    LET r == worker[w]
    IN  /\ r.pc = "sent" /\ faults < MaxFaults /\ faults' = faults + 1
        /\ egress' = [egress EXCEPT ![r.on] =
                        [fails |-> @.fails + 1, cooldown |-> MaxOf(@.cooldown, cooldown), rev |-> @.rev + 1]]
        /\ worker' = [worker EXCEPT ![w] = AfterDecision(r, Decide(r, 0, jitter))]
        /\ owed' = [owed EXCEPT ![r.on] = MaxOf(@, cooldown)]
        /\ UNCHANGED <<quota, back>>

\* A success.  After a probe the two restrictions are lifted one after the other.
GoodReply(w) ==
    /\ worker[w].pc = "sent"
    /\ worker' = [worker EXCEPT ![w] =
                    IF worker[w].on \in DOMAIN worker[w].health THEN [@ EXCEPT !.pc = "probed"] ELSE Idle]
    /\ UNCHANGED <<quota, egress, owed, back, faults>>

\* What a token may still lift: its deadline has come and no restriction was
\* recorded since it was minted (otherwise ValueError or StaleProbeError).
StandsAnyRevision(token, row) == token.after = 0
Stands(token, row) == token.after = 0 /\ row.rev = token.rev

\* record_quota_probe_success: an UPDATE conditional on the revision of the token.
QuotaProbeSuccess(w) ==
    LET r == worker[w]
        g == Group[r.on]
        clears == /\ g \in DOMAIN r.quotaProbe /\ Stands(r.quotaProbe[g], quota[g])
                  /\ quota[g].pending
    IN  /\ r.pc = "probed"
        /\ worker' = [worker EXCEPT ![w].pc = "lifted"]
        /\ quota' = IF clears
                    THEN [quota EXCEPT ![g] = [ban |-> 0, cooldown |-> 0, pending |-> FALSE, rev |-> @.rev + 1]]
                    ELSE quota
        /\ owed' = IF clears THEN [owed EXCEPT ![g] = 0] ELSE owed
        /\ UNCHANGED <<egress, back, faults>>

\* record_transport_probe_success.
TransportProbeSuccess(w) ==
    LET r == worker[w]
        clears == /\ r.on \in DOMAIN r.transportProbe /\ Stands(r.transportProbe[r.on], egress[r.on])
                  /\ egress[r.on].fails > 0
    IN  /\ r.pc = "lifted"
        /\ worker' = [worker EXCEPT ![w] = Idle]
        /\ egress' = IF clears
                     THEN [egress EXCEPT ![r.on] = [fails |-> 0, cooldown |-> 0, rev |-> @.rev + 1]]
                     ELSE egress
        /\ owed' = IF clears THEN [owed EXCEPT ![r.on] = 0] ELSE owed
        /\ UNCHANGED <<quota, back, faults>>

\* External: the process stops; its tokens and deadlines are gone.
Crash(w) ==
    /\ worker[w].pc # "idle" /\ faults < MaxFaults /\ faults' = faults + 1
    /\ worker' = [worker EXCEPT ![w] = Idle]
    /\ UNCHANGED <<quota, egress, owed, back>>
-----------------------------------------------------------------------------
(* Clocks *)

Lower(left) == [x \in DOMAIN left |-> MaxOf(0, left[x] - 1)]
Tokens(probes) == [x \in DOMAIN probes |-> [probes[x] EXCEPT !.after = MaxOf(0, @ - 1)]]

\* A sent request is answered or times out by its deadline.
Tick ==
    /\ \A w \in Workers : worker[w].pc = "sent" => worker[w].deadline > 0
    /\ quota' = [g \in Groups |-> [quota[g] EXCEPT !.ban = Less(@), !.cooldown = Less(@)]]
    /\ egress' = [e \in Egresses |-> [egress[e] EXCEPT !.cooldown = Less(@)]]
    /\ owed' = Lower(owed)
    /\ worker' = [w \in Workers |->
                    [worker[w] EXCEPT !.health = Lower(@), !.told = Lower(@),
                                      !.quotaProbe = Tokens(@), !.transportProbe = Tokens(@),
                                      !.deadline = MaxOf(-1, @ - 1), !.wake = MaxOf(0, @ - 1)]]
    /\ UNCHANGED <<back, faults>>

\* The wall clock steps back: the stored restrictions end later.
WallStepsBack ==
    /\ back < MaxBack /\ faults < MaxFaults /\ back' = back + 1 /\ faults' = faults + 1
    /\ quota' = [g \in Groups |-> [quota[g] EXCEPT !.ban = @ + 1, !.cooldown = @ + 1]]
    /\ egress' = [e \in Egresses |-> [egress[e] EXCEPT !.cooldown = @ + 1]]
    /\ UNCHANGED <<owed, worker>>
-----------------------------------------------------------------------------
Next ==
    \/ \E w \in Workers :
          \/ AdmitHealth(w) \/ ChooseEgress(w) \/ GoodReply(w)
          \/ QuotaProbeSuccess(w) \/ TransportProbeSuccess(w) \/ Crash(w)
          \/ \E jitter \in 0 .. ExponentialLimit(worker[w].attempt), delay \in Delays :
                \/ RestrictedReply(w, delay, jitter) \/ FailedReply(w, delay, jitter)
                \/ OtherReply(w, delay, jitter)
    \/ \E g \in Groups, delay \in Delays : RecordCooldown(g, delay)
    \/ Tick \/ WallStepsBack

Spec == Init /\ [][Next]_vars
-----------------------------------------------------------------------------
(* Properties *)

\* A restriction is served: a probe lifts it only when everything reported for
\* the quota group, or the egress, since the last lifting has run out in real
\* time, whichever process reported it, in whatever order the reports came, and
\* however the wall clock stepped back meanwhile.
RestrictionServed ==
    [][/\ \A g \in Groups : (quota[g].pending /\ ~quota'[g].pending) => owed[g] = 0
       /\ \A e \in Egresses : (egress[e].fails > 0 /\ egress'[e].fails = 0) => owed[e] = 0]_vars

\* No request leaves through an egress inside a restriction that had been
\* reported, by any process, when the sender admitted its health: neither the
\* conversion to monotonic deadlines nor waiting between admission and use
\* shortens one.
ProbeWaits ==
    [][\A w \in Workers : (worker[w].pc = "admitted" /\ worker'[w].pc = "sent") =>
          LET e == worker'[w].on IN worker[w].told[Group[e]] = 0 /\ worker[w].told[e] = 0]_vars
=============================================================================
