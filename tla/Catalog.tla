------------------------------ MODULE Catalog ------------------------------
(***************************************************************************)
(* The catalog store (selection/catalog_store.py) for one scope and one    *)
(* policy, with the pure selection it feeds (selection/selector.py,        *)
(* selection/fixed.py).  Every operation of the store is one SQLite        *)
(* transaction, hence one action: it takes effect as a whole or, when it   *)
(* raises, not at all.  Between the transactions anything may happen: two  *)
(* selectors read a view, decide, and commit what they decided; snapshots  *)
(* arrive late or twice; the consumer of the outbox stops after it used an *)
(* event and before it acknowledged it.                                    *)
(***************************************************************************)
EXTENDS CatalogFacts, Sequences, FiniteSets

CONSTANTS Keys,        \* instrument keys, integers: their order is the sort order
          Pair,        \* key -> canonical pair
          Selectors,   \* processes that select and commit
          Worlds,      \* what a behaviour may meet, see world
          MaxCommits,  \* bound on committed selections
          TopN, MaxAge, CaptureDuration, ExitGrace, Fixed   \* the SelectionPolicy

ASSUME CatalogAssumption ==
    /\ Keys \subseteq Int /\ IsFiniteSet(Keys)
    /\ MaxCommits \in Nat /\ Lookback \in Nat
    /\ TopN \in Nat /\ MaxAge \in Nat /\ CaptureDuration \in Nat /\ ExitGrace \in Nat
    /\ Fixed \subseteq Keys

\* What is reported are records of the exchange, and turnovers of known keys.
ASSUME WorldsAssumption ==
    \A w \in Worlds :
        /\ w.until \in Nat
        /\ \A snap \in w.snapshots : \A k \in DOMAIN snap : k \in Keys /\ snap[k] \in Rows
        /\ \A observed \in w.turnovers : \A k \in DOMAIN observed : observed[k] \in Int \cup {None}

VARIABLES
    world,      \* what is reported: [snapshots: set of key -> record, turnovers: set of covered
                \*  key -> value, hints: hint_id -> [key, pair, at], selecting: BOOLEAN, and
                \*  the bounds until: the last time, revisions: catalog revisions, lag: events
                \*  pending when a new revision comes]; never changes
    header,     \* catalog_scope_state: [rev, at]
    turnover,   \* its turnover columns: [rev, at, bound, covered]
    stored,     \* catalog_instrument: key -> instrument or None
    hints,      \* catalog_announcement_hint: hint_id -> [known, confirmed]
    outbox,     \* <<catalog_change_outbox, selection_change_outbox>>
    selection,  \* selection_state: [rev, cat, turn, entries]
    loaded,     \* selector -> the CatalogView it holds, or None
    result,     \* selector -> the SelectionResult it holds, or None
    picture,    \* what the consumer learned: [inst, hint, sel]
    used        \* the consumer used the first pending event and has not acknowledged it

vars == <<world, header, turnover, stored, hints, outbox, selection, loaded, result, picture, used>>

Times == 1 .. world.until
Held == {k \in Keys : stored[k] # None}
Empty == [k \in {} |-> None]

Init ==
    /\ world \in Worlds
    /\ header = [rev |-> 0, at |-> None]
    /\ turnover = [rev |-> 0, at |-> None, bound |-> None, covered |-> {}]
    /\ stored = [k \in Keys |-> None]
    /\ hints = [h \in DOMAIN world.hints |-> [known |-> FALSE, confirmed |-> None]]
    /\ outbox = << << >>, << >> >>
    /\ selection = [rev |-> 0, cat |-> 0, turn |-> 0, entries |-> Empty]
    /\ loaded = [p \in Selectors |-> None] /\ result = [p \in Selectors |-> None]
    /\ picture = [inst |-> [k \in Keys |-> None], hint |-> [h \in DOMAIN world.hints |-> None],
                  sel |-> Empty]
    /\ used = FALSE
-----------------------------------------------------------------------------
(* _apply_snapshot *)

Current(snap, now) ==
    [k \in DOMAIN snap |-> Classify(snap[k], stored[k], header.rev = 0, now)]

\* What an event tells of an instrument.  last_seen_ns and the turnover are in the
\* payload too, but every snapshot moves them without an event: nobody can follow
\* them from the outbox, and they are left out.
Told(i) == [provider |-> ProviderFields(i), state |-> i.state, gen |-> i.gen, start |-> i.start,
            startOfficial |-> i.startOfficial, first |-> i.first, seen |-> i.seen]

\* _resolve_announcement_target: the explicit key, or the only tradable
\* instrument of the pair.
Target(h, current) ==
    LET tradable == {k \in DOMAIN current : Tradable(current[k].item)}
        matches == {k \in tradable : (h.key # None => k = h.key)
                                     /\ (h.pair # None => Pair[k] = h.pair)}
    IN  IF Cardinality(matches) = 1 THEN CHOOSE k \in matches : TRUE ELSE None
Confirmed(current, now) ==
    {h \in DOMAIN hints : /\ hints[h].known /\ hints[h].confirmed = None
                          /\ world.hints[h].at <= now /\ Target(world.hints[h], current) # None}

\* The keys of a set, in order.
InOrder(keys) ==
    [n \in 1 .. Cardinality(keys) |->
        CHOOSE k \in keys : Cardinality({j \in keys : j <= k}) = n]

\* One event per changed instrument (or hint) and kind, in the order of event_specs.
Events(kind, values) ==
    LET order == InOrder(DOMAIN values)
    IN  [n \in DOMAIN order |-> [rev |-> header.rev + 1, kind |-> kind, key |-> order[n],
                                 value |-> values[order[n]]]]

Added(current) ==
    {k \in DOMAIN current : stored[k] = None \/ (stored[k] # None /\ ~stored[k].present)}
UpdatedPhase(current) ==
    {k \in DOMAIN current \ Added(current) : stored[k].phase # current[k].item.phase}
Updated(current) ==
    {k \in DOMAIN current \ Added(current) :
        ProviderFields(stored[k]) # ProviderFields(current[k].item)}
Gone(current) == {k \in Held \ DOMAIN current : stored[k].present}

CatalogEvents(current, after, now) ==
    LET told(keys) == [k \in keys |-> Told(after[k])]
    IN  Events("added", told(Added(current))) \o Events("updated", told(Updated(current)))
        \o Events("removed", told(Gone(current)))
        \o Events("new_listing", told({k \in DOMAIN current : current[k].new}))
        \o Events("confirmed", [h \in Confirmed(current, now) |-> now])

AfterSnapshot(current) ==
    [k \in Keys |-> IF k \in DOMAIN current THEN current[k].item
                    ELSE IF k \in Gone(current) THEN Removed(stored[k]) ELSE stored[k]]

\* A newer complete snapshot.  The older one, the conflicting one of the same
\* time and the repeated one change nothing.
\* (The first conjunct bounds the instance, here and in CommitSelection: the code
\* commits whatever is pending.)
ApplyCatalogSnapshot(snap, now) ==
    /\ Len(outbox[1]) + Len(outbox[2]) <= world.lag /\ header.rev < world.revisions
    /\ header.rev > 0 => now > header.at
    /\ \A k \in DOMAIN snap : Accepted(snap[k], stored[k], header.rev = 0, now)
    /\ LET current == Current(snap, now)
           after == AfterSnapshot(current)
       IN  /\ stored' = after
           /\ hints' = [h \in DOMAIN hints |->
                           IF h \in Confirmed(current, now) THEN [hints[h] EXCEPT !.confirmed = now]
                           ELSE hints[h]]
           /\ outbox' = [outbox EXCEPT ![1] = @ \o CatalogEvents(current, after, now)]
    /\ header' = [rev |-> header.rev + 1, at |-> now]
    /\ UNCHANGED <<world, turnover, selection, loaded, result, picture, used>>

\* record_announcement_hint: a repeated or conflicting hint changes nothing.
RecordAnnouncementHint(h) ==
    /\ ~hints[h].known
    /\ hints' = [hints EXCEPT ![h].known = TRUE]
    /\ UNCHANGED <<world, header, turnover, stored, outbox, selection, loaded, result, picture, used>>
-----------------------------------------------------------------------------
(* apply_turnover_snapshot *)

\* Every row takes its observation or loses its turnover.
WithTurnoverKept(observed, now) ==
    [k \in Keys |->
        IF k \notin DOMAIN observed THEN stored[k]
        ELSE [stored[k] EXCEPT !.turnover =
                IF observed[k] = None THEN None
                ELSE [value |-> observed[k], at |-> now, currency |-> stored[k].quote]]]
WithTurnover(observed, now) ==
    [k \in Keys |->
        IF stored[k] = None THEN None
        ELSE [stored[k] EXCEPT !.turnover =
                IF k \notin DOMAIN observed THEN None
                ELSE IF observed[k] = None THEN None
                ELSE [value |-> observed[k], at |-> now, currency |-> stored[k].quote]]]

\* bound is the catalog revision the snapshot was taken for; observed gives the
\* covered keys their value in the stored quote asset (another currency is
\* refused), or None.  Coverage outside the present keys is refused.
ApplyTurnoverSnapshot(bound, observed, now) ==
    /\ header.rev > 0 /\ bound = header.rev /\ now >= header.at
    /\ turnover.rev > 0 => now > turnover.at
    /\ DOMAIN observed \subseteq {k \in Held : stored[k].present}
    /\ stored' = WithTurnover(observed, now)
    /\ turnover' = [rev |-> turnover.rev + 1, at |-> now, bound |-> bound,
                    covered |-> DOMAIN observed]
    /\ UNCHANGED <<world, header, hints, outbox, selection, loaded, result, picture, used>>
-----------------------------------------------------------------------------
(* The selector *)

LoadView(p) ==
    /\ world.selecting /\ selection.rev < MaxCommits /\ loaded[p] = None /\ result[p] = None
    /\ loaded' = [loaded EXCEPT ![p] = [rev |-> header.rev, turn |-> turnover, inst |-> stored]]
    /\ UNCHANGED <<world, header, turnover, stored, hints, outbox, selection, result, picture, used>>

Selectable(v, k) == v.inst[k] # None /\ v.inst[k].present /\ Tradable(v.inst[k])

\* _rank_top_n for the policy's one quote asset: turnover bound to this very
\* catalog revision, fresh, highest first and then by key.
Ranked(v, now) ==
    LET fit == IF v.turn.rev = 0 \/ v.turn.bound # v.rev \/ TopN = 0 THEN {}
               ELSE {k \in v.turn.covered : /\ Selectable(v, k) /\ v.inst[k].quote = "q"
                                            /\ v.inst[k].turnover # None
                                            /\ v.inst[k].turnover.at <= now
                                            /\ now - v.inst[k].turnover.at <= MaxAge}
        value(k) == v.inst[k].turnover.value
        rank(k) == 1 + Cardinality({j \in fit : value(j) > value(k) \/ (value(j) = value(k) /\ j < k)})
    IN  [k \in {j \in fit : rank(j) <= TopN} |-> rank(k)]

NewListing(v, k, now) ==
    /\ Selectable(v, k) /\ v.inst[k].quote = "q" /\ v.inst[k].state = "active_new"
    /\ v.inst[k].start # None /\ v.inst[k].start <= now
    /\ now - v.inst[k].start < CaptureDuration

\* When a key that left the top N started to leave; None: it has no grace.
ExitStart(v, prev, k, now) ==
    LET e == prev.entries[k]
        start == IF "top_n" \in e.reasons THEN now ELSE e.exit
    IN  IF /\ k \in DOMAIN prev.entries /\ k \notin DOMAIN Ranked(v, now)
           /\ Selectable(v, k) /\ v.inst[k].quote = "q" /\ v.inst[k].gen = e.inst.gen
           /\ start # None /\ start <= now /\ now - start < ExitGrace
        THEN start ELSE None

\* The entries select gives, from the view and the previous state.
Entries(v, prev, now) ==
    LET reasons(k) == {"fixed" : x \in Fixed \cap {k}}
                      \cup {"new_listing" : x \in {j \in {k} : NewListing(v, j, now)}}
                      \cup {"top_n" : x \in DOMAIN Ranked(v, now) \cap {k}}
                      \cup {"grace" : x \in {j \in {k} : ExitStart(v, prev, j, now) # None}}
        rank(k) == IF k \in DOMAIN Ranked(v, now) THEN Ranked(v, now)[k]
                   ELSE IF ExitStart(v, prev, k, now) # None THEN prev.entries[k].rank ELSE None
    IN  [k \in {j \in Keys : reasons(j) # {}} |->
            [inst |-> v.inst[k], reasons |-> reasons(k), rank |-> rank(k),
             exit |-> ExitStart(v, prev, k, now)]]

\* load_selection_state, resolve_fixed_requests and select.  It raises when a
\* fixed instrument cannot be had, when the view is older than the state, and
\* when the clock is behind a persisted start of grace.
Select(p, now) ==
    /\ loaded[p] # None
    /\ loaded' = [loaded EXCEPT ![p] = None]
    /\ result' = [result EXCEPT ![p] =
                    IF /\ loaded[p].rev > 0 /\ \A k \in Fixed : Selectable(loaded[p], k)
                       /\ selection.cat <= loaded[p].rev /\ selection.turn <= loaded[p].turn.rev
                       /\ \A k \in DOMAIN selection.entries :
                              "grace" \in selection.entries[k].reasons => selection.entries[k].exit <= now
                    THEN [cat |-> loaded[p].rev, turn |-> loaded[p].turn.rev, prev |-> selection,
                          entries |-> Entries(loaded[p], selection, now)]
                    ELSE None]
    /\ UNCHANGED <<world, header, turnover, stored, hints, outbox, selection, picture, used>>

\* The changes between two selections, in key order, under catalog revision rev.
Deltas(before, after, rev) ==
    LET keys == {k \in DOMAIN before \cup DOMAIN after :
                    \/ k \notin DOMAIN before \/ k \notin DOMAIN after
                    \/ (k \in DOMAIN before \cap DOMAIN after /\ before[k] # after[k])}
        order == InOrder(keys)
    IN  [n \in DOMAIN order |->
            [rev |-> rev, kind |-> "selection", key |-> order[n],
             value |-> IF order[n] \in DOMAIN after THEN after[order[n]] ELSE None]]

\* What commit_selection demands: the revisions the result was made for are the
\* current ones, its instruments the stored ones, and the state it started from
\* the persisted one, down to the deltas.
CommitAllowedByCatalog(r) ==
    /\ header.rev = r.cat /\ turnover.rev = r.turn
    /\ \A k \in DOMAIN r.entries : stored[k] = r.entries[k].inst
CommitAllowed(r) ==
    /\ header.rev = r.cat /\ turnover.rev = r.turn
    /\ \A k \in DOMAIN r.entries : /\ stored[k] = r.entries[k].inst
                                   /\ stored[k].present /\ Tradable(stored[k])
    /\ selection.rev = r.prev.rev
    /\ Deltas(r.prev.entries, r.entries, r.cat) = Deltas(selection.entries, r.entries, r.cat)

CommitSelection(p) ==
    /\ result[p] # None /\ selection.rev < MaxCommits /\ Len(outbox[1]) + Len(outbox[2]) <= world.lag
    /\ result' = [result EXCEPT ![p] = None]
    /\ IF CommitAllowed(result[p])
       THEN /\ selection' = [rev |-> selection.rev + 1, cat |-> result[p].cat,
                             turn |-> result[p].turn, entries |-> result[p].entries]
            /\ outbox' = [outbox EXCEPT ![2] = @ \o Deltas(selection.entries, result[p].entries, result[p].cat)]
       ELSE UNCHANGED <<selection, outbox>>
    /\ UNCHANGED <<world, header, turnover, stored, hints, loaded, picture, used>>
-----------------------------------------------------------------------------
(* The outbox and its consumer *)

\* All events of the catalog come before those of the selection.
PendingByTable == outbox[1] \o outbox[2]

\* pending_changes: by catalog revision, the catalog's events before the
\* selection's.  Each outbox is already in the order of its own revisions.
PendingChanges ==
    LET at(n, r) == SelectSeq(outbox[n], LAMBDA e : e.rev = r)
        upto[r \in 0 .. header.rev] == IF r = 0 THEN << >> ELSE upto[r - 1] \o at(1, r) \o at(2, r)
    IN  upto[header.rev]

Learn(pic, e) ==
    CASE e.kind = "confirmed" -> [pic EXCEPT !.hint[e.key] = e.value]
      [] e.kind \notin {"confirmed", "selection"} -> [pic EXCEPT !.inst[e.key] = e.value]
      [] OTHER -> [pic EXCEPT !.sel =
                        [k \in {j \in DOMAIN pic.sel \cup {e.key} : j # e.key \/ e.value # None} |->
                            IF k = e.key THEN e.value ELSE pic.sel[k]]]

\* External: the consumer uses the first event, then acknowledges it; stopped in
\* between, it finds the event again.
UseEvent ==
    /\ ~used /\ PendingChanges # << >>
    /\ picture' = Learn(picture, Head(PendingChanges)) /\ used' = TRUE
    /\ UNCHANGED <<world, header, turnover, stored, hints, outbox, selection, loaded, result>>

AckChange ==
    /\ used /\ used' = FALSE
    /\ LET n == IF Head(PendingChanges).kind = "selection" THEN 2 ELSE 1
       IN  outbox' = [outbox EXCEPT ![n] = Tail(@)]
    /\ UNCHANGED <<world, header, turnover, stored, hints, selection, loaded, result, picture>>

ConsumerStops ==
    /\ used /\ used' = FALSE
    /\ UNCHANGED <<world, header, turnover, stored, hints, outbox, selection, loaded, result, picture>>
-----------------------------------------------------------------------------
Next ==
    \/ \E snap \in world.snapshots, now \in Times : ApplyCatalogSnapshot(snap, now)
    \/ \E h \in DOMAIN hints : RecordAnnouncementHint(h)
    \/ \E observed \in world.turnovers, now \in Times, bound \in Times :
          ApplyTurnoverSnapshot(bound, observed, now)
    \/ \E p \in Selectors : LoadView(p) \/ CommitSelection(p) \/ \E now \in Times : Select(p, now)
    \/ UseEvent \/ AckChange \/ ConsumerStops

Spec == Init /\ [][Next]_vars
-----------------------------------------------------------------------------
(* Properties *)

\* No history of snapshots leads to an instrument that the next complete
\* snapshot cannot update: whatever record the exchange reports next, every value
\* _apply_snapshot builds passes CatalogInstrument's checks.  (A value that did
\* not would roll back that snapshot and every later one.)
SnapshotsAccepted ==
    \A snap \in world.snapshots, now \in Times : \A k \in DOMAIN snap :
        (header.rev > 0 => now > header.at) => Accepted(snap[k], stored[k], header.rev = 0, now)

\* load_view never refuses the state its own writers left: CatalogView's checks
\* between the catalog header, the turnover header and the instruments hold.
ViewLoads ==
    /\ header.rev = 0 => Held = {}
    /\ (turnover.rev = 0) = (turnover.at = None) /\ (turnover.rev = 0) = (turnover.bound = None)
    /\ turnover.rev > 0 => /\ turnover.bound \in 1 .. header.rev
                           /\ turnover.bound = header.rev => turnover.at >= header.at
    /\ turnover.covered \subseteq Held
    /\ turnover.bound = header.rev => \A k \in turnover.covered : stored[k].present
    /\ \A k \in Held :
         /\ IF stored[k].present THEN stored[k].last = header.at ELSE stored[k].last < header.at
         /\ stored[k].turnover # None => /\ turnover.rev > 0 /\ k \in turnover.covered
                                         /\ stored[k].turnover.at = turnover.at

\* The outbox tells everything, in a usable order: what the consumer has learned,
\* extended by the events still pending, is the store's own picture, at every
\* moment, however far the consumer is behind and however often it repeats an
\* event; and when it learns of a selected instrument it knows that instrument as
\* the selection saw it.
OutboxReplays ==
    LET pending == PendingChanges
        after[n \in 0 .. Len(pending)] == IF n = 0 THEN picture ELSE Learn(after[n - 1], pending[n])
    IN  /\ Len(pending) = Len(outbox[1]) + Len(outbox[2])
        /\ after[Len(pending)] =
               [inst |-> [k \in Keys |-> IF stored[k] = None THEN None ELSE Told(stored[k])],
                hint |-> [h \in DOMAIN hints |-> hints[h].confirmed],
                sel |-> selection.entries]
        /\ \A n \in DOMAIN pending :
              (pending[n].kind = "selection" /\ pending[n].value # None) =>
                  after[n - 1].inst[pending[n].key] = Told(pending[n].value.inst)

\* The capture windows of an instrument's successive episodes advance: a new
\* episode starts after the previous one, whatever official times the exchange
\* reports, so no window is captured twice.
EpisodesAdvance ==
    [][\A k \in Keys : (stored[k] # None /\ stored'[k].gen # stored[k].gen) =>
          /\ stored'[k].gen = stored[k].gen + 1
          /\ stored[k].start # None => stored'[k].start > stored[k].start]_vars

\* Grace is granted once per exit: while an instrument stays in grace the time it
\* left the top N does not move, also when a selector that decided on an older
\* state commits late.
GraceNotRenewed ==
    [][\A k \in DOMAIN selection.entries \cap DOMAIN selection'.entries :
          ("grace" \in selection.entries[k].reasons /\ "grace" \in selection'.entries[k].reasons)
              => selection'.entries[k].exit = selection.entries[k].exit]_vars
=============================================================================
