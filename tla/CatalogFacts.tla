---------------------------- MODULE CatalogFacts ----------------------------
(***************************************************************************)
(* The instruments of a catalog and how one complete snapshot changes an   *)
(* instrument: selection/models.py (InstrumentRecord, CatalogInstrument)   *)
(* and the per-record half of selection/catalog_store.py                   *)
(* (_materialize_record, _with_listing_state, _with_presence, and the      *)
(* classification in the loop of _apply_snapshot).                         *)
(*                                                                         *)
(* The fields that only identify or describe an instrument (names, wire    *)
(* symbols, assets, raw references) are represented by its quote asset.    *)
(* new_listing_eligible is not a field here: every constructor sets it to  *)
(* "the listing state is active_new".                                      *)
(***************************************************************************)
EXTENDS Integers

CONSTANTS None,        \* Python's None
          Quotes,      \* quote assets
          Lookback     \* initial_lookback_ns

Phases == {"unknown", "preopen", "tradable", "paused", "delisted"}
States == {"baseline", "pending", "pending_official", "active_new", "relist_pending"}
PendingStates == {"pending", "pending_official", "relist_pending"}
EpisodeStates == {"active_new", "relist_pending"}    \* retains_episode

\* A record as an exchange reports it.  The source of a reported time is one of
\* the official ones: first_tradable_seen is refused from outside.
Row(phase, at, quote) == [phase |-> phase, at |-> at, quote |-> quote]

\* The fields of the three values; CatalogInstrument's checks between them are Valid.
OptionalTime == Int \cup {None}
Rows == [phase : Phases, at : OptionalTime, quote : Quotes]
Turnovers == [value : Int, at : Int, currency : Quotes]
Instruments ==
    [phase : Phases, quote : Quotes, present : BOOLEAN, state : States,
     at : OptionalTime, official : BOOLEAN, turnover : Turnovers \cup {None},
     first : Int, last : Int, seen : OptionalTime, gen : Nat,
     terminal : OptionalTime, start : OptionalTime, startOfficial : BOOLEAN]

ASSUME NoneAssumption == None \notin Int \cup Turnovers \cup Instruments

Tradable(i) == i.phase = "tradable"
ObservedOfficial(i, now) == i.at # None /\ i.official /\ i.at <= now

\* The checks of CatalogInstrument.__init__: a value that fails one of them
\* cannot be built, and the snapshot that needed it is rolled back.
Valid(i) ==
    /\ i.last >= i.first
    /\ i.turnover # None => i.turnover.currency = i.quote
    /\ ~(Tradable(i) /\ i.state \in PendingStates)
    /\ i.phase = "delisted" => i.state = "relist_pending" /\ i.terminal = i.last
    /\ i.seen # None => i.seen \in i.first .. i.last
    /\ i.terminal # None => i.terminal \in i.first .. i.last /\ i.state \in EpisodeStates
    /\ i.state = "relist_pending" => i.terminal # None
    /\ i.start # None => /\ i.state \in EpisodeStates
                         /\ i.seen # None /\ i.start <= i.seen
                         /\ ~i.startOfficial => i.start = i.seen
    /\ i.state = "active_new" =>
           i.start # None /\ (i.terminal # None => i.start > i.terminal)

\* _materialize_record: old is the stored instrument, or None.
Materialize(r, old, now) ==
    LET before == IF old = None THEN "pending" ELSE old.state
        state == CASE r.phase = "delisted" -> "relist_pending"
                   [] Tradable(r) /\ before \in PendingStates -> "baseline"
                   [] OTHER -> before
        kept == old # None /\ state \in EpisodeStates
        inherited == old # None /\ old.phase # "delisted" /\ old.at # None
    IN  [phase |-> r.phase, quote |-> r.quote, present |-> TRUE, state |-> state,
         at |-> IF r.at # None THEN r.at
                ELSE IF inherited THEN old.at
                ELSE IF Tradable(r) THEN now ELSE None,
         official |-> r.at # None \/ (inherited /\ old.official),
         turnover |-> IF old = None \/ old.quote # r.quote THEN None ELSE old.turnover,
         first |-> IF old = None THEN now ELSE old.first,
         last |-> now,
         seen |-> IF Tradable(r) /\ (old = None \/ old.seen = None) THEN now
                  ELSE IF old = None THEN None ELSE old.seen,
         gen |-> IF old = None THEN 0 ELSE old.gen,
         terminal |-> IF r.phase = "delisted" THEN now
                      ELSE IF kept THEN old.terminal ELSE None,
         start |-> IF kept THEN old.start ELSE None,
         startOfficial |-> kept /\ old.startOfficial]

\* _with_listing_state.
WithListingState(i, state) ==
    LET kept == state \in EpisodeStates
    IN  [i EXCEPT !.state = state,
                  !.terminal = IF state = "relist_pending" /\ i.phase = "delisted" THEN i.last
                               ELSE IF kept THEN @ ELSE None,
                  !.start = IF kept THEN @ ELSE None,
                  !.startOfficial = kept /\ @]

\* _with_presence, for an instrument the snapshot no longer has.
Removed(i) == [i EXCEPT !.present = FALSE]

\* replace(item, tradable_at_ns = observed_at, FIRST_TRADABLE_SEEN).
SeenNow(i, now) == [i EXCEPT !.at = now, !.official = FALSE]

\* A key the store has never had.  In the first snapshot of a scope only an
\* official time inside the lookback makes a listing new.
FirstState(i, initial, now) ==
    LET recent == Lookback > 0 /\ ObservedOfficial(i, now) /\ now - i.at <= Lookback
        timely == IF initial THEN recent ELSE ObservedOfficial(i, now)
    IN  CASE Tradable(i) /\ (initial => recent) -> "active_new"
          [] i.phase = "preopen" -> IF timely THEN "pending_official" ELSE "pending"
          [] i.phase = "delisted" -> "relist_pending"
          [] OTHER -> "baseline"

\* A key the store has: does this record start a new episode, and may its
\* official time be believed?
Relisting(i, old) == old.state = "relist_pending" /\ Tradable(i)
ActivatingAgain(i, old) == old.state \in {"pending", "pending_official", "active_new"} /\ Tradable(i)
Activating(i, old) == old.state \in {"pending", "pending_official"} /\ Tradable(i)
BelievedIfObserved(i, old, now) == ObservedOfficial(i, now)
Believed(i, old, now) ==
    LET floor == IF old.state = "pending_official" THEN old.at ELSE old.first
    IN  /\ ObservedOfficial(i, now)
        /\ Relisting(i, old) => old.terminal # None /\ i.at > old.terminal
        /\ Activating(i, old) => floor # None /\ i.at >= floor

\* The body of the loop over the snapshot's records: the value stored, whether
\* it starts an episode, and every value built on the way.
Classify(r, old, initial, now) ==
    LET raw == Materialize(r, old, now)
        again == old # None /\ (Relisting(raw, old) \/ Activating(raw, old))
        state == IF old = None THEN FirstState(raw, initial, now)
                 ELSE IF again THEN "active_new"
                 ELSE IF r.phase = "delisted" THEN "relist_pending" ELSE old.state
        new == again \/ (old = None /\ state = "active_new")
        clamped == IF old = None THEN new /\ raw.at > now ELSE again /\ ~Believed(raw, old, now)
        item == IF clamped THEN SeenNow(raw, now) ELSE raw
        final == IF new
                 THEN [item EXCEPT !.state = "active_new", !.gen = @ + 1, !.seen = now,
                                   !.terminal = IF old # None /\ Relisting(raw, old)
                                                THEN old.terminal ELSE None,
                                   !.start = item.at, !.startOfficial = item.official]
                 ELSE WithListingState(item, state)
    IN  [item |-> final, new |-> new, built |-> {raw, item, final}]

\* Every value the snapshot has to build is one CatalogInstrument accepts, and a
\* relisting finds the terminal observation it follows.
Accepted(r, old, initial, now) ==
    /\ old # None => (Relisting(r, old) => old.terminal # None)
    /\ \A i \in Classify(r, old, initial, now).built : Valid(i)

\* _provider_fields: what makes a present instrument "updated".
ProviderFields(i) == <<i.phase, i.quote, i.at, i.official, i.present, i.terminal>>
=============================================================================
