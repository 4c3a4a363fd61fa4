--------------------------- MODULE CatalogProofs ---------------------------
(***************************************************************************)
(* Proofs about the catalog store, for any instruments, worlds, selectors  *)
(* and policies.                                                           *)
(*                                                                         *)
(* The store never refuses its own next snapshot because every stored      *)
(* instrument passes CatalogInstrument's checks and was last observed      *)
(* before that snapshot; the second half is a fact about the header, so    *)
(* the two are one invariant with what load_view demands.  That capture    *)
(* windows advance needs one fact no check states: an episode that waits   *)
(* for its relisting ended after it started.                               *)
(***************************************************************************)
EXTENDS Catalog, TLAPS

\* A stored instrument.
Sound(i) ==
    /\ Valid(i)
    /\ i.state = "relist_pending" /\ i.start # None => i.start <= i.terminal
-----------------------------------------------------------------------------
(* One instrument and one record *)

LEMMA NoneIsNoTime == None \notin Int /\ None \notin Instruments /\ None \notin Turnovers
  BY NoneAssumption

\* What _materialize_record gives for a stored instrument ...
FromOld(m, r, old, now) ==
    /\ m \in Instruments
    /\ m.phase = r.phase /\ m.quote = r.quote /\ m.present = TRUE
    /\ r.phase = "delisted" => m.state = "relist_pending"
    /\ r.phase = "tradable" /\ old.state \in PendingStates => m.state = "baseline"
    /\ ~(r.phase = "delisted" \/ (r.phase = "tradable" /\ old.state \in PendingStates))
          => m.state = old.state
    /\ m.turnover = (IF old.quote # r.quote THEN None ELSE old.turnover)
    /\ m.first = old.first /\ m.last = now /\ m.gen = old.gen
    /\ old.seen # None => m.seen = old.seen
    /\ old.seen = None => m.seen = (IF r.phase = "tradable" THEN now ELSE None)
    /\ m.terminal = (IF r.phase = "delisted" THEN now
                     ELSE IF m.state \in EpisodeStates THEN old.terminal ELSE None)
    /\ m.start = (IF m.state \in EpisodeStates THEN old.start ELSE None)
    /\ m.startOfficial = (m.state \in EpisodeStates /\ old.startOfficial)

\* ... and for a key the store has never had.
FromNew(m, r, now) ==
    /\ m \in Instruments
    /\ m.phase = r.phase /\ m.quote = r.quote /\ m.present = TRUE
    /\ m.turnover = None /\ m.first = now /\ m.last = now /\ m.gen = 0
    /\ m.state = (IF r.phase = "delisted" THEN "relist_pending"
                  ELSE IF r.phase = "tradable" THEN "baseline" ELSE "pending")
    /\ m.seen = (IF r.phase = "tradable" THEN now ELSE None)
    /\ m.terminal = (IF r.phase = "delisted" THEN now ELSE None)
    /\ m.start = None /\ m.startOfficial = FALSE
    /\ m.at = (IF r.at # None THEN r.at ELSE IF r.phase = "tradable" THEN now ELSE None)
    /\ m.official = (r.at # None)

LEMMA MaterializeOld ==
    ASSUME NEW r \in Rows, NEW old \in Instruments, NEW now \in Int
    PROVE  FromOld(Materialize(r, old, now), r, old, now)
<1>1. old # None
  BY NoneIsNoTime
<1> QED
  BY <1>1 DEF FromOld, Materialize, Rows, Instruments, OptionalTime, Phases, States, PendingStates,
         EpisodeStates, Tradable

LEMMA MaterializeNew ==
    ASSUME NEW r \in Rows, NEW now \in Int
    PROVE  FromNew(Materialize(r, None, now), r, now)
  BY DEF FromNew, Materialize, Rows, Instruments, OptionalTime, Phases, States, PendingStates,
         EpisodeStates, Tradable

\* Both are values CatalogInstrument accepts.
LEMMA FromOldValid ==
    ASSUME NEW r \in Rows, NEW old \in Instruments, NEW now \in Int, NEW m,
           FromOld(m, r, old, now), Valid(old), old.last < now
    PROVE  Valid(m)
  BY NoneIsNoTime DEF FromOld, Valid, Rows, Instruments, OptionalTime, Phases, States, PendingStates,
         EpisodeStates, Tradable, Turnovers

LEMMA FromNewValid ==
    ASSUME NEW r \in Rows, NEW now \in Int, NEW m, FromNew(m, r, now)
    PROVE  Valid(m)
  BY NoneIsNoTime DEF FromNew, Valid, Rows, Instruments, OptionalTime, Phases, States, PendingStates,
         EpisodeStates, Tradable, Turnovers

\* The value that keeps its listing state, and the one that starts an episode.
Kept(item, m, state) ==
    /\ item \in Instruments
    /\ item.phase = m.phase /\ item.quote = m.quote /\ item.present = m.present
    /\ item.state = state /\ item.turnover = m.turnover /\ item.first = m.first
    /\ item.last = m.last /\ item.seen = m.seen /\ item.gen = m.gen
    /\ item.terminal = (IF state = "relist_pending" /\ m.phase = "delisted" THEN m.last
                        ELSE IF state \in EpisodeStates THEN m.terminal ELSE None)
    /\ item.start = (IF state \in EpisodeStates THEN m.start ELSE None)
    /\ item.startOfficial = (state \in EpisodeStates /\ m.startOfficial)

Started(item, m, terminal, at, official, now) ==
    /\ item \in Instruments
    /\ item.phase = m.phase /\ item.quote = m.quote /\ item.present = m.present
    /\ item.state = "active_new" /\ item.turnover = m.turnover /\ item.first = m.first
    /\ item.last = m.last /\ item.seen = now /\ item.gen = m.gen + 1
    /\ item.terminal = terminal /\ item.start = at /\ item.startOfficial = official

LEMMA SeenNowFacts ==
    ASSUME NEW m \in Instruments, NEW now \in Int
    PROVE  /\ SeenNow(m, now) \in Instruments
           /\ SeenNow(m, now).at = now /\ SeenNow(m, now).official = FALSE
           /\ Valid(m) => Valid(SeenNow(m, now))
           /\ \A item, state : Kept(item, SeenNow(m, now), state) => Kept(item, m, state)
           /\ \A item, terminal, at, official :
                 Started(item, SeenNow(m, now), terminal, at, official, now)
                    => Started(item, m, terminal, at, official, now)
<1> DEFINE s == SeenNow(m, now)
<1>1. /\ s \in Instruments /\ s.at = now /\ s.official = FALSE
      /\ s.phase = m.phase /\ s.quote = m.quote /\ s.present = m.present /\ s.state = m.state
      /\ s.turnover = m.turnover /\ s.first = m.first /\ s.last = m.last /\ s.seen = m.seen
      /\ s.gen = m.gen /\ s.terminal = m.terminal /\ s.start = m.start
      /\ s.startOfficial = m.startOfficial
  BY DEF SeenNow, Instruments, OptionalTime
<1> HIDE DEF s
<1>2. Valid(m) => Valid(s)
  BY <1>1 DEF Valid, Tradable
<1>3. \A item, state : Kept(item, s, state) => Kept(item, m, state)
  BY <1>1 DEF Kept
<1>4. \A item, terminal, at, official :
         Started(item, s, terminal, at, official, now) => Started(item, m, terminal, at, official, now)
  BY <1>1 DEF Started
<1> QED
  BY <1>1, <1>2, <1>3, <1>4 DEF s

LEMMA WithListingStateFacts ==
    ASSUME NEW m \in Instruments, NEW state \in States
    PROVE  Kept(WithListingState(m, state), m, state)
  BY DEF Kept, WithListingState, Instruments, OptionalTime

LEMMA StartedFacts ==
    ASSUME NEW m \in Instruments, NEW terminal \in OptionalTime, NEW now \in Int
    PROVE  Started([m EXCEPT !.state = "active_new", !.gen = @ + 1, !.seen = now,
                             !.terminal = terminal, !.start = m.at, !.startOfficial = m.official],
                   m, terminal, m.at, m.official, now)
<1> DEFINE f == [m EXCEPT !.state = "active_new", !.gen = @ + 1, !.seen = now,
                           !.terminal = terminal, !.start = m.at, !.startOfficial = m.official]
<1>1. /\ f.phase = m.phase /\ f.quote = m.quote /\ f.present = m.present
      /\ f.state = "active_new" /\ f.turnover = m.turnover /\ f.first = m.first
      /\ f.last = m.last /\ f.seen = now /\ f.gen = m.gen + 1
      /\ f.terminal = terminal /\ f.start = m.at /\ f.startOfficial = m.official
  BY DEF Instruments
<1>2. /\ m.gen + 1 \in Nat /\ now \in OptionalTime /\ m.at \in OptionalTime /\ "active_new" \in States
      /\ m.official \in BOOLEAN
  BY DEF Instruments, OptionalTime, States
<1>3. f \in Instruments
  BY <1>2 DEF Instruments
<1> QED
  BY <1>1, <1>3 DEF Started

\* What the loop of _apply_snapshot makes of a record, and of the value before it:
\* every value built on the way is accepted, and an episode starts after the last.
Classified(c, old, now) ==
    /\ \A i \in c.built : Valid(i)
    /\ c.item \in Instruments /\ Sound(c.item)
    /\ c.item.last = now /\ c.item.present = TRUE
    /\ c.item.turnover # None => old # None /\ c.item.turnover = old.turnover
    /\ old # None /\ c.item.gen # old.gen =>
          /\ c.item.gen = old.gen + 1
          /\ old.start # None => c.item.start > old.start

\* What a stored instrument becomes.
LEMMA ClassifyOld ==
    ASSUME NEW r \in Rows, NEW old \in Instruments, NEW now \in Int, NEW initial,
           Sound(old), old.last < now
    PROVE  Classified(Classify(r, old, initial, now), old, now)
<1> DEFINE raw == Materialize(r, old, now)
           again == Relisting(raw, old) \/ Activating(raw, old)
           state == IF again THEN "active_new"
                    ELSE IF r.phase = "delisted" THEN "relist_pending" ELSE old.state
           item == IF again /\ ~Believed(raw, old, now) THEN SeenNow(raw, now) ELSE raw
           terminal == IF Relisting(raw, old) THEN old.terminal ELSE None
           final == IF again
                    THEN [item EXCEPT !.state = "active_new", !.gen = @ + 1, !.seen = now,
                                      !.terminal = terminal,
                                      !.start = item.at, !.startOfficial = item.official]
                    ELSE WithListingState(item, state)
<1>0. old # None
  BY NoneIsNoTime
<1>1. Classify(r, old, initial, now) = [item |-> final, new |-> again, built |-> {raw, item, final}]
  BY <1>0 DEF Classify
<1>2. FromOld(raw, r, old, now)
  BY MaterializeOld
<1> HIDE DEF raw
<1>3. raw \in Instruments /\ Valid(raw)
  BY <1>2, FromOldValid DEF FromOld, Sound
<1>4. item \in Instruments /\ Valid(item)
  BY <1>3, SeenNowFacts
<1>5. state \in States /\ terminal \in OptionalTime
  BY DEF Instruments, States, OptionalTime
<1>6. CASE again
  <2>1. Started(final, item, terminal, item.at, item.official, now)
    BY <1>4, <1>5, <1>6, StartedFacts
  <2>2. Started(final, raw, terminal, item.at, item.official, now)
    BY <1>3, <2>1, SeenNowFacts
  <2>3. /\ item.at \in Int /\ item.at <= now /\ (item.official \/ item.at = now)
        /\ Relisting(raw, old) => item.at > old.terminal
    <3>1. CASE Believed(raw, old, now)
      BY <1>3, <3>1, NoneIsNoTime DEF Believed, ObservedOfficial, Instruments, OptionalTime
    <3>2. CASE ~Believed(raw, old, now)
      <4>1. item.at = now
        BY <1>3, <1>6, <3>2, SeenNowFacts
      <4>2. Relisting(raw, old) => now > old.terminal
        BY NoneIsNoTime DEF Relisting, Sound, Valid, Instruments, OptionalTime
      <4> QED
        BY <4>1, <4>2
    <3> QED
      BY <3>1, <3>2
  <2>4. Valid(final) /\ final.state = "active_new"
    BY <1>2, <1>6, <2>2, <2>3, NoneIsNoTime
       DEF FromOld, Started, Relisting, Activating, Tradable, Sound, Valid, EpisodeStates, PendingStates,
           Instruments, OptionalTime, Turnovers
  <2>5. final.gen = old.gen + 1 /\ (old.start # None => final.start > old.start)
    BY <1>2, <1>6, <2>2, <2>3, NoneIsNoTime
       DEF FromOld, Started, Relisting, Activating, Tradable, Sound, Valid, EpisodeStates, PendingStates,
           Instruments, OptionalTime
  <2> HIDE DEF final, item
  <2> QED
    BY <1>1, <1>2, <1>3, <1>4, <2>2, <2>4, <2>5, NoneIsNoTime
       DEF FromOld, Started, Sound, Instruments, Classified
<1>7. CASE ~again
  <2>1. Kept(final, raw, state)
    BY <1>3, <1>5, <1>7, WithListingStateFacts
  <2>2. Valid(final)
    BY <1>2, <1>3, <1>7, <2>1, NoneIsNoTime
       DEF FromOld, Kept, Relisting, Activating, Tradable, Sound, Valid, EpisodeStates, PendingStates,
           Instruments, OptionalTime, Turnovers, States
  <2>3. Sound(final)
    BY <1>2, <1>3, <1>7, <2>1, <2>2, NoneIsNoTime
       DEF FromOld, Kept, Relisting, Activating, Tradable, Sound, Valid, EpisodeStates, PendingStates,
           Instruments, OptionalTime, Turnovers, States
  <2> HIDE DEF final, item
  <2> QED
    BY <1>1, <1>2, <1>3, <1>4, <2>1, <2>2, <2>3, NoneIsNoTime
       DEF FromOld, Kept, Instruments, Classified
<1> QED
  BY <1>6, <1>7

LEMMA FirstStateFacts ==
    ASSUME NEW m \in Instruments, NEW now \in Int, NEW initial
    PROVE  LET state == FirstState(m, initial, now) IN
           /\ state \in States
           /\ state = "active_new" => Tradable(m)
           /\ Tradable(m) => state \in {"active_new", "baseline"}
           /\ state = "relist_pending" <=> m.phase = "delisted"
  BY DEF FirstState, States, Tradable, Instruments, Phases

\* What a key the store has never had becomes.
LEMMA ClassifyNew ==
    ASSUME NEW r \in Rows, NEW now \in Int, NEW initial
    PROVE  Classified(Classify(r, None, initial, now), None, now)
<1> DEFINE raw == Materialize(r, None, now)
           state == FirstState(raw, initial, now)
           new == state = "active_new"
           item == IF new /\ raw.at > now THEN SeenNow(raw, now) ELSE raw
           final == IF new
                    THEN [item EXCEPT !.state = "active_new", !.gen = @ + 1, !.seen = now,
                                      !.terminal = None,
                                      !.start = item.at, !.startOfficial = item.official]
                    ELSE WithListingState(item, state)
<1>1. Classify(r, None, initial, now) = [item |-> final, new |-> new, built |-> {raw, item, final}]
  BY DEF Classify
<1>2. FromNew(raw, r, now)
  BY MaterializeNew
<1> HIDE DEF raw
<1>3. raw \in Instruments /\ Valid(raw)
  BY <1>2, FromNewValid DEF FromNew
<1>4. item \in Instruments /\ Valid(item)
  BY <1>3, SeenNowFacts
<1>5. /\ state \in States /\ None \in OptionalTime
      /\ new => Tradable(raw)
      /\ Tradable(raw) => state \in {"active_new", "baseline"}
      /\ state = "relist_pending" <=> raw.phase = "delisted"
  BY <1>3, FirstStateFacts DEF OptionalTime
<1> HIDE DEF state
<1>6. CASE new
  <2>1. Started(final, item, None, item.at, item.official, now)
    BY <1>4, <1>5, <1>6, StartedFacts
  <2>2. Started(final, raw, None, item.at, item.official, now)
    BY <1>3, <2>1, SeenNowFacts
  <2>3. item.at \in Int /\ item.at <= now /\ (item.official \/ item.at = now)
    <3>1. CASE raw.at > now
      <4>1. item = SeenNow(raw, now)
        BY <1>6, <3>1
      <4>2. SeenNow(raw, now).at = now
        BY <1>3, SeenNowFacts
      <4> HIDE DEF item
      <4> QED
        BY <4>1, <4>2
    <3>2. CASE ~(raw.at > now)
      <4>1. raw.at \in Int /\ (raw.official \/ raw.at = now)
        BY <1>2, <1>5, <1>6, NoneIsNoTime DEF FromNew, Tradable, Rows, OptionalTime
      <4> QED
        BY <3>2, <4>1
    <3> QED
      BY <3>1, <3>2
  <2>4. Sound(final)
    BY <1>2, <1>5, <1>6, <2>2, <2>3, NoneIsNoTime
       DEF FromNew, Started, Tradable, Sound, Valid, EpisodeStates, PendingStates, Instruments, OptionalTime
  <2> HIDE DEF final, item
  <2> QED
    BY <1>1, <1>2, <1>3, <1>4, <2>2, <2>4 DEF FromNew, Started, Sound, Classified
<1>7. CASE ~new
  <2>1. Kept(final, raw, state)
    BY <1>3, <1>5, <1>7, WithListingStateFacts
  <2>2. Sound(final)
    BY <1>2, <1>5, <1>7, <2>1, NoneIsNoTime
       DEF FromNew, Kept, Tradable, Sound, Valid, EpisodeStates, PendingStates, Instruments,
           OptionalTime, States
  <2> HIDE DEF final, item
  <2> QED
    BY <1>1, <1>2, <1>3, <1>4, <2>1, <2>2 DEF FromNew, Kept, Sound, Classified
<1> QED
  BY <1>6, <1>7
-----------------------------------------------------------------------------
(* The inductive invariant *)

Types ==
    /\ world \in Worlds
    /\ header \in [rev : Nat, at : OptionalTime] /\ (header.rev > 0 => header.at \in Int)
    /\ turnover \in [rev : Nat, at : OptionalTime, bound : OptionalTime, covered : SUBSET Keys]
    /\ stored \in [Keys -> Instruments \cup {None}]
    /\ selection.rev \in Nat /\ DOMAIN result = Selectors

\* No entry is both in the top N and in grace.
Decided(entries) ==
    \A k \in DOMAIN entries : ~({"top_n", "grace"} \subseteq entries[k].reasons)

\* Grace that goes on from one selection to the next goes on from the same exit.
GraceKept(before, after) ==
    \A k \in DOMAIN before \cap DOMAIN after :
       ("grace" \in before[k].reasons /\ "grace" \in after[k].reasons)
           => after[k].exit = before[k].exit

\* A result was decided on the selection of its revision.
ResultInv(p) ==
    result[p] # None =>
       /\ Decided(result[p].entries)
       /\ GraceKept(result[p].prev.entries, result[p].entries)
       /\ result[p].prev.rev <= selection.rev /\ result[p].prev.rev \in Nat
       /\ result[p].prev.rev = selection.rev => result[p].prev = selection

StoredInv == \A k \in Held : Sound(stored[k])
SelectionInv == Decided(selection.entries) /\ \A p \in Selectors : ResultInv(p)

IInv == Types /\ ViewLoads /\ StoredInv /\ SelectionInv
-----------------------------------------------------------------------------

LEMMA InitIInv == Init => IInv
<1> SUFFICES ASSUME Init PROVE IInv
  OBVIOUS
<1>1. /\ header = [rev |-> 0, at |-> None]
      /\ turnover = [rev |-> 0, at |-> None, bound |-> None, covered |-> {}]
      /\ \A k \in Keys : stored[k] = None
      /\ selection.rev = 0 /\ selection.entries = Empty
      /\ \A p \in Selectors : result[p] = None
  BY DEF Init
<1>2. Types
  BY <1>1 DEF Init, Types, OptionalTime
<1>3. ViewLoads
  BY <1>1, NoneIsNoTime DEF ViewLoads, Held
<1>4. StoredInv
  BY <1>1 DEF StoredInv, Held
<1>5. DOMAIN Empty = {}
  BY DEF Empty
<1>6. SelectionInv
  BY <1>1, <1>5 DEF SelectionInv, Decided, ResultInv
<1> QED
  BY <1>2, <1>3, <1>4, <1>6 DEF IInv

\* The record of a key in the next snapshot: it is accepted, and what it becomes.
LEMMA NextSnapshot ==
    ASSUME IInv, NEW snap \in world.snapshots, NEW now \in Times,
           header.rev > 0 => now > header.at, NEW k \in DOMAIN snap
    PROVE  /\ k \in Keys /\ now \in Int
           /\ Accepted(snap[k], stored[k], header.rev = 0, now)
           /\ Classified(Classify(snap[k], stored[k], header.rev = 0, now), stored[k], now)
<1>1. k \in Keys /\ now \in Int /\ snap[k] \in Rows
  BY WorldsAssumption DEF IInv, Types, Times
<1>2. CASE stored[k] = None
  <2>1. Classified(Classify(snap[k], stored[k], header.rev = 0, now), stored[k], now)
    BY <1>1, <1>2, ClassifyNew
  <2> QED
    BY <1>1, <1>2, <2>1 DEF Accepted, Classified
<1>3. CASE stored[k] # None
  <2>1. stored[k] \in Instruments /\ Sound(stored[k])
    BY <1>1, <1>3 DEF IInv, Types, StoredInv, Held
  <2>2. stored[k].last < now
    <3>1. k \in Held /\ header.rev > 0 /\ header.at \in Int
      BY <1>1, <1>3 DEF IInv, Types, ViewLoads, Held
    <3>2. stored[k].last <= header.at
      BY <1>1, <2>1, <3>1 DEF IInv, ViewLoads, Instruments
    <3> QED
      BY <1>1, <2>1, <3>1, <3>2 DEF Instruments
  <2>3. Relisting(snap[k], stored[k]) => stored[k].terminal # None
    BY <2>1 DEF Relisting, Sound, Valid
  <2>4. Classified(Classify(snap[k], stored[k], header.rev = 0, now), stored[k], now)
    BY <1>1, <2>1, <2>2, ClassifyOld
  <2> QED
    BY <1>1, <1>3, <2>3, <2>4 DEF Accepted, Classified
<1> QED
  BY <1>2, <1>3

\* What a key holds after a snapshot.
LEMMA SnapshotStored ==
    ASSUME IInv, NEW snap \in world.snapshots, NEW now \in Times, ApplyCatalogSnapshot(snap, now)
    PROVE  /\ stored' = [k \in Keys |-> stored'[k]]
           /\ \A k \in DOMAIN snap :
                 stored'[k] = Classify(snap[k], stored[k], header.rev = 0, now).item
           /\ \A k \in Keys \ DOMAIN snap :
                 stored'[k] = IF stored[k] # None /\ stored[k].present THEN Removed(stored[k])
                              ELSE stored[k]
<1> DEFINE current == Current(snap, now)
<1>1. /\ DOMAIN current = DOMAIN snap
      /\ \A k \in DOMAIN snap : current[k] = Classify(snap[k], stored[k], header.rev = 0, now)
  BY DEF Current
<1>2. stored' = AfterSnapshot(current)
  BY DEF ApplyCatalogSnapshot
<1> HIDE DEF current
<1>3. \A k \in DOMAIN snap : k \in Keys
  BY WorldsAssumption DEF IInv, Types
<1>4. \A k \in Keys \ DOMAIN snap : k \in Gone(current) <=> stored[k] # None /\ stored[k].present
  BY <1>1 DEF Gone, Held
<1> QED
  BY <1>1, <1>2, <1>3, <1>4 DEF AfterSnapshot

LEMMA RemovedFacts ==
    ASSUME NEW i \in Instruments, Sound(i)
    PROVE  /\ Removed(i) \in Instruments /\ Sound(Removed(i))
           /\ Removed(i).present = FALSE /\ Removed(i).last = i.last
           /\ Removed(i).turnover = i.turnover /\ Removed(i).gen = i.gen
  BY DEF Removed, Instruments, Sound, Valid, Tradable

LEMMA SnapshotIInv ==
    ASSUME IInv, NEW snap \in world.snapshots, NEW now \in Times, ApplyCatalogSnapshot(snap, now)
    PROVE  IInv'
<1>1. /\ header.rev > 0 => now > header.at
      /\ header' = [rev |-> header.rev + 1, at |-> now]
      /\ UNCHANGED <<world, turnover, selection, loaded, result, picture, used>>
  BY DEF ApplyCatalogSnapshot
<1>2. now \in Int
  BY WorldsAssumption DEF IInv, Types, Times
<1>3. header.rev \in Nat /\ header'.rev = header.rev + 1 /\ header'.at = now
      /\ (header.rev > 0 => header.at \in Int)
  BY <1>1 DEF IInv, Types
<1>4. \A k \in Keys : /\ stored[k] # None => stored[k] \in Instruments /\ Sound(stored[k])
                      /\ stored[k] # None => header.rev > 0
  BY DEF IInv, Types, StoredInv, ViewLoads, Held
\* Per key: the stored value stays, with the last observation and the turnover.
<1>5. ASSUME NEW k \in Keys
      PROVE  /\ stored'[k] # None => stored'[k] \in Instruments /\ Sound(stored'[k])
             /\ stored[k] # None => stored'[k] # None
             /\ stored'[k] # None =>
                   /\ IF stored'[k].present THEN stored'[k].last = now ELSE stored'[k].last < now
                   /\ stored'[k].turnover # None =>
                         stored[k] # None /\ stored'[k].turnover = stored[k].turnover
  <2>1. CASE k \in DOMAIN snap
    <3>1. stored'[k] = Classify(snap[k], stored[k], header.rev = 0, now).item
      BY <2>1, SnapshotStored
    <3>2. Classified(Classify(snap[k], stored[k], header.rev = 0, now), stored[k], now)
      BY <1>1, <2>1, NextSnapshot
    <3> QED
      BY <3>1, <3>2, NoneIsNoTime DEF Classified
  <2>2. CASE k \notin DOMAIN snap /\ stored[k] = None
    BY <2>2, SnapshotStored
  <2>3. CASE k \notin DOMAIN snap /\ stored[k] # None
    <3>1. /\ stored[k] \in Instruments /\ Sound(stored[k]) /\ header.at \in Int /\ now > header.at
          /\ IF stored[k].present THEN stored[k].last = header.at ELSE stored[k].last < header.at
      BY <1>1, <1>3, <1>4, <2>3 DEF IInv, ViewLoads, Held
    <3>2. stored[k].last \in Int /\ stored[k].last < now
      BY <1>2, <3>1 DEF Instruments
    <3>3. CASE stored[k].present
      <4>1. stored'[k] = Removed(stored[k])
        BY <2>3, <3>3, SnapshotStored
      <4> QED
        BY <2>3, <3>1, <3>2, <4>1, RemovedFacts, NoneIsNoTime
    <3>4. CASE ~stored[k].present
      <4>1. stored'[k] = stored[k]
        BY <2>3, <3>4, SnapshotStored
      <4> QED
        BY <2>3, <3>1, <3>2, <3>4, <4>1
    <3> QED
      BY <3>3, <3>4
  <2> QED
    BY <2>1, <2>2, <2>3
<1>6. Types'
  BY <1>1, <1>2, <1>3, <1>5, SnapshotStored DEF IInv, Types, OptionalTime
<1>7. StoredInv'
  BY <1>5 DEF StoredInv, Held
<1>8. SelectionInv'
  BY <1>1 DEF IInv, SelectionInv, ResultInv
<1>9. ViewLoads'
  <2>1. turnover.bound # header'.rev
    BY <1>3, NoneIsNoTime DEF IInv, Types, ViewLoads
  <2>2. turnover.rev > 0 => turnover.bound \in 1 .. header'.rev
    BY <1>3 DEF IInv, ViewLoads
  <2>3. Held \subseteq Held'
    BY <1>5 DEF Held
  <2>4. \A k \in Held' : stored'[k].turnover # None =>
           /\ turnover.rev > 0 /\ k \in turnover.covered
           /\ stored'[k].turnover.at = turnover.at
    BY <1>5 DEF IInv, ViewLoads, Held
  <2> QED
    BY <1>1, <1>3, <1>5, <2>1, <2>2, <2>3, <2>4 DEF IInv, ViewLoads, Held
<1> QED
  BY <1>6, <1>7, <1>8, <1>9 DEF IInv

\* A row that takes a turnover, or loses it, stays sound.
LEMMA TurnoverFacts ==
    ASSUME NEW i \in Instruments, Sound(i),
           NEW t, t = None \/ (t \in Turnovers /\ t.currency = i.quote)
    PROVE  LET j == [i EXCEPT !.turnover = t] IN
           /\ j \in Instruments /\ Sound(j)
           /\ j.present = i.present /\ j.last = i.last /\ j.turnover = t
           /\ j.gen = i.gen
<1> DEFINE j == [i EXCEPT !.turnover = t]
<1>1. j \in Instruments
  BY DEF Instruments
<1>2. /\ j.phase = i.phase /\ j.quote = i.quote /\ j.present = i.present /\ j.state = i.state
      /\ j.turnover = t /\ j.first = i.first /\ j.last = i.last /\ j.seen = i.seen
      /\ j.terminal = i.terminal /\ j.start = i.start /\ j.startOfficial = i.startOfficial
      /\ j.gen = i.gen
  BY DEF Instruments
<1> HIDE DEF j
<1>3. Sound(j)
  BY <1>2 DEF Sound, Valid, Tradable
<1> QED
  BY <1>1, <1>2, <1>3 DEF j

\* What a key holds after a turnover snapshot.
LEMMA TurnoverStored ==
    ASSUME IInv, NEW observed \in world.turnovers, NEW now \in Times, NEW bound \in Times,
           ApplyTurnoverSnapshot(bound, observed, now), NEW k \in Keys
    PROVE  /\ stored[k] = None => stored'[k] = None
           /\ stored[k] # None =>
                 /\ stored'[k] \in Instruments /\ Sound(stored'[k]) /\ stored'[k] # None
                 /\ stored'[k].present = stored[k].present /\ stored'[k].last = stored[k].last
                 /\ stored'[k].gen = stored[k].gen
                 /\ stored'[k].turnover # None =>
                       k \in DOMAIN observed /\ stored'[k].turnover.at = now
<1>1. stored' = WithTurnover(observed, now)
  BY DEF ApplyTurnoverSnapshot
<1>2. CASE stored[k] = None
  BY <1>1, <1>2 DEF WithTurnover
<1>3. CASE stored[k] # None
  <2> DEFINE t == IF k \notin DOMAIN observed THEN None
                  ELSE IF observed[k] = None THEN None
                  ELSE [value |-> observed[k], at |-> now, currency |-> stored[k].quote]
  <2>1. stored'[k] = [stored[k] EXCEPT !.turnover = t]
    BY <1>1, <1>3 DEF WithTurnover
  <2>2. stored[k] \in Instruments /\ Sound(stored[k]) /\ now \in Int
    BY <1>3, WorldsAssumption DEF IInv, Types, StoredInv, Held, Times
  <2>3. /\ t = None \/ (t \in Turnovers /\ t.currency = stored[k].quote)
        /\ t # None => k \in DOMAIN observed /\ t.at = now
    <3>1. CASE k \in DOMAIN observed /\ observed[k] # None
      <4>1. observed[k] \in Int
        BY <3>1, WorldsAssumption DEF IInv, Types
      <4>2. t = [value |-> observed[k], at |-> now, currency |-> stored[k].quote]
        BY <3>1
      <4> HIDE DEF t
      <4> QED
        BY <2>2, <3>1, <4>1, <4>2 DEF Turnovers, Instruments
    <3>2. CASE ~(k \in DOMAIN observed /\ observed[k] # None)
      BY <3>2
    <3> QED
      BY <3>1, <3>2
  <2> HIDE DEF t
  <2>4. /\ stored'[k] \in Instruments /\ Sound(stored'[k])
        /\ stored'[k].present = stored[k].present /\ stored'[k].last = stored[k].last
        /\ stored'[k].turnover = t /\ stored'[k].gen = stored[k].gen
    BY <2>1, <2>2, <2>3, TurnoverFacts
  <2> QED
    BY <1>3, <2>3, <2>4, NoneIsNoTime
<1> QED
  BY <1>2, <1>3

LEMMA TurnoverIInv ==
    ASSUME IInv, NEW observed \in world.turnovers, NEW now \in Times, NEW bound \in Times,
           ApplyTurnoverSnapshot(bound, observed, now)
    PROVE  IInv'
<1>1. /\ header.rev > 0 /\ bound = header.rev /\ now >= header.at
      /\ DOMAIN observed \subseteq {k \in Held : stored[k].present}
      /\ turnover' = [rev |-> turnover.rev + 1, at |-> now, bound |-> bound,
                      covered |-> DOMAIN observed]
      /\ UNCHANGED <<world, header, hints, outbox, selection, loaded, result, picture, used>>
  BY DEF ApplyTurnoverSnapshot
<1>2. /\ now \in Int /\ bound \in Int /\ header.rev \in Nat /\ turnover.rev \in Nat
      /\ turnover'.rev = turnover.rev + 1 /\ turnover'.at = now /\ turnover'.bound = bound
      /\ turnover'.covered = DOMAIN observed /\ turnover'.covered \subseteq Keys
  BY <1>1, WorldsAssumption DEF IInv, Types, Times, Held
<1>3. stored' \in [Keys -> Instruments \cup {None}] /\ Held' = Held
  <2>1. DOMAIN stored' = Keys /\ stored' = [k \in Keys |-> stored'[k]]
    BY DEF ApplyTurnoverSnapshot, WithTurnover
  <2> QED
    BY <2>1, TurnoverStored DEF Held
<1>4. Types'
  BY <1>1, <1>2, <1>3 DEF IInv, Types, OptionalTime
<1>5. StoredInv'
  BY <1>3, TurnoverStored DEF StoredInv, Held
<1>6. SelectionInv'
  BY <1>1 DEF IInv, SelectionInv, ResultInv
<1>7. ViewLoads'
  <2>1. /\ turnover'.rev # 0 /\ turnover'.at # None /\ turnover'.bound # None
        /\ turnover'.bound \in 1 .. header'.rev /\ turnover'.at >= header'.at
    BY <1>1, <1>2, NoneIsNoTime
  <2>2. turnover'.covered \subseteq Held' /\ \A k \in turnover'.covered : stored'[k].present
    BY <1>1, <1>2, <1>3, TurnoverStored DEF Held
  <2>3. \A k \in Held' :
         /\ IF stored'[k].present THEN stored'[k].last = header'.at ELSE stored'[k].last < header'.at
         /\ stored'[k].turnover # None => /\ turnover'.rev > 0 /\ k \in turnover'.covered
                                          /\ stored'[k].turnover.at = turnover'.at
    <3> SUFFICES ASSUME NEW k \in Held'
                 PROVE  /\ IF stored'[k].present THEN stored'[k].last = header'.at
                           ELSE stored'[k].last < header'.at
                        /\ stored'[k].turnover # None =>
                              /\ turnover'.rev > 0 /\ k \in turnover'.covered
                              /\ stored'[k].turnover.at = turnover'.at
      OBVIOUS
    <3>1. k \in Keys /\ k \in Held /\ stored[k] # None
      BY <1>3 DEF Held
    <3>2. IF stored[k].present THEN stored[k].last = header.at ELSE stored[k].last < header.at
      BY <3>1 DEF IInv, ViewLoads
    <3> QED
      BY <1>1, <1>2, <3>1, <3>2, TurnoverStored
  <2>4. header'.rev = 0 => Held' = {}
    BY <1>1
  <2> QED
    BY <2>1, <2>2, <2>3, <2>4 DEF ViewLoads
<1> QED
  BY <1>4, <1>5, <1>6, <1>7 DEF IInv
-----------------------------------------------------------------------------
(* The selection *)

LEMMA EntriesFacts ==
    ASSUME NEW v, NEW prev, NEW now, Decided(prev.entries)
    PROVE  /\ Decided(Entries(v, prev, now))
           /\ GraceKept(prev.entries, Entries(v, prev, now))
<1> DEFINE after == Entries(v, prev, now)
<1>1. \A k \in DOMAIN after :
         /\ "top_n" \in after[k].reasons <=> k \in DOMAIN Ranked(v, now)
         /\ "grace" \in after[k].reasons <=> ExitStart(v, prev, k, now) # None
         /\ after[k].exit = ExitStart(v, prev, k, now)
  BY DEF Entries
<1>2. \A k : ExitStart(v, prev, k, now) # None =>
         /\ k \notin DOMAIN Ranked(v, now)
         /\ "top_n" \notin prev.entries[k].reasons
               => ExitStart(v, prev, k, now) = prev.entries[k].exit
  BY DEF ExitStart
<1> HIDE DEF after
<1>3. Decided(after)
  BY <1>1, <1>2 DEF Decided
<1>4. GraceKept(prev.entries, after)
  BY <1>1, <1>2 DEF Decided, GraceKept
<1> QED
  BY <1>3, <1>4 DEF after

LEMMA SelectIInv ==
    ASSUME IInv, NEW p \in Selectors, NEW now \in Times, Select(p, now)
    PROVE  IInv'
<1>1. UNCHANGED <<world, header, turnover, stored, hints, outbox, selection, picture, used>>
  BY DEF Select
<1>2. Types' /\ ViewLoads' /\ StoredInv'
  <2>1. DOMAIN result' = DOMAIN result
    BY DEF Select
  <2> QED
    BY <1>1, <2>1 DEF IInv, Types, ViewLoads, StoredInv, Held
<1>3. ASSUME NEW q \in Selectors PROVE ResultInv(q)'
  <2>1. CASE q # p
    BY <1>1, <2>1 DEF Select, IInv, SelectionInv, ResultInv
  <2>2. CASE q = p
    <3> SUFFICES ASSUME result'[p] # None PROVE ResultInv(p)'
      BY <2>2 DEF ResultInv
    <3>1. result'[p] = [cat |-> loaded[p].rev, turn |-> loaded[p].turn.rev, prev |-> selection,
                        entries |-> Entries(loaded[p], selection, now)]
      BY DEF Select, IInv, Types
    <3>2. /\ result'[p].prev = selection
          /\ result'[p].entries = Entries(loaded[p], selection, now)
      BY <3>1
    <3>3. Decided(result'[p].entries) /\ GraceKept(selection.entries, result'[p].entries)
      BY <3>2, EntriesFacts DEF IInv, SelectionInv
    <3>4. selection' = selection /\ selection.rev \in Nat
      BY <1>1 DEF IInv, Types
    <3> QED
      BY <3>2, <3>3, <3>4 DEF ResultInv
  <2> QED
    BY <2>1, <2>2
<1> QED
  BY <1>1, <1>2, <1>3 DEF IInv, SelectionInv

\* What is committed was decided on the selection it replaces.
LEMMA CommitFacts ==
    ASSUME IInv, NEW p \in Selectors, CommitSelection(p)
    PROVE  \/ selection' = selection
           \/ /\ selection'.rev = selection.rev + 1
              /\ Decided(selection'.entries) /\ GraceKept(selection.entries, selection'.entries)
<1>1. CASE CommitAllowed(result[p])
  <2>1. /\ result[p] # None /\ selection.rev = result[p].prev.rev
        /\ selection' = [rev |-> selection.rev + 1, cat |-> result[p].cat,
                         turn |-> result[p].turn, entries |-> result[p].entries]
    BY <1>1 DEF CommitSelection, CommitAllowed
  <2>2. selection'.rev = selection.rev + 1 /\ selection'.entries = result[p].entries
    BY <2>1
  <2>3. ResultInv(p)
    BY DEF IInv, SelectionInv
  <2>4. result[p].prev = selection
    BY <2>1, <2>3 DEF ResultInv
  <2> QED
    BY <2>1, <2>2, <2>3, <2>4 DEF ResultInv
<1>2. CASE ~CommitAllowed(result[p])
  BY <1>2 DEF CommitSelection
<1> QED
  BY <1>1, <1>2

LEMMA CommitIInv ==
    ASSUME IInv, NEW p \in Selectors, CommitSelection(p)
    PROVE  IInv'
<1>1. /\ UNCHANGED <<world, header, turnover, stored, hints, loaded, picture, used>>
      /\ result' = [result EXCEPT ![p] = None]
  BY DEF CommitSelection
<1>2. selection.rev \in Nat /\ selection'.rev \in Nat /\ Decided(selection'.entries)
      /\ (selection' = selection \/ selection'.rev = selection.rev + 1)
  BY CommitFacts DEF IInv, Types, SelectionInv
<1>3. Types' /\ ViewLoads' /\ StoredInv'
  BY <1>1, <1>2 DEF IInv, Types, ViewLoads, StoredInv, Held
<1>4. ASSUME NEW q \in Selectors PROVE ResultInv(q)'
  <2> SUFFICES ASSUME result'[q] # None PROVE ResultInv(q)'
    BY DEF ResultInv
  <2>1. result'[q] = result[q]
    BY <1>1 DEF IInv, Types
  <2>2. ResultInv(q)
    BY DEF IInv, SelectionInv
  <2> QED
    BY <1>2, <2>1, <2>2 DEF ResultInv
<1> QED
  BY <1>2, <1>3, <1>4 DEF IInv, SelectionInv
-----------------------------------------------------------------------------
(* The theorems *)

LEMMA NextIInv == IInv /\ [Next]_vars => IInv'
<1> SUFFICES ASSUME IInv, [Next]_vars PROVE IInv'
  OBVIOUS
<1>1. CASE \E snap \in world.snapshots, now \in Times : ApplyCatalogSnapshot(snap, now)
  BY <1>1, SnapshotIInv
<1>2. CASE \E observed \in world.turnovers, now \in Times, bound \in Times :
              ApplyTurnoverSnapshot(bound, observed, now)
  BY <1>2, TurnoverIInv
<1>3. ASSUME NEW p \in Selectors, CommitSelection(p) \/ \E now \in Times : Select(p, now)
      PROVE  IInv'
  BY <1>3, CommitIInv, SelectIInv
<1>4. CASE UNCHANGED <<world, header, turnover, stored, selection, result>>
  BY <1>4 DEF IInv, Types, ViewLoads, StoredInv, SelectionInv, ResultInv, Held
<1>5. CASE \E h \in DOMAIN hints : RecordAnnouncementHint(h)
  BY <1>4, <1>5 DEF RecordAnnouncementHint
<1>6. ASSUME NEW p \in Selectors, LoadView(p) PROVE IInv'
  BY <1>4, <1>6 DEF LoadView
<1>7. CASE UseEvent \/ AckChange \/ ConsumerStops
  BY <1>4, <1>7 DEF UseEvent, AckChange, ConsumerStops
<1>8. CASE UNCHANGED vars
  BY <1>4, <1>8 DEF vars
<1> QED
  BY <1>1, <1>2, <1>3, <1>5, <1>6, <1>7, <1>8 DEF Next

\* The invariant of the catalog store: the view loads, every stored instrument
\* passes CatalogInstrument's checks, and every result was decided on the
\* selection of its revision.
THEOREM IInvAlways == Spec => []IInv
  BY InitIInv, NextIInv, PTL DEF Spec

\* load_view never refuses the state its own writers left, whatever the exchange
\* reports and in whatever order the snapshots arrive.
THEOREM ViewAlwaysLoads == Spec => []ViewLoads
<1>1. IInv => ViewLoads
  BY DEF IInv
<1> QED
  BY <1>1, IInvAlways, PTL

\* No history of snapshots leads to an instrument that _apply_snapshot cannot
\* update with the next record.
THEOREM SnapshotsAlwaysAccepted == Spec => []SnapshotsAccepted
<1>1. IInv => SnapshotsAccepted
  BY NextSnapshot DEF SnapshotsAccepted
<1> QED
  BY <1>1, IInvAlways, PTL

\* The capture windows of an instrument's episodes advance.
THEOREM EpisodesAlwaysAdvance == Spec => EpisodesAdvance
<1> DEFINE Step == \A k \in Keys : (stored[k] # None /\ stored'[k].gen # stored[k].gen) =>
                      /\ stored'[k].gen = stored[k].gen + 1
                      /\ stored[k].start # None => stored'[k].start > stored[k].start
<1>1. IInv /\ [Next]_vars => [Step]_vars
  <2> SUFFICES ASSUME IInv, Next,
                      NEW k \in Keys, stored[k] # None, stored'[k].gen # stored[k].gen
               PROVE  /\ stored'[k].gen = stored[k].gen + 1
                      /\ stored[k].start # None => stored'[k].start > stored[k].start
    OBVIOUS
  <2>1. ASSUME NEW snap \in world.snapshots, NEW now \in Times, ApplyCatalogSnapshot(snap, now)
        PROVE  /\ stored'[k].gen = stored[k].gen + 1
               /\ stored[k].start # None => stored'[k].start > stored[k].start
    <3>1. CASE k \in DOMAIN snap
      <4>1. stored'[k] = Classify(snap[k], stored[k], header.rev = 0, now).item
        BY <2>1, <3>1, SnapshotStored
      <4>2. header.rev > 0 => now > header.at
        BY <2>1 DEF ApplyCatalogSnapshot
      <4>3. Classified(Classify(snap[k], stored[k], header.rev = 0, now), stored[k], now)
        BY <2>1, <3>1, <4>2, NextSnapshot
      <4> QED
        BY <4>1, <4>3 DEF Classified
    <3>2. CASE k \notin DOMAIN snap
      <4>1. stored[k] \in Instruments /\ Sound(stored[k])
        BY DEF IInv, Types, StoredInv, Held
      <4>2. stored'[k] = stored[k] \/ stored'[k] = Removed(stored[k])
        BY <2>1, <3>2, SnapshotStored
      <4> QED
        BY <4>1, <4>2, RemovedFacts
    <3> QED
      BY <3>1, <3>2
  <2>2. CASE \E observed \in world.turnovers, now \in Times, bound \in Times :
                ApplyTurnoverSnapshot(bound, observed, now)
    BY <2>2, TurnoverStored
  <2>3. CASE UNCHANGED stored
    BY <2>3
  <2> QED
    BY <2>1, <2>2, <2>3
       DEF Next, RecordAnnouncementHint, LoadView, CommitSelection, Select, UseEvent, AckChange, ConsumerStops
<1> QED
  BY <1>1, IInvAlways, PTL DEF Spec, EpisodesAdvance

\* Grace is granted once per exit, also when two selectors decide and commit at
\* the same time.
THEOREM GraceNeverRenewed == Spec => GraceNotRenewed
<1> DEFINE Step == \A k \in DOMAIN selection.entries \cap DOMAIN selection'.entries :
                      ("grace" \in selection.entries[k].reasons /\ "grace" \in selection'.entries[k].reasons)
                          => selection'.entries[k].exit = selection.entries[k].exit
<1>1. IInv /\ [Next]_vars => [Step]_vars
  <2> SUFFICES ASSUME IInv, Next PROVE Step
    OBVIOUS
  <2>1. ASSUME NEW p \in Selectors, CommitSelection(p) PROVE Step
    BY <2>1, CommitFacts DEF GraceKept
  <2>2. CASE UNCHANGED selection
    BY <2>2
  <2> QED
    BY <2>1, <2>2
       DEF Next, ApplyCatalogSnapshot, ApplyTurnoverSnapshot, RecordAnnouncementHint, LoadView, Select,
           UseEvent, AckChange, ConsumerStops
<1> QED
  BY <1>1, IInvAlways, PTL DEF Spec, GraceNotRenewed
=============================================================================
