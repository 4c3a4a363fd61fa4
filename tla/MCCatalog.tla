----------------------------- MODULE MCCatalog -----------------------------
(***************************************************************************)
(* Worlds for Catalog: one instrument with every lifecycle phase and every *)
(* official time, around which the listing episodes are decided; two       *)
(* instruments whose turnover two selectors race for; two instruments of   *)
(* one pair with announcement hints; and shorter ones in which the         *)
(* consumer of the outbox falls behind by several commits.                 *)
(***************************************************************************)
EXTENDS Catalog, TLC

MCPair == [k \in Keys |-> "pair"]
NoHints == [h \in {} |-> None]

\* The records that give a key to the snapshots in which the others have theirs.
Reports(rows) ==
    UNION {[here -> UNION {rows[k] : k \in Keys}] : here \in SUBSET Keys}
Snapshots(rows) == {snap \in Reports(rows) : \A k \in DOMAIN snap : snap[k] \in rows[k]}

Lifecycle ==
    [snapshots |-> Snapshots([k \in Keys |->
                     IF k = 1 THEN {Row(p, t, "q") : p \in {"preopen", "tradable", "paused", "delisted"},
                                                    t \in {None} \cup 0 .. 4}
                     ELSE {}]),
     turnovers |-> {}, hints |-> NoHints, selecting |-> FALSE, until |-> 4, revisions |-> 4, lag |-> 0]
Selecting ==
    [snapshots |-> {[k \in Keys |-> Row("tradable", None, "q")], [k \in {2} |-> Row("tradable", 0, "q")]},
     turnovers |-> {[k \in Keys |-> k], [k \in Keys |-> 3 - k]},
     hints |-> NoHints, selecting |-> TRUE, until |-> 3, revisions |-> 2, lag |-> 0]
Behind == [Selecting EXCEPT !.until = 2, !.lag = 4]
Relisted ==
    [Lifecycle EXCEPT !.snapshots = Snapshots([k \in Keys |-> {Row(p, None, "q") : p \in
                                        IF k = 1 THEN {"preopen", "tradable", "delisted"} ELSE {}}]),
                      !.lag = 8]
Announced ==
    [snapshots |-> Snapshots([k \in Keys |->
                     IF k = 1 THEN {Row("preopen", None, "q"), Row("tradable", None, "q")}
                     ELSE {Row("tradable", None, "q"), Row("tradable", None, "r")}]),
     turnovers |-> {[k \in {2} |-> 1], [k \in {} |-> 1]},
     hints |-> [h \in 1 .. 2 |-> IF h = 1 THEN [key |-> None, pair |-> "pair", at |-> 1]
                                 ELSE [key |-> 2, pair |-> None, at |-> 2]],
     selecting |-> FALSE, until |-> 3, revisions |-> 2, lag |-> 4]
MCWorlds == {Lifecycle, Relisted, Selecting, Behind, Announced}
Sym == Permutations(Selectors)
=============================================================================
