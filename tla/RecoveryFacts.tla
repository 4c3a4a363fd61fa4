--------------------------- MODULE RecoveryFacts ---------------------------
(***************************************************************************)
(* What startup recovery decides about a raw source and writes down        *)
(* (src/crypto_collector/storage/recovery.py): the plan for a source, the  *)
(* six facts of a recovery transaction, and the checks that a fact and a   *)
(* chain of facts must pass before they are published or trusted.          *)
(*                                                                         *)
(* A part of the storage hour is a number; a source is <<"partial", p>> or *)
(* <<"final", p>>.  The bytes of a file are a record: so many valid frames,*)
(* then so many bytes that are not one; equal records stand for equal size *)
(* and hash.  An optional group of fields is << >> or a pair.              *)
(***************************************************************************)
EXTENDS Naturals, Sequences, FiniteSets

PartialStates == {"partial_complete", "partial_truncated", "publication_coexistence"}
CleanupStates == {"cleanup_intent", "cleanup_tombstone"}

Bytes(frames, tail) == [frames |-> frames, tail |-> tail]
Size(bytes) == bytes.frames + bytes.tail

Recovered(part) == <<"recovered", part>>
ManifestOf(part) == <<"manifest", "final", part>>
BadTail(source) == <<"bad-tail", source[1], source[2]>>
Whole(source) == <<"whole", source[1], source[2]>>

Present(group) == group # << >>
-----------------------------------------------------------------------------
(* RecoveryIntentV1 *)

\* _validate_intent: the state fits the path, and planned data has its manifest.
GroupsFit(i) ==
    /\ i.state \in PartialStates <=> i.source[1] = "partial"
    /\ Present(i.data) => Present(i.man) /\ i.man[1] = ManifestOf(i.data[1])

\* State and planned artifacts fit the disposition.
DispositionFits(i) ==
    LET truncated == i.state = "partial_truncated" IN
    CASE i.disposition = "removed" ->
           /\ i.state \in PartialStates
           /\ Present(i.data) /\ ~Present(i.proof)
           /\ (i.data[1] = i.source[2]) = (i.state = "publication_coexistence")
           /\ Present(i.quar) = truncated
           /\ IF truncated
              THEN /\ i.quar[1] = BadTail(i.source) /\ Size(i.quar[2]) > 0
                   /\ Size(i.data[2]) + Size(i.quar[2]) = Size(i.bytes)
              ELSE i.data[2] = i.bytes
      [] i.disposition = "moved_to_quarantine" ->
           /\ i.state \in {"partial_truncated", "orphan_closed_data"}
           /\ ~Present(i.data) /\ ~Present(i.man) /\ ~Present(i.proof)
           /\ i.quar = <<Whole(i.source), i.bytes>>
      [] i.disposition = "retained" ->
           /\ i.state = "orphan_closed_data"
           /\ ~Present(i.quar) /\ ~Present(i.proof)
           /\ i.data = <<i.source[2], i.bytes>>
      [] i.disposition = "legitimately_missing" ->
           /\ i.state \in CleanupStates /\ Size(i.bytes) > 0
           /\ ~Present(i.data) /\ ~Present(i.quar)
           /\ Present(i.man) /\ i.man[1] = ManifestOf(i.source[2])
           /\ i.proof = <<IF i.state = "cleanup_intent" THEN "intent" ELSE "tombstone">>

IntentValid(i) == GroupsFit(i) /\ DispositionFits(i)

Intent(tx, state, source, bytes, disposition, data, man, quar, proof) ==
    [tx |-> tx, state |-> state, source |-> source, bytes |-> bytes,
     disposition |-> disposition, data |-> data, man |-> man, quar |-> quar, proof |-> proof]

\* _recovery_manifest_from_facts: the manifest recovery writes names its
\* transaction and vouches for the bytes it describes.
RecoveryManifest(tx, bytes) == [by |-> tx, of |-> bytes]
-----------------------------------------------------------------------------
(* Plans *)

\* A partial whose first frames are valid: they become a new part, the rest a
\* quarantined tail.
PlanPrefix(tx, source, bytes, next) ==
    LET prefix == Bytes(bytes.frames, 0)
        whole == bytes.tail = 0
    IN  Intent(tx, IF whole THEN "partial_complete" ELSE "partial_truncated", source, bytes,
               "removed", <<next, prefix>>, <<ManifestOf(next), RecoveryManifest(tx, prefix)>>,
               IF whole THEN << >> ELSE <<BadTail(source), Bytes(0, bytes.tail)>>, << >>)

\* A closed part without a manifest that is valid to its last byte is kept.
PlanOrphan(tx, source, bytes) ==
    Intent(tx, "orphan_closed_data", source, bytes, "retained", <<source[2], bytes>>,
           <<ManifestOf(source[2]), RecoveryManifest(tx, bytes)>>, << >>, << >>)

\* Anything else is moved to the quarantine as it is.
PlanWhole(tx, source, bytes) ==
    Intent(tx, IF source[1] = "partial" THEN "partial_truncated" ELSE "orphan_closed_data",
           source, bytes, "moved_to_quarantine", << >>, << >>, <<Whole(source), bytes>>, << >>)

\* _plan_streaming_recovery_source (and plan_recovery_source, on bytes in memory)
PlanSource(tx, source, bytes, next) ==
    CASE source[1] = "partial" /\ bytes.frames > 0 -> PlanPrefix(tx, source, bytes, next)
      [] source[1] = "final" /\ bytes.frames > 0 /\ bytes.tail = 0 -> PlanOrphan(tx, source, bytes)
      [] OTHER -> PlanWhole(tx, source, bytes)

\* _plan_publication_coexistence: both names of an interrupted publication; a
\* manifest that is already there is kept.
PlanCoexistence(tx, source, bytes, manifest) ==
    Intent(tx, "publication_coexistence", source, bytes, "removed", <<source[2], bytes>>,
           <<ManifestOf(source[2]),
             IF manifest = << >> THEN RecoveryManifest(tx, bytes) ELSE manifest[1]>>, << >>, << >>)

\* The intent of _reconcile_manifest_only_source.
PlanMissing(tx, part, manifest, kind) ==
    Intent(tx, IF kind = "intent" THEN "cleanup_intent" ELSE "cleanup_tombstone",
           <<"final", part>>, manifest.of, "legitimately_missing", << >>,
           <<ManifestOf(part), manifest>>, << >>, <<kind>>)

\* _frozen_recovery_sequence: a resumed plan uses the part number of its intent.
FrozenSource(i) == i.source[2]
FrozenSequence(i) ==
    IF i.source[1] = "partial" /\ Present(i.data) THEN i.data[1] ELSE 0
-----------------------------------------------------------------------------
(* The later facts of a chain *)

\* _artifacts_fact_from_intent
ArtifactsFact(i) == [data |-> i.data, man |-> i.man, quar |-> i.quar]

\* _settled_fact_from_intent
SettledFact(i) ==
    [source |-> i.source, disposition |-> i.disposition,
     settled |-> CASE i.disposition = "retained" -> <<i.bytes>>
                   [] i.disposition = "moved_to_quarantine" -> <<i.quar[2]>>
                   [] OTHER -> << >>]

\* _outcome_from_intent, with the payload _control_payload_from_intent tells the
\* readers of the control stream
Outcome(i) ==
    [tx |-> i.tx, state |-> i.state, disposition |-> i.disposition, source |-> i.source,
     recovered |-> i.data, quarantined |-> i.quar,
     informational |-> i.disposition = "legitimately_missing"]

\* _target_from_payload: the generation the control event is about.
Target(i) == IF Present(i.data) THEN <<Recovered(i.data[1])>> ELSE << >>

\* _ownership_from_admission: the control row, its one carrier and its target.
OwnershipFact(i, carrier) == [event |-> i.tx, carrier |-> carrier, target |-> Target(i),
                              payload |-> Outcome(i)]

DurableFact(ownership) == [event |-> ownership.event, carrier |-> ownership.carrier]

CompleteFact(i) == [event |-> i.tx, state |-> i.state, disposition |-> i.disposition,
                    outcome |-> Outcome(i)]

\* RecoveryOutcome and RecoveryControlPayloadV1 check their fields against the
\* disposition.
PayloadValid(o) ==
    /\ o.informational = (o.disposition = "legitimately_missing")
    /\ CASE o.disposition = "removed" ->
              Present(o.recovered) /\ (Present(o.quarantined) => o.quarantined[1] = BadTail(o.source))
         [] o.disposition = "retained" ->
              Present(o.recovered) /\ ~Present(o.quarantined) /\ o.recovered[1] = o.source[2]
         [] o.disposition = "moved_to_quarantine" ->
              ~Present(o.recovered) /\ Present(o.quarantined) /\ o.quarantined[1] = Whole(o.source)
         [] OTHER -> ~Present(o.recovered) /\ ~Present(o.quarantined)

\* _validate_recovery_chain_bindings, with the validators of the single facts
ChainBound(chain) ==
    LET i == chain[1] IN
    /\ IntentValid(i) /\ PayloadValid(Outcome(i))
    /\ Len(chain) >= 2 => chain[2] = ArtifactsFact(i)
    /\ Len(chain) >= 3 => chain[3] = SettledFact(i)
    /\ Len(chain) >= 4 => chain[4] = OwnershipFact(i, chain[4].carrier)
    /\ Len(chain) >= 5 => chain[5] = DurableFact(chain[4])
    /\ Len(chain) >= 6 => chain[6] = CompleteFact(i)

\* _preflight_recovery_ownership: the paths of one transaction.
Claims(chain) ==
    LET i == chain[1] IN
    {i.source}
    \cup (IF Present(i.data) THEN {<<"final", i.data[1]>>, <<"partial", i.data[1]>>} ELSE {})
    \cup (IF Present(i.man) THEN {<<"manifest", i.man[1][3]>>} ELSE {})
    \cup (IF Present(i.quar) THEN {<<"quarantine", i.source[2]>>} ELSE {})
    \cup (IF Len(chain) >= 4 THEN {<<"control", chain[4].carrier>>} ELSE {})
=============================================================================
