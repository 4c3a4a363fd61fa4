------------------------------ MODULE Recovery ------------------------------
(***************************************************************************)
(* Startup recovery of one exchange                                        *)
(* (src/crypto_collector/storage/recovery.py: _RecoveryJournal,            *)
(* PosixRecoveryBackend; service.py: _process_pending_recovery_control).   *)
(* Each raw source left behind gets a transaction of six facts: intent,    *)
(* artifacts durable, source settled, control ownership, control durable,  *)
(* complete.  The process may be killed, or the machine stop, at any step; *)
(* the next start replays the journal before it looks for new sources.     *)
(*                                                                         *)
(* Each file has a state: what names it has and whether its bytes are all  *)
(* there.  img gives the states a power loss may leave, which an fsync     *)
(* reduces to the visible one.  A publication (temporary, fsync, rename or *)
(* hard link, fsync) is the subject of Publication; here its steps change  *)
(* the state of the file.                                                  *)
(***************************************************************************)
EXTENDS RecoveryFacts, RecoveryScan, FiniteSetsExt

CONSTANTS Sources,      \* parts of the hour that may be left behind at the start
          Leftovers,    \* functions from Sources to the state each was left in: see Residue
          MaxPart,      \* bound on part numbers of the hour
          MaxTx,        \* bound on transaction identities
          Hardlinks,    \* subset of BOOLEAN: may renameat2 be unavailable?
          MaxRestarts   \* bound on process ends

ASSUME RecoveryAssumption ==
    /\ MaxPart \in Nat /\ Sources \subseteq 0..MaxPart
    /\ MaxTx \in Nat \ {0}
    /\ Hardlinks \subseteq BOOLEAN /\ Hardlinks # {}
    /\ MaxRestarts \in Nat

\* What Publication leaves of a part: a partial name alone was never published, a
\* manifest comes after the final name, the old name goes after the new one (a sync
\* between them, raw_writer.py:349-356), a file that is published, or half so, has all
\* its frames and no rest, an empty part gets no manifest (raw_writer.py:1366), and a
\* name is synced before the file gets its first byte (stream_file.py:350), so that
\* only an empty one can vanish.  A manifest is written under a temporary name when its
\* data has its one final name on disk, is synced before it is linked, and loses the
\* temporary name when the other is synced (raw_writer.py:516-589, 2525-2562).
ASSUME LeftoverAssumption ==
    \A left \in Leftovers : \A p \in Sources : LET r == left[p] IN
        /\ r.names \in {"absent", "partial", "both", "final"}
        /\ r.names \in r.images /\ r.images \subseteq {"absent", "partial", "both", "final"}
        /\ r.names = "partial" => r.images \subseteq {"absent", "partial"}
        /\ r.names = "absent" => r.images = {"absent"}
        /\ r.names = "both" => "final" \notin r.images
        /\ r.names = "final" => "partial" \notin r.images
        /\ "both" \in r.images => "absent" \notin r.images
        /\ r.bytes.frames \in Nat /\ r.bytes.tail \in Nat /\ r.bytes = Bytes(r.bytes.frames, r.bytes.tail)
        /\ "absent" \in r.images => r.manifest.images = {"final"} \/ Size(r.bytes) = 0
        /\ \/ r.bytes.frames > 0 /\ r.bytes.tail = 0
           \/ r.images \subseteq {"absent", "partial"} \/ r.images \subseteq {"absent", "final"}
        /\ r.manifest.names \in {"absent", "temp", "both", "final"}
        /\ r.manifest.names \in r.manifest.images
        /\ r.manifest.images \subseteq (CASE r.manifest.names = "absent" -> {"absent"}
                                         [] r.manifest.names = "temp" -> {"absent", "temp"}
                                         [] r.manifest.names = "both" -> {"temp", "both"}
                                         [] OTHER -> {"both", "final"})
        /\ r.manifest.bytes \in {"synced", "soft", "torn"}
        /\ r.manifest.bytes # "synced" => r.manifest.names = "temp"
        /\ r.manifest.names # "absent" =>
              r.images \subseteq {"absent", "both", "final"} /\ Size(r.bytes) > 0
        /\ \/ r.manifest.images \in {{"absent"}, {"final"}}
           \/ r.images = {"final"} /\ r.bytes.frames > 0 /\ r.bytes.tail = 0
        /\ r.cleanup \in {"none", "intent", "tombstone"}

Parts == 0..MaxPart
Txs == 1..MaxTx
Carriers == Txs
SourcePaths == {"partial", "final"} \X Parts
Artifacts == {ManifestOf(p) : p \in Parts} \cup {BadTail(s) : s \in SourcePaths}
             \cup {Whole(s) : s \in SourcePaths}
ControlManifest(k) == <<"control", k>>
Manifests == {ManifestOf(p) : p \in Parts} \cup {ControlManifest(k) : k \in Carriers}

\* The data of a part.  "short": a partial file that recovery, or the writer of
\* a control carrier, has not filled.
DataStates == {"absent", "short", "partial", "both", "final"}
ArtifactStates == {"absent", "temp", "both", "final"}
\* A carrier's manifest: the writer's (n) or the one frozen in the ownership (r).
CarrierManifestStates == {"absent", "ntorn", "ntemp", "nboth", "nfinal", "rtemp", "rboth", "rfinal"}

VARIABLES
    data, dataImg,    \* part -> state of its data; what a power loss may leave
    bytes,            \* part -> the bytes of its complete data file
    art, artImg,      \* manifest or quarantine file -> its state
    val,              \* manifest or quarantine file -> its content
    lease, leaseDisk, \* parts with a lease file; those that survive a power loss
    proof,            \* part -> cleanup proof of the retention job
    chain,            \* transaction -> its facts
    durable,          \* transaction -> number of facts that survive a power loss
    ctl, ctlImg,      \* control carrier -> state of its data
    cman, cmanImg,    \* control carrier -> state of its manifest
    row,              \* control carrier -> the transactions whose event it holds
    soft, torn,       \* manifests whose bytes no sync has reached; those cut by a power loss
    run,              \* what the process is at: see Phases
    pc, cur,          \* next step, and of which transaction
    src,              \* the source it is about
    plan,             \* the intent being carried out, << >> or <<intent>>
    todo, found,      \* transactions, or sources, still to handle
    pending,          \* transactions whose control event is to be emitted
    restarts

rawVars == <<data, dataImg, bytes, art, artImg, val, lease, leaseDisk>>
journalVars == <<chain, durable>>
controlVars == <<ctl, ctlImg, cman, cmanImg, row, soft, torn>>
workVars == <<src, plan, todo, found, pending>>
vars == <<rawVars, proof, journalVars, controlVars, run, pc, cur, workVars, restarts>>

\* Transactions of the journal; the writer's manifest temporaries, each checked, named
\* and synced; data missing under a manifest; data without a manifest; control events
\* of what was settled; the service is open.
Phases == {"load", "chains", "temporaries", "naming", "syncing", "manifests", "sources",
           "serving", "up", "blocked"}
-----------------------------------------------------------------------------
(* What the writer may have left of a part *)

\* names of the manifest, names after a power loss, what a power loss does to its bytes
Manifest(names, images, quality) == [names |-> names, images |-> images, bytes |-> quality]

\* names of the data, names after a power loss, bytes, manifest, cleanup proof
Residue(names, images, frames, tail, manifest, cleanup) ==
    [names |-> names, images |-> images, bytes |-> Bytes(frames, tail),
     manifest |-> manifest, cleanup |-> cleanup]

Init ==
    /\ \E left \in Leftovers :
          LET Of(p, field, other) == IF p \in Sources THEN left[p][field] ELSE other
              manifest(p) == Of(p, "manifest", Manifest("absent", {"absent"}, "synced"))
          IN  /\ data = [p \in Parts |-> Of(p, "names", "absent")]
              /\ dataImg = [p \in Parts |-> Of(p, "images", {"absent"})]
              /\ bytes = [p \in Parts |-> Of(p, "bytes", Bytes(0, 0))]
              /\ art = [a \in Artifacts |-> IF a[1] = "manifest" THEN manifest(a[3]).names ELSE "absent"]
              /\ artImg = [a \in Artifacts |->
                              IF a[1] = "manifest" THEN manifest(a[3]).images ELSE {"absent"}]
              /\ soft = {ManifestOf(p) : p \in {q \in Parts : manifest(q).bytes = "soft"}}
              /\ torn = {ManifestOf(p) : p \in {q \in Parts : manifest(q).bytes = "torn"}}
              /\ proof = [p \in Parts |-> Of(p, "cleanup", "none")]
    /\ val = [a \in Artifacts |-> RecoveryManifest(0, bytes[a[3]])]
    /\ lease = {} /\ leaseDisk = {}
    /\ chain = [t \in Txs |-> << >>] /\ durable = [t \in Txs |-> 0]
    /\ ctl = [k \in Carriers |-> "absent"] /\ ctlImg = [k \in Carriers |-> {"absent"}]
    /\ cman = [k \in Carriers |-> "absent"] /\ cmanImg = [k \in Carriers |-> {"absent"}]
    /\ row = [k \in Carriers |-> {}]
    /\ run = "load" /\ pc = "next" /\ cur = 1 /\ src = <<"final", 0>>
    /\ plan = << >> /\ todo = {} /\ found = {} /\ pending = {}
    /\ restarts = 0
-----------------------------------------------------------------------------
(* Files *)

At(s) == pc = s /\ run \notin {"up", "blocked"}
Goto(s) == pc' = s /\ UNCHANGED <<run, cur, workVars, proof, restarts>>
Block == run' = "blocked" /\ UNCHANGED <<pc, cur, workVars, proof, restarts>>

\* Go to s when the check holds; RecoveryBlocked otherwise.
GotoIf(check, s) == IF check THEN Goto(s) ELSE Block

SetData(p, state) ==
    /\ data' = [data EXCEPT ![p] = state]
    /\ dataImg' = [dataImg EXCEPT ![p] = @ \cup {state}]
    /\ UNCHANGED <<bytes, art, artImg, val, lease, leaseDisk>>

SetArt(a, state) ==
    /\ art' = [art EXCEPT ![a] = state]
    /\ artImg' = [artImg EXCEPT ![a] = @ \cup {state}]
    /\ UNCHANGED <<data, dataImg, bytes, lease, leaseDisk>>

\* fsync of the hour's directory, and of the quarantine's for the artifacts qs
SyncWith(qs) ==
    /\ dataImg' = [p \in Parts |-> {data[p]}]
    /\ artImg' = [a \in Artifacts |-> IF a[1] = "manifest" \/ a \in qs THEN {art[a]} ELSE artImg[a]]
    /\ leaseDisk' = lease
    /\ UNCHANGED <<data, bytes, art, val, lease>>

SyncRaw == SyncWith({})

SetCtl(k, state) ==
    /\ ctl' = [ctl EXCEPT ![k] = state]
    /\ ctlImg' = [ctlImg EXCEPT ![k] = @ \cup {state}]
    /\ UNCHANGED <<cman, cmanImg, row, soft, torn>>

SetCman(k, state) ==
    /\ cman' = [cman EXCEPT ![k] = state]
    /\ cmanImg' = [cmanImg EXCEPT ![k] = @ \cup {state}]
    /\ UNCHANGED <<ctl, ctlImg, row, torn>>

\* fsync of the control directory
SyncControl ==
    /\ ctlImg' = [k \in Carriers |-> {ctl[k]}]
    /\ cmanImg' = [k \in Carriers |-> {cman[k]}]
    /\ UNCHANGED <<ctl, cman, row, soft, torn>>

Named(state) == state \in {"both", "final"}
Partial(state) == state \in {"short", "partial", "both"}
SourcePresent(s) == IF s[1] = "partial" THEN Partial(data[s[2]]) ELSE Named(data[s[2]])

\* _artifact_exists_exactly
DataExact(pair) == Named(data[pair[1]]) /\ bytes[pair[1]] = pair[2]

\* publish_no_replace takes the rename, or links the new name first.
Published(linked) == IF linked THEN "both" ELSE "final"

intent == plan[1]
Facts == Len(chain[cur])
Journal == {t \in Txs : chain[t] # << >>}
-----------------------------------------------------------------------------
(* _RecoveryJournal *)

\* Every path claimed by a transaction of the journal is claimed by one only.
ClaimsDisjoint ==
    \A t, u \in Journal : t # u => Claims(chain[t]) \cap Claims(chain[u]) = {}

\* transaction_ids and load_chain: temporaries and empty transactions are
\* dropped, every directory synced, every fact checked; then the preflight.
LoadJournal ==
    /\ run = "load"
    /\ durable' = [t \in Txs |-> Len(chain[t])]
    /\ IF ClaimsDisjoint /\ \A t \in Journal : ChainBound(chain[t])
       THEN run' = "chains" /\ todo' = Journal
       ELSE run' = "blocked" /\ UNCHANGED todo
    /\ UNCHANGED <<rawVars, proof, chain, controlVars, pc, cur, src, plan, found, pending, restarts>>

NextCarrier == 1 + Max({0} \cup {k \in Carriers : ctl[k] # "absent" \/ cman[k] # "absent"})

NextFact ==
    CASE Facts = 0 -> intent
      [] Facts = 1 -> ArtifactsFact(intent)
      [] Facts = 2 -> SettledFact(intent)
      [] Facts = 3 -> OwnershipFact(intent, NextCarrier)
      [] Facts = 4 -> DurableFact(chain[cur][4])
      [] Facts = 5 -> CompleteFact(intent)

\* publish: the fact must agree with the chain it extends.  Its bytes are
\* written and synced under a temporary name, then named.
PublishFact ==
    /\ At("fact")
    /\ LET longer == Append(chain[cur], NextFact) IN
       IF ChainBound(longer)
       THEN chain' = [chain EXCEPT ![cur] = longer] /\ Goto("factsync")
       ELSE Block /\ UNCHANGED chain
    /\ UNCHANGED <<rawVars, durable, controlVars>>

\* The directory is synced, and the operation goes on.
SyncFactSettling ==
    /\ At("factsync")
    /\ durable' = [durable EXCEPT ![cur] = Facts]
    /\ Goto(CASE Facts = 1 -> "settle" [] Facts = 2 -> "verify"
              [] Facts = 3 -> IF run = "chains" THEN "recheck" ELSE "settled"
              [] Facts = 4 -> "carrier" [] Facts = 5 -> "fact" [] Facts = 6 -> "settled")
    /\ UNCHANGED <<rawVars, chain, controlVars>>
SyncFact ==
    /\ At("factsync")
    /\ durable' = [durable EXCEPT ![cur] = Facts]
    /\ Goto(CASE Facts = 1 -> "data" [] Facts = 2 -> "verify"
              [] Facts = 3 -> IF run = "chains" THEN "recheck" ELSE "settled"
              [] Facts = 4 -> "carrier" [] Facts = 5 -> "fact" [] Facts = 6 -> "settled")
    /\ UNCHANGED <<rawVars, chain, controlVars>>
-----------------------------------------------------------------------------
(* reconcile: the transactions of the journal, then what no transaction owns *)

\* The paths that reconcile keeps in reserved.
OwnedWhileOpen == UNION {Claims(chain[t]) : t \in {u \in Journal : Len(chain[u]) < 6}}
Owned == UNION {Claims(chain[t]) : t \in Journal}

\* _discover_manifest_only_sources: data that a manifest names is missing.
ManifestOnly ==
    {<<"final", p>> : p \in {q \in Parts : /\ Named(art[ManifestOf(q)]) /\ ~Named(data[q])
                                           /\ {<<"manifest", q>>, <<"final", q>>} \cap Owned = {}}}

\* _discover_unbound_raw_sources: partials, and finals without a manifest; both
\* names of one file are one source.
Unbound ==
    {<<"partial", p>> : p \in {q \in Parts : Partial(data[q]) /\ <<"partial", q>> \notin Owned}}
    \cup {<<"final", p>> : p \in {q \in Parts : /\ data[q] = "final" /\ <<"final", q>> \notin Owned
                                                /\ ~Named(art[ManifestOf(q)])}}

\* Of the two names of one file a transaction owns just the final one.
Straddled == \E p \in Parts : /\ data[p] = "both"
                              /\ <<"partial", p>> \notin Owned /\ <<"final", p>> \in Owned

NextChain ==
    /\ At("next") /\ run = "chains"
    /\ IF todo = {} THEN run' = "temporaries" /\ UNCHANGED <<cur, src, plan, todo, found, pc>>
       ELSE LET t == Min(todo) IN
            /\ cur' = t /\ plan' = <<chain[t][1]>> /\ src' = chain[t][1].source
            /\ todo' = todo \ {t}
            /\ pc' = IF Len(chain[t]) < 3 THEN "lease" ELSE "recheck"
            /\ UNCHANGED <<run, found>>
    /\ UNCHANGED <<rawVars, proof, journalVars, controlVars, pending, restarts>>

\* Parts with a manifest the writer was still publishing: <name>.manifest.json.partial.
\* (A temporary of recovery's own has another name and is not looked for.)
WriterTemporaries ==
    {p \in Parts : art[ManifestOf(p)] \in {"temp", "both"} /\ val[ManifestOf(p)].by = 0}

\* _load_bound_manifest_temporary: the bytes parse and the data they bind is there.
Loads(p) == ManifestOf(p) \notin torn /\ DataExact(<<p, val[ManifestOf(p)].of>>)

\* _settle_manifest_temporaries, one temporary: a manifest that has no final name yet
\* is published, the temporary name of one that has is removed.
SettleTemporaryConflicting ==
    /\ At("next") /\ run = "temporaries" /\ WriterTemporaries # {}
    /\ LET p == Min(WriterTemporaries) IN
       IF Loads(p) /\ art[ManifestOf(p)] = "temp" THEN run' = "naming" /\ SyncRaw
       ELSE run' = "blocked" /\ UNCHANGED rawVars
    /\ UNCHANGED <<pc, cur, workVars, proof, restarts, journalVars, controlVars>>
SettleTemporary ==
    /\ At("next") /\ run = "temporaries" /\ WriterTemporaries # {}
    /\ LET p == Min(WriterTemporaries) IN
       CASE ~Loads(p) -> run' = "blocked" /\ UNCHANGED rawVars
         [] Loads(p) /\ art[ManifestOf(p)] = "temp" -> run' = "naming" /\ SyncRaw
         [] OTHER -> run' = "syncing" /\ SetArt(ManifestOf(p), "final") /\ UNCHANGED val
    /\ UNCHANGED <<pc, cur, workVars, proof, restarts, journalVars, controlVars>>

PublishTemporary ==
    /\ At("next") /\ run = "naming" /\ run' = "syncing"
    /\ \E linked \in Hardlinks : SetArt(ManifestOf(Min(WriterTemporaries)), Published(linked))
    /\ UNCHANGED <<val, pc, cur, workVars, proof, restarts, journalVars, controlVars>>

SyncTemporary ==
    /\ At("next") /\ run = "syncing" /\ run' = "temporaries" /\ SyncRaw
    /\ UNCHANGED <<pc, cur, workVars, proof, restarts, journalVars, controlVars>>

\* _discover_manifest_only_sources reads every manifest that has its final name, as by
\* now all have.
DiscoverManifests ==
    /\ At("next") /\ run = "temporaries" /\ WriterTemporaries = {}
    /\ IF torn # {}
       THEN run' = "blocked" /\ UNCHANGED found
       ELSE run' = "manifests" /\ found' = ManifestOnly
    /\ UNCHANGED <<rawVars, proof, journalVars, controlVars, pc, cur, src, plan, todo, pending, restarts>>

DiscoverUnbound ==
    /\ At("next") /\ run = "manifests" /\ found = {}
    /\ IF Straddled THEN run' = "blocked" /\ UNCHANGED found
       ELSE run' = "sources" /\ found' = Unbound
    /\ UNCHANGED <<rawVars, proof, journalVars, controlVars, pc, cur, src, plan, todo, pending, restarts>>

\* A fresh transaction identity for the next source.
NextSource ==
    /\ At("next") /\ run \in {"manifests", "sources"} /\ found # {} /\ Journal # Txs
    /\ src' = CHOOSE s \in found : s[2] = Min({f[2] : f \in found})
    /\ found' = found \ {src'}
    /\ cur' = Min(Txs \ Journal)
    /\ plan' = << >> /\ pc' = "lease"
    /\ UNCHANGED <<rawVars, proof, journalVars, controlVars, run, todo, pending, restarts>>

\* SourceLease.exclusive: the directory is synced when the lease file is new.
TakeLease(p, here, sync, next) ==
    \/ At(here) /\ p \in lease /\ Goto(next) /\ UNCHANGED rawVars
    \/ /\ At(here) /\ p \notin lease /\ Goto(sync)
       /\ lease' = lease \cup {p}
       /\ UNCHANGED <<data, dataImg, bytes, art, artImg, val, leaseDisk>>
    \/ At(sync) /\ SyncRaw /\ Goto(next)

SourceLease ==
    /\ TakeLease(src[2], "lease", "leasesync", IF plan = << >> THEN "plan" ELSE "lease2")
    /\ UNCHANGED <<journalVars, controlVars>>

\* The recovered part gets a lease of its own.
DestinationLease ==
    LET next == CASE Facts = 0 -> "fact" [] Facts = 1 -> "plan" [] OTHER -> "verify" IN
    /\ plan # << >>
    /\ IF Present(intent.data) /\ intent.data[1] # src[2]
       THEN TakeLease(intent.data[1], "lease2", "lease2sync", next)
       ELSE At("lease2") /\ Goto(next) /\ UNCHANGED rawVars
    /\ UNCHANGED <<journalVars, controlVars>>
-----------------------------------------------------------------------------
(* The plan for a source *)

\* _next_recovery_sequence
NextSequence ==
    1 + Max({p \in Parts : data[p] # "absent" \/ Named(art[ManifestOf(p)]) \/ p \in lease})

\* _verify_cleanup_source: the data is gone and the proof is the recorded one.
CleanupProved(i) ==
    /\ Named(art[i.man[1]]) /\ i.man[1] \notin torn /\ val[i.man[1]] = i.man[2]
    /\ ~Named(data[i.source[2]]) /\ i.proof = <<proof[i.source[2]]>>

ManifestFound(p) == IF Named(art[ManifestOf(p)]) THEN <<val[ManifestOf(p)]>> ELSE << >>

\* The plan for the source as it is now, << >> when there can be none.
PlanNow(next) ==
    LET p == src[2]
        b == bytes[p]
        manifest == ManifestFound(p)
    IN  CASE src[1] = "final" /\ ~Named(data[p]) ->
               IF proof[p] = "none" \/ manifest = << >> \/ ManifestOf(p) \in torn THEN << >>
               ELSE <<PlanMissing(cur, p, manifest[1], proof[p])>>
          [] src[1] = "partial" /\ data[p] = "both" ->
               IF b.frames = 0 \/ b.tail > 0 THEN << >>
               ELSE IF manifest # << >> /\ (manifest[1].of # b \/ ManifestOf(p) \in torn) THEN << >>
               ELSE <<PlanCoexistence(cur, src, b, manifest)>>
          [] src[1] = "partial" /\ ~SourcePresent(src) -> << >>
          [] OTHER -> <<PlanSource(cur, src, b, next)>>

PlanFresh ==
    /\ At("plan") /\ Facts = 0
    /\ NextSequence \in Parts
    /\ IF PlanNow(NextSequence) = << >>
       THEN run' = "blocked" /\ UNCHANGED <<pc, plan>>
       ELSE plan' = PlanNow(NextSequence) /\ pc' = "lease2" /\ UNCHANGED run
    /\ UNCHANGED <<rawVars, proof, journalVars, controlVars, cur, src, todo, found, pending, restarts>>

\* _resume_incomplete_source_transaction: the source must still lead to the
\* recorded plan.
PlanResumed ==
    /\ At("plan") /\ Facts = 1
    /\ GotoIf(PlanNow(FrozenSequence(intent)) = plan, "data")
    /\ UNCHANGED <<rawVars, journalVars, controlVars>>
-----------------------------------------------------------------------------
(* _publish_streaming_plan_artifacts *)

NoRange == intent.disposition = "retained" \/ intent.state = "publication_coexistence"

SkipData ==
    /\ At("data")
    /\ \/ intent.disposition = "legitimately_missing" /\ GotoIf(CleanupProved(intent), "verify")
          /\ UNCHANGED rawVars
       \/ NoRange /\ SyncRaw /\ Goto("manifest")
       \/ intent.disposition = "moved_to_quarantine" /\ UNCHANGED rawVars /\ Goto("quarantine")
    /\ UNCHANGED <<journalVars, controlVars>>

\* _prepare_recovered_stream: the partial is allocated, or must be an exact prefix
\* of the valid frames; then it is filled and synced.
PrepareRange(q) ==
    \/ At("data") /\ data[q] = "absent" /\ SetData(q, "short") /\ Goto("data")
    \/ /\ At("data") /\ data[q] \in {"short", "partial"}
       /\ data' = [data EXCEPT ![q] = "partial"]
       /\ dataImg' = [dataImg EXCEPT ![q] = {"partial"}]
       /\ bytes' = [bytes EXCEPT ![q] = intent.data[2]]
       /\ Goto("dataname") /\ UNCHANGED <<art, artImg, val, lease, leaseDisk>>

\* _publish_recovered_stream
PublishStream(q) ==
    \/ At("dataname") /\ Goto("datasync") /\ \E linked \in Hardlinks : SetData(q, Published(linked))
    \/ At("datasync") /\ SyncRaw /\ Goto("data")

\* The final name holds the bytes of the intent already, or it is a conflict.
AcceptRange(q) ==
    /\ At("data") /\ Named(data[q])
    /\ CASE bytes[q] # intent.data[2] -> Block /\ UNCHANGED rawVars
         [] bytes[q] = intent.data[2] /\ data[q] = "both" -> SetData(q, "final") /\ Goto("data")
         [] OTHER -> SyncRaw /\ Goto("manifest")

\* _publish_recovered_range
PublishRange ==
    /\ plan # << >> /\ intent.disposition = "removed" /\ ~NoRange
    /\ LET q == intent.data[1] IN PrepareRange(q) \/ PublishStream(q) \/ AcceptRange(q)
    /\ UNCHANGED <<journalVars, controlVars>>

\* _publish_exact_bytes, _publish_source_range: the temporary, synced, then named
WriteArtifact(a, content, here, name, sync) ==
    \/ /\ At(here) /\ ~Named(art[a])
       /\ SetArt(a, "temp") /\ val' = [val EXCEPT ![a] = content] /\ Goto(name)
    \/ /\ At(name) /\ UNCHANGED val /\ Goto(sync)
       /\ \E linked \in Hardlinks : SetArt(a, Published(linked))
    \/ At(sync) /\ SyncWith({a}) /\ Goto(here)

\* _accept_exact_publication
AcceptArtifact(a, content, here, next) ==
    /\ At(here) /\ Named(art[a])
    /\ CASE val[a] # content \/ a \in torn -> Block /\ UNCHANGED rawVars
         [] val[a] = content /\ a \notin torn /\ art[a] = "both" -> SetArt(a, "final") /\ UNCHANGED val /\ Goto(here)
         [] OTHER -> SyncWith({a}) /\ Goto(next)

PublishArtifact(a, content, here, name, sync, next) ==
    WriteArtifact(a, content, here, name, sync) \/ AcceptArtifact(a, content, here, next)

\* A manifest found beside both names of the data is kept as it is.
PublishManifest ==
    /\ plan # << >> /\ Present(intent.man)
    /\ \/ PublishArtifact(intent.man[1], intent.man[2], "manifest", "manifestname", "manifestsync",
                          "quarantine")
       \/ /\ At("manifest") /\ intent.state = "publication_coexistence" /\ Named(art[intent.man[1]])
          /\ Goto("quarantine") /\ UNCHANGED rawVars
    /\ UNCHANGED <<journalVars, controlVars>>

PublishQuarantine ==
    /\ plan # << >>
    /\ IF Present(intent.quar)
       THEN PublishArtifact(intent.quar[1], intent.quar[2], "quarantine", "quarantinename",
                            "quarantinesync", "verify")
       ELSE At("quarantine") /\ Goto("verify") /\ UNCHANGED rawVars
    /\ UNCHANGED <<journalVars, controlVars>>

Quarantined == IF Present(intent.quar) THEN {intent.quar[1]} ELSE {}
HeldExactly(pair) ==
    ~Present(pair) \/ (Named(art[pair[1]]) /\ pair[1] \notin torn /\ val[pair[1]] = pair[2])

\* _verify_artifacts_durable, before and after the fact that says so
VerifyArtifacts ==
    /\ At("verify")
    /\ LET good == /\ HeldExactly(intent.man) /\ HeldExactly(intent.quar)
                   /\ Present(intent.data) => DataExact(intent.data)
                   /\ intent.disposition = "legitimately_missing" => CleanupProved(intent)
       IN  /\ GotoIf(good, IF Facts = 1 THEN "fact" ELSE "settle")
           /\ IF good THEN SyncWith(Quarantined) ELSE UNCHANGED rawVars
    /\ UNCHANGED <<journalVars, controlVars>>

\* The names left when the source's is removed.
WithoutSource(s) ==
    IF data[s[2]] = "both" THEN (IF s[1] = "partial" THEN "final" ELSE "partial") ELSE "absent"

\* _settle_discovered_source
SettleSource ==
    /\ \/ /\ At("settle") /\ intent.disposition = "retained"
          /\ GotoIf(DataExact(intent.data), "fact") /\ SyncRaw
       \/ /\ At("settle") /\ intent.disposition # "retained" /\ ~SourcePresent(src)
          /\ SyncRaw /\ Goto("fact")
       \/ /\ At("settle") /\ intent.disposition # "retained" /\ SourcePresent(src)
          /\ IF bytes[src[2]] = intent.bytes
             THEN SetData(src[2], WithoutSource(src)) /\ Goto("settlesync")
             ELSE Block /\ UNCHANGED rawVars
       \/ At("settlesync") /\ SyncRaw /\ Goto("fact")
    /\ UNCHANGED <<journalVars, controlVars>>

\* The transaction waits for its control event, or is complete.
SettledForgetting ==
    /\ At("settled") /\ pc' = "next"
    /\ UNCHANGED <<rawVars, proof, journalVars, controlVars, run, cur, workVars, restarts>>
Settled ==
    /\ At("settled")
    /\ pending' = IF Facts = 3 THEN pending \cup {cur} ELSE pending \ {cur}
    /\ pc' = "next"
    /\ UNCHANGED <<rawVars, proof, journalVars, controlVars, run, cur, src, plan, todo, found, restarts>>
-----------------------------------------------------------------------------
(* Control events *)

carrier == chain[cur][4].carrier

\* _verify_settled_chain_artifacts: recovered data may be gone if the retention
\* job vouches for it.
ChainHolds ==
    /\ HeldExactly(intent.man) /\ HeldExactly(intent.quar)
    /\ Present(intent.data) => \/ DataExact(intent.data)
                               \/ (~Named(data[intent.data[1]]) /\ proof[intent.data[1]] # "none")
    /\ CASE intent.disposition = "legitimately_missing" -> CleanupProved(intent)
         [] intent.disposition = "retained" -> TRUE
         [] OTHER -> ~SourcePresent(src)

\* _verify_owned_control_carrier
CarrierHolds(k) ==
    /\ ctl[k] = "final" /\ row[k] = {cur}
    /\ cman[k] \in {"nboth", "nfinal", "rboth", "rfinal"} /\ ControlManifest(k) \notin torn

RecheckChain ==
    /\ At("recheck")
    /\ GotoIf(/\ ChainHolds
              /\ Facts = 5 => CarrierHolds(carrier),
              CASE Facts = 3 -> "settled" [] Facts = 4 -> "restore" [] Facts = 5 -> "fact"
                [] OTHER -> "settled")
    /\ IF ChainHolds THEN SyncWith(Quarantined) ELSE UNCHANGED rawVars
    /\ UNCHANGED <<journalVars, controlVars>>

\* service._process_pending_recovery_control and bind_control_ownership: the
\* carrier is the next part of the control stream and must not exist.
Admit ==
    /\ At("next") /\ run = "serving" /\ pending # {}
    /\ cur' = Min(pending) /\ plan' = <<chain[cur'][1]>> /\ src' = chain[cur'][1].source
    /\ NextCarrier \in Carriers
    /\ pc' = "fact"
    /\ UNCHANGED <<rawVars, proof, journalVars, controlVars, run, todo, found, pending, restarts>>

\* The row and its carrier's bytes, written and synced.
FillCarrier ==
    /\ ctl' = [ctl EXCEPT ![carrier] = "partial"]
    /\ ctlImg' = [ctlImg EXCEPT ![carrier] = {"partial"}]
    /\ row' = [row EXCEPT ![carrier] = {cur}]
    /\ UNCHANGED <<cman, cmanImg, soft, torn>>

\* The writer publishes the carrier as it does every part (WriterService, Publication),
\* with hard links (service.py:419), and ends with the last sync of its manifest's names.
WriteCarrier ==
    /\ At("carrier") /\ Goto("carrier")
    /\ \/ ctl[carrier] = "absent" /\ SetCtl(carrier, "short")
       \/ ctl[carrier] = "short" /\ FillCarrier
       \/ ctl[carrier] = "partial" /\ SetCtl(carrier, "both")
       \/ ctl[carrier] = "both" /\ ctlImg[carrier] # {"both"} /\ SyncControl
       \/ ctlImg[carrier] = {"both"} /\ SetCtl(carrier, "final")
       \/ ctl[carrier] = "final" /\ ctlImg[carrier] # {"final"} /\ SyncControl
       \/ /\ ctlImg[carrier] = {"final"} /\ cman[carrier] = "absent"
          /\ SetCman(carrier, "ntorn") /\ UNCHANGED soft
       \/ /\ cman[carrier] = "ntorn" /\ SetCman(carrier, "ntemp")
          /\ soft' = soft \cup {ControlManifest(carrier)}
       \/ /\ cman[carrier] = "ntemp" /\ SetCman(carrier, "nboth")
          /\ soft' = soft \ {ControlManifest(carrier)}
       \/ cman[carrier] = "nboth" /\ cmanImg[carrier] # {"nboth"} /\ SyncControl
       \/ cmanImg[carrier] = {"nboth"} /\ SetCman(carrier, "nfinal") /\ UNCHANGED soft
       \/ cman[carrier] = "nfinal" /\ cmanImg[carrier] # {"nfinal"} /\ SyncControl
    /\ UNCHANGED <<rawVars, journalVars>>

\* acknowledge_control_durable, once the writer has named and synced all of the carrier
AcknowledgeUnsynced ==
    /\ At("carrier") /\ cman[carrier] = "nfinal"
    /\ GotoIf(ChainHolds /\ CarrierHolds(carrier), "fact")
    /\ UNCHANGED <<rawVars, journalVars, controlVars>>
Acknowledge ==
    /\ At("carrier") /\ ctlImg[carrier] = {"final"} /\ cmanImg[carrier] = {"nfinal"}
    /\ GotoIf(ChainHolds /\ CarrierHolds(carrier), "fact")
    /\ UNCHANGED <<rawVars, journalVars, controlVars>>

\* _restore_owned_control_carrier, one publication step at a time: a carrier the
\* writer had begun is finished from the bytes frozen in the ownership fact.
RestoreData ==
    /\ At("restore") /\ cman[carrier] \in {"absent", "rtemp"}
    /\ \/ ctl[carrier] = "absent" /\ SetCtl(carrier, "short") /\ Goto("restore")
       \/ ctl[carrier] = "short" /\ FillCarrier /\ Goto("restore")
       \/ /\ ctl[carrier] = "partial" /\ Goto("restoresync")
          /\ \E linked \in Hardlinks : SetCtl(carrier, Published(linked))
    /\ UNCHANGED <<rawVars, journalVars>>

\* _settle_owned_control_publication_coexistence
SettleCoexistenceUnlessManifest ==
    /\ At("restore") /\ ctl[carrier] = "both" /\ cman[carrier] \in {"nfinal", "rfinal"}
    /\ SetCtl(carrier, "final") /\ Goto("restoresync")
    /\ UNCHANGED <<rawVars, journalVars>>
SettleCoexistence ==
    /\ At("restore") /\ ctl[carrier] = "both"
    /\ SetCtl(carrier, "final") /\ Goto("restoresync")
    /\ UNCHANGED <<rawVars, journalVars>>

\* _settle_owned_control_normal_manifest_temporary: a torn one, or one without
\* its exact carrier, stops recovery.
SettleNormalManifest ==
    /\ At("restore") /\ ctl[carrier] # "both" /\ cman[carrier] \in {"ntorn", "ntemp", "nboth"}
    /\ IF cman[carrier] # "ntorn" /\ ControlManifest(carrier) \notin torn /\ ctl[carrier] = "final"
       THEN SetCman(carrier, "nfinal") /\ UNCHANGED soft /\ Goto("restoresync")
       ELSE Block /\ UNCHANGED controlVars
    /\ UNCHANGED <<rawVars, journalVars>>

\* The manifest of recovery: _publish_exact_bytes.  The directory is synced when the
\* temporary has been made, before its bytes are.
RestoreManifest ==
    /\ At("restore") /\ ctl[carrier] = "final"
    /\ \/ /\ cman[carrier] = "absent" /\ Goto("restore")
          /\ cman' = [cman EXCEPT ![carrier] = "rtemp"]
          /\ cmanImg' = [k \in Carriers |-> {cman'[k]}] /\ ctlImg' = [k \in Carriers |-> {ctl[k]}]
          /\ UNCHANGED <<ctl, row, torn>>
       \/ /\ cman[carrier] = "rtemp" /\ Goto("restoresync")
          /\ \E linked \in Hardlinks : SetCman(carrier, IF linked THEN "rboth" ELSE "rfinal")
       \/ cman[carrier] = "rboth" /\ SetCman(carrier, "rfinal") /\ Goto("restoresync")
    /\ UNCHANGED <<rawVars, journalVars, soft>>

RestoreSync ==
    /\ At("restoresync") /\ SyncControl /\ Goto("restore")
    /\ UNCHANGED <<rawVars, journalVars>>

\* A final manifest is accepted beside its exact carrier only; the replay then
\* writes the last two facts (_replay_owned_control_transaction).
AcceptCarrier ==
    /\ At("restore") /\ ctl[carrier] # "both" /\ cman[carrier] \in {"nfinal", "rfinal"}
    /\ SyncControl /\ GotoIf(CarrierHolds(carrier), "fact")
    /\ UNCHANGED <<rawVars, journalVars>>

\* reconcile returns; later every control event has been told.
Advance ==
    /\ At("next")
    /\ \/ run = "sources" /\ found = {} /\ run' = "serving"
       \/ run = "serving" /\ pending = {} /\ run' = "up"
    /\ UNCHANGED <<rawVars, proof, journalVars, controlVars, pc, cur, workVars, restarts>>
-----------------------------------------------------------------------------
(* Faults, and the retention job *)

Begin ==
    /\ restarts < MaxRestarts /\ restarts' = restarts + 1
    /\ run' = "load" /\ pc' = "next" /\ cur' = 1 /\ src' = <<"final", 0>>
    /\ plan' = << >> /\ todo' = {} /\ found' = {} /\ pending' = {}
    /\ UNCHANGED <<bytes, val, proof, row>>

\* The process ends and is started again.
Kill == Begin /\ UNCHANGED <<data, dataImg, art, artImg, lease, leaseDisk, journalVars, ctl, ctlImg, cman, cmanImg, soft, torn>>

\* The states that a power loss may leave of files in the states of now.
Left(now, img) ==
    LET dirty == {x \in DOMAIN now : img[x] # {now[x]}}
    IN  {[x \in DOMAIN now |-> IF x \in dirty THEN f[x] ELSE now[x]] :
           f \in {g \in [dirty -> UNION {img[x] : x \in dirty}] : \A x \in dirty : g[x] \in img[x]}}

\* The machine stops: of every file one of the states its syncs allow is left, and of a
\* manifest whose bytes were not synced perhaps a part.
PowerLoss ==
    /\ Begin
    /\ data' \in Left(data, dataImg) /\ art' \in Left(art, artImg)
    /\ ctl' \in Left(ctl, ctlImg) /\ cman' \in Left(cman, cmanImg)
    /\ \E kept \in [Txs -> 0..6] :
          /\ \A t \in Txs : durable[t] <= kept[t] /\ kept[t] <= Len(chain[t])
          /\ chain' = [t \in Txs |-> SubSeq(chain[t], 1, kept[t])]
    /\ dataImg' = [p \in Parts |-> {data'[p]}] /\ artImg' = [a \in Artifacts |-> {art'[a]}]
    /\ ctlImg' = [k \in Carriers |-> {ctl'[k]}] /\ cmanImg' = [k \in Carriers |-> {cman'[k]}]
    /\ \E kept \in SUBSET lease : leaseDisk \subseteq kept /\ lease' = kept /\ leaseDisk' = kept
    /\ durable' = [t \in Txs |-> Len(chain'[t])]
    /\ \E lost \in SUBSET soft :
          torn' = {m \in torn \cup lost :
                     IF m[1] = "manifest" THEN art'[m] # "absent" ELSE cman'[m[2]] # "absent"}
    /\ soft' = {}

\* The retention job removes a published part and leaves its tombstone.
RemoveData(p) ==
    /\ run = "up" /\ data[p] = "final" /\ artImg[ManifestOf(p)] = {"final"} /\ proof[p] = "none"
    /\ data' = [data EXCEPT ![p] = "absent"] /\ dataImg' = [dataImg EXCEPT ![p] = {"absent"}]
    /\ proof' = [proof EXCEPT ![p] = "tombstone"]
    /\ UNCHANGED <<bytes, art, artImg, val, lease, leaseDisk, journalVars, controlVars, run, pc, cur,
                   workVars, restarts>>
-----------------------------------------------------------------------------
Process ==
    \/ LoadJournal \/ PublishFact \/ SyncFact \/ NextChain
    \/ SettleTemporary \/ PublishTemporary \/ SyncTemporary \/ DiscoverManifests
    \/ DiscoverUnbound \/ NextSource
    \/ SourceLease \/ DestinationLease \/ PlanFresh \/ PlanResumed
    \/ SkipData \/ PublishRange \/ PublishManifest \/ PublishQuarantine
    \/ VerifyArtifacts \/ SettleSource \/ Settled \/ RecheckChain
    \/ Admit \/ WriteCarrier \/ Acknowledge
    \/ RestoreData \/ SettleCoexistence \/ SettleNormalManifest \/ RestoreManifest
    \/ RestoreSync \/ AcceptCarrier \/ Advance

Next == Process \/ Kill \/ PowerLoss \/ \E p \in Parts : RemoveData(p)

\* The process runs until it is up, blocked or ended by a fault.
Spec == Init /\ [][Next]_vars /\ WF_vars(Process)
-----------------------------------------------------------------------------
(* Properties *)

\* The part an intent is about, and the one it makes.
PartsOf(i) == {i.source[2]} \cup (IF Present(i.data) THEN {i.data[1]} ELSE {})

\* The intent keeps every byte of its source in files that a power loss leaves
\* named: the recovered part with its manifest, and the quarantined rest.
Preserved(i) ==
    LET kept(pair) == IF Present(pair) THEN Size(pair[2]) ELSE 0 IN
    /\ kept(i.data) + kept(i.quar) = Size(i.bytes)
    /\ Present(i.data) => /\ bytes[i.data[1]] = i.data[2] /\ val[i.man[1]] = i.man[2]
                          /\ \A s \in artImg[i.man[1]] : Named(s)
                          /\ \/ \A s \in dataImg[i.data[1]] : Named(s)
                             \/ proof[i.data[1]] # "none"
    /\ Present(i.quar) => val[i.quar[1]] = i.quar[2] /\ \A s \in artImg[i.quar[1]] : Named(s)

\* No byte of any part, left behind or recovered, is ever lost: when a power loss
\* may take a part's last name, either the writer's own manifest names it (it was
\* published, and the retention job's proof is looked for) or the durable facts of
\* a transaction say which files keep its bytes, and those files cannot be taken
\* (recovery.py:4708 unlinks what 4630 copied; any stop may come between).
BytesKept ==
    \A p \in Parts :
        \/ Size(bytes[p]) = 0
        \/ "absent" \notin dataImg[p]
        \/ Named(art[ManifestOf(p)]) /\ val[ManifestOf(p)].by = 0
        \/ \E t \in Journal : p \in PartsOf(chain[t][1]) /\ durable[t] >= 2 /\ Preserved(chain[t][1])

\* Every path has one owner, over any number of starts: two transactions never
\* claim the same file, and a control carrier exists only for the transaction
\* whose durable ownership names it.
OneOwnerEach ==
    /\ ClaimsDisjoint
    /\ \A k \in Carriers :
          \/ ctl[k] = "absent" /\ cman[k] = "absent"
          \/ \E t \in Journal : Len(chain[t]) >= 4 /\ chain[t][4].carrier = k /\ durable[t] >= 4

\* A control event is told once: no two carriers hold it, and the fact that it
\* is durable is written only when no power loss can take its carrier back.
ToldOnce ==
    /\ \A j, k \in Carriers : j # k => row[j] \cap row[k] = {}
    /\ \A t \in Journal :
          Len(chain[t]) >= 5 =>
              LET k == chain[t][4].carrier IN
              row[k] = {t} /\ ctlImg[k] = {"final"} /\ cmanImg[k] \subseteq {"nfinal", "rfinal"}

\* A plan is made, afresh or again after a stop, of what the file holds, however
\* the reads cut it: no content that the file at hand may have is misread by the
\* streaming scan (recovery.py:4822, 5160), so that its prefix and its rest are
\* those of scan_recovery_frames and cover the file without gap or overlap.
StreamingMatches ==
    At("plan") /\ SourcePresent(src) =>
        [frames |-> bytes[src[2]].frames > 0, tail |-> bytes[src[2]].tail > 0] \notin MisreadShapes

\* Data is missing and nothing explains it.
Unexplained ==
    \E p \in Parts : Named(art[ManifestOf(p)]) /\ ~Named(data[p]) /\ proof[p] = "none"

TornCarrierManifest == \E k \in Carriers : cman[k] = "ntorn"

\* The plan was journaled before the names it was made from were synced, and a
\* power loss took one back: the final name of an interrupted publication, or the
\* only name of a file without a byte (stream_file.py:350).
NamesReverted ==
    \E t \in Journal :
        LET i == chain[t][1] IN
        /\ Len(chain[t]) = 1
        /\ \/ i.state = "publication_coexistence" /\ data[i.source[2]] = "partial"
           \/ Size(i.bytes) = 0 /\ data[i.source[2]] = "absent"

\* A start is blocked by data that is missing without an explanation, by a manifest
\* that the writer, of a part or of the control stream, had half written or that no
\* sync had reached when the power went (recovery.py:3592, 3816, 5452), or by a name
\* that a power loss took back under its transaction (4822); no other step of the
\* writer, of an earlier start or of the retention job can stop it.
BlockedForCause ==
    run = "blocked" => Unexplained \/ TornCarrierManifest \/ torn # {} \/ NamesReverted

\* A transaction that has its intent can always be resumed: the plan is not
\* derived again from the names that remain (_resume_incomplete_source_transaction).
IntentResumable == run = "blocked" => ~NamesReverted

SettledFor(p, n) == \E t \in Journal : chain[t][1].source[2] = p /\ durable[t] >= n

\* The parts whose outcome a durable carrier of the control stream shows.
ToldParts ==
    {p \in Parts : \E t \in Journal, k \in Carriers :
        /\ t \in row[k] /\ chain[t][1].source[2] = p /\ ctlImg[k] = {"final"}
        /\ \A s \in cmanImg[k] : s \in {"nboth", "nfinal", "rboth", "rfinal"}}

outcomes == INSTANCE RecoveryOutcomes WITH
    stage <- [p \in Parts |-> IF SettledFor(p, 6) THEN "done"
                              ELSE IF SettledFor(p, 3) THEN "settled" ELSE "open"],
    told <- ToldParts,
    up <- run = "up"

\* Recovery implements RecoveryOutcomes: what is settled, told and done is read
\* off the facts and carriers that no power loss takes back.
ImplementsOutcomes == outcomes!OutcomesSpec

\* Once the faults end, every source that was settled is told and done, unless
\* the start is blocked.
SettledIsFinished ==
    \A p \in Parts : SettledFor(p, 3) ~> (SettledFor(p, 6) \/ run = "blocked")
=============================================================================
