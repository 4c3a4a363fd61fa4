---------------------------- MODULE Publication ----------------------------
(***************************************************************************)
(* Publication of a group of closed raw parts                              *)
(* (src/crypto_collector/storage/raw_writer.py: publish_no_replace,        *)
(* _publish_one, _publish_group) one system call at a time, a process kill *)
(* or a power loss between any two of them, and what startup recovery      *)
(* (recovery.py) first does with the names it finds: it settles manifest   *)
(* temporaries and refuses coexisting names of different files.            *)
(*                                                                         *)
(* Each part has a directory of its own: for its data a partial and a      *)
(* final name, for its manifest a temporary and a final name.  The rows    *)
(* are in the data file and synced when publication starts (the final      *)
(* barrier).  A change of a directory is visible at once and durable after *)
(* an fsync of the directory; a power loss keeps any of the changes since. *)
(***************************************************************************)
EXTENDS Integers, Sequences, FiniteSets, FiniteSetsExt

CONSTANTS Group,       \* number of parts published together
          Foreign,     \* sets of final names that another file may hold
          Fails,       \* subset of BOOLEAN: may a system call fail?
          Renames,     \* subset of BOOLEAN: may recovery use renameat2?
          MaxRestarts  \* bound on process ends followed by a restart

ASSUME PublicationAssumption ==
    /\ Group \in Nat \ {0}
    /\ MaxRestarts \in Nat
    /\ Foreign \subseteq SUBSET {"final", "mfinal"}
    /\ Fails \subseteq BOOLEAN /\ Renames \subseteq BOOLEAN

Parts == 1..Group
Names == {"partial", "final", "mtemp", "mfinal"}
Files == {"none", "data", "man", "foreign"}

VARIABLES
    dir,        \* part -> name -> file, as every process sees it
    disk,       \* part -> name -> file, as of the last fsync
    pend,       \* part -> the changes since, each a function on some names
    body,       \* part -> content of its manifest file
    bodyDisk,   \* part -> its content as of the last fsync of the file
    published,  \* parts whose _publish_one returned
    run,        \* "publishing", "done", "failed", "settling", "recovered", "blocked"
    cur,        \* the part being worked on
    what,       \* "data" or "manifest": what publish_no_replace publishes
    pc,         \* the next system call
    restarts

fsVars == <<dir, disk, pend, body, bodyDisk>>
vars == <<fsVars, published, run, cur, what, pc, restarts>>

\* The directory of an allocated part; other files hold the names in `taken`.
Allocated(taken) ==
    [n \in Names |-> IF n = "partial" THEN "data" ELSE IF n \in taken THEN "foreign" ELSE "none"]

Init ==
    /\ \E taken \in [Parts -> Foreign] : dir = [p \in Parts |-> Allocated(taken[p])]
    /\ disk = dir
    /\ pend = [p \in Parts |-> << >>]
    /\ body = [p \in Parts |-> "empty"] /\ bodyDisk = [p \in Parts |-> "empty"]
    /\ published = {}
    /\ run = "publishing" /\ cur = 1 /\ what = "data" /\ pc = "open"
    /\ restarts = 0
-----------------------------------------------------------------------------
(* The directory *)

Apply(entries, change) ==
    [n \in Names |-> IF n \in DOMAIN change THEN change[n] ELSE entries[n]]

Change(change) ==
    /\ dir' = [dir EXCEPT ![cur] = Apply(@, change)]
    /\ pend' = [pend EXCEPT ![cur] = Append(@, change)]
    /\ UNCHANGED <<disk, body, bodyDisk>>

Fsync ==
    /\ disk' = [disk EXCEPT ![cur] = dir[cur]]
    /\ pend' = [pend EXCEPT ![cur] = << >>]
    /\ UNCHANGED <<dir, body, bodyDisk>>

Bind(name, file) == [n \in {name} |-> file]

\* What a power loss can leave of the directory of p: any of the changes made
\* since the last fsync; the last one that was kept decides a name.
Images(p) ==
    {[n \in Names |-> LET on == {i \in kept : n \in DOMAIN pend[p][i]}
                      IN  IF on = {} THEN disk[p][n] ELSE pend[p][Max(on)][n]] :
        kept \in SUBSET DOMAIN pend[p]}
-----------------------------------------------------------------------------
(* publish_no_replace *)

Source == IF what = "data" THEN "partial" ELSE "mtemp"
Target == IF what = "data" THEN "final" ELSE "mfinal"
File == IF what = "data" THEN "data" ELSE "man"

At(p) == pc = p /\ run \in {"publishing", "settling"}
Goto(p) == pc' = p /\ UNCHANGED <<published, run, cur, what, restarts>>

\* An error ends the process: PUBLICATION_FAILED, the rest of the group is left
\* as it is.
Fail == run' = "failed" /\ UNCHANGED <<published, cur, what, pc, restarts>>

\* RecoveryBlocked: what startup recovery found is refused.
Block == run' = "blocked" /\ UNCHANGED <<published, cur, what, pc, restarts>>

\* os.replace instead of os.link: an existing destination is lost.
LinkReplacing ==
    /\ At("link")
    /\ Change(Bind(Target, File))
    /\ Goto("verify")

\* os.link; EEXIST is not an error yet.
Link ==
    /\ At("link")
    /\ IF dir[cur][Target] = "none" THEN Change(Bind(Target, File)) ELSE UNCHANGED fsVars
    /\ Goto("verify")

\* renameat2(RENAME_NOREPLACE), which recovery tries first; EEXIST leads to the
\* hard link's way out.
Rename ==
    /\ At("link") /\ run = "settling" /\ TRUE \in Renames
    /\ \/ /\ dir[cur][Target] = "none"
          /\ Change([n \in {Source, Target} |-> IF n = Source THEN "none" ELSE File])
          /\ Goto("renamed")
       \/ /\ dir[cur][Target] # "none"
          /\ UNCHANGED fsVars
          /\ Goto("verify")

\* A conflict skips the part, and the group goes on with the next one.
VerifySkipping ==
    /\ At("verify") \/ At("renamed")
    /\ IF dir[cur][Target] = File THEN Goto(IF pc = "verify" THEN "sync" ELSE "sync2")
       ELSE IF run = "settling" \/ cur = Group THEN Fail
       ELSE /\ cur' = cur + 1 /\ what' = "data" /\ pc' = "open"
            /\ UNCHANGED <<published, run, restarts>>
    /\ UNCHANGED fsVars

\* _open_matching_destination: the destination is the source file, or a conflict.
Verify ==
    /\ At("verify") \/ At("renamed")
    /\ IF dir[cur][Target] = File THEN Goto(IF pc = "verify" THEN "sync" ELSE "sync2")
       ELSE IF run = "publishing" THEN Fail ELSE Block
    /\ UNCHANGED fsVars

\* The source is unlinked before the new name is durable.
SyncTargetSkipped == At("sync") /\ UNCHANGED fsVars /\ Goto("unlink")

SyncTarget == At("sync") /\ Fsync /\ Goto("unlink")

Unlink == At("unlink") /\ Change(Bind(Source, "none")) /\ Goto("sync2")

\* The last fsync is left out.
SyncParentSkipped ==
    /\ At("sync2")
    /\ UNCHANGED fsVars
    /\ Goto(IF what = "data" THEN "check" ELSE "closed")

SyncParent ==
    /\ At("sync2")
    /\ Fsync
    /\ Goto(IF what = "data" THEN "check" ELSE "closed")
-----------------------------------------------------------------------------
(* _publish_one *)

\* The manifest is built and published before the data.
OpenManifestFirst ==
    /\ At("open")
    /\ what' = "data" /\ pc' = "create"
    /\ UNCHANGED <<fsVars, published, run, cur, restarts>>

\* _open_bound_readonly_and_close
OpenSource ==
    /\ At("open")
    /\ what' = "data" /\ pc' = "link"
    /\ UNCHANGED <<fsVars, published, run, cur, restarts>>

\* require_path_is_open_inode, then the hash of that file
Check ==
    /\ At("check")
    /\ IF dir[cur]["final"] = "data" THEN Goto("create") ELSE Fail
    /\ UNCHANGED fsVars

\* _atomic_write_and_sync_json_exclusive_open: create, fsync the directory,
\* write, fsync the file.
CreateTemp ==
    /\ At("create")
    /\ dir[cur]["mtemp"] = "none"
    /\ Change(Bind("mtemp", "man"))
    /\ Goto("tempsync")

SyncTemp == At("tempsync") /\ Fsync /\ Goto("write")

Write ==
    /\ At("write")
    /\ body' = [body EXCEPT ![cur] = "full"]
    /\ UNCHANGED <<dir, disk, pend, bodyDisk>>
    /\ Goto("filesync")

\* The manifest file is published without an fsync of its bytes.
SyncFileSkipped ==
    /\ At("filesync")
    /\ UNCHANGED fsVars
    /\ what' = "manifest" /\ pc' = "link"
    /\ UNCHANGED <<published, run, cur, restarts>>

SyncFile ==
    /\ At("filesync")
    /\ bodyDisk' = [bodyDisk EXCEPT ![cur] = body[cur]]
    /\ UNCHANGED <<dir, disk, pend, body>>
    /\ what' = "manifest" /\ pc' = "link"
    /\ UNCHANGED <<published, run, cur, restarts>>

\* An error there: the temporary is unlinked and the directory synced, unless
\* that fails too.
Cleanup ==
    /\ At("cleanup")
    /\ Change(Bind("mtemp", "none"))
    /\ Goto("cleansync")

CleanupSync == At("cleansync") /\ Fsync /\ Fail

\* The part is published; _publish_group goes on.
PartPublished ==
    /\ At("closed") /\ run = "publishing"
    /\ published' = published \cup {cur}
    /\ IF cur < Group THEN /\ cur' = cur + 1 /\ what' = "data" /\ pc' = "open"
                           /\ UNCHANGED run
                      ELSE run' = "done" /\ UNCHANGED <<cur, what, pc>>
    /\ UNCHANGED <<fsVars, restarts>>

\* Any system call may fail; a failed write may have written something.
SystemCallFails ==
    /\ TRUE \in Fails
    /\ run \in {"publishing", "settling"} /\ pc # "closed"
    /\ IF pc \in {"tempsync", "write", "filesync"}
       THEN /\ Goto("cleanup")
            /\ body' = [body EXCEPT ![cur] = IF pc = "write" THEN "torn" ELSE @]
            /\ UNCHANGED <<dir, disk, pend, bodyDisk>>
       ELSE Fail /\ UNCHANGED fsVars
-----------------------------------------------------------------------------
(* The end of the process and startup recovery *)

Restart ==
    /\ restarts < MaxRestarts
    /\ restarts' = restarts + 1
    /\ run' = "settling" /\ cur' = 1 /\ what' = "manifest" /\ pc' = "load"
    /\ UNCHANGED published

\* The process is killed, or ends after a failure: what it did stays visible.
Kill == Restart /\ UNCHANGED fsVars

\* The machine stops: changes that were not synced may be lost.
PowerLoss ==
    /\ Restart
    /\ \E images \in [Parts -> UNION {Images(p) : p \in Parts}],
          bodies \in [Parts -> {"empty", "torn", "full"}] :
          /\ \A p \in Parts : /\ images[p] \in Images(p)
                              /\ bodies[p] \in {body[p], bodyDisk[p]}
          /\ dir' = images /\ disk' = images
          /\ body' = bodies /\ bodyDisk' = bodies
    /\ pend' = [p \in Parts |-> << >>]

\* The data is looked for under its partial name.
BoundDataPartial == dir[cur]["partial"] = "data"

\* _artifact_exists_exactly
BoundData == dir[cur]["final"] = "data"

\* The bytes of the temporary are not validated.
LoadTempUnvalidated ==
    /\ At("load")
    /\ UNCHANGED fsVars
    /\ Goto(CASE dir[cur]["mtemp"] = "none" -> "closed"
              [] dir[cur]["mtemp"] # "none" /\ dir[cur]["mfinal"] = "none" -> "presync"
              [] OTHER -> "drop")

\* _settle_manifest_temporaries, one part: the temporary must be a complete
\* manifest of the data under the final name.
LoadTemp ==
    /\ At("load")
    /\ UNCHANGED fsVars
    /\ \/ /\ dir[cur]["mtemp"] = "none"
          /\ Goto("closed")
       \/ /\ dir[cur]["mtemp"] # "none"
          /\ body[cur] # "full" \/ ~BoundData
          /\ Block
       \/ /\ dir[cur]["mtemp"] # "none"
          /\ body[cur] = "full" /\ BoundData
          /\ Goto(IF dir[cur]["mfinal"] = "none" THEN "presync" ELSE "drop")

\* fsync of the data's directory, then publish_no_replace
PreSync == At("presync") /\ Fsync /\ Goto("link")

\* _remove_exact_manifest_temporary, when the final manifest has the same bytes
DropTemp ==
    /\ At("drop")
    /\ IF dir[cur]["mfinal"] = "man"
       THEN Change(Bind("mtemp", "none")) /\ Goto("dropsync")
       ELSE Block /\ UNCHANGED fsVars

DropSync == At("dropsync") /\ Fsync /\ Goto("closed")

\* _discover_manifest_only_sources refuses a final manifest it cannot parse,
\* _discover_unbound_raw_sources two names of different files.
Refused(p) ==
    \/ dir[p]["mfinal"] = "foreign"
    \/ dir[p]["mfinal"] = "man" /\ body[p] # "full"
    \/ dir[p]["partial"] = "data" /\ dir[p]["final"] = "foreign"

\* The next temporary; after the last one the names of all parts are looked at.
PartSettled ==
    /\ At("closed") /\ run = "settling"
    /\ UNCHANGED fsVars
    /\ \/ /\ cur < Group
          /\ cur' = cur + 1 /\ pc' = "load"
          /\ UNCHANGED <<published, run, what, restarts>>
       \/ /\ cur = Group
          /\ run' = IF \E p \in Parts : Refused(p) THEN "blocked" ELSE "recovered"
          /\ UNCHANGED <<published, cur, what, pc, restarts>>

Next ==
    \/ OpenSource \/ Link \/ Rename \/ Verify \/ SyncTarget \/ Unlink \/ SyncParent
    \/ Check \/ CreateTemp \/ SyncTemp \/ Write \/ SyncFile \/ PartPublished
    \/ SystemCallFails \/ Cleanup \/ CleanupSync
    \/ Kill \/ PowerLoss
    \/ LoadTemp \/ PreSync \/ DropTemp \/ DropSync \/ PartSettled

Spec == Init /\ [][Next]_vars
-----------------------------------------------------------------------------
(* Properties *)

\* Every system call belongs to the part being worked on: while a group is
\* published the other parts have no unsynced change.
TypeOK ==
    /\ dir \in [Parts -> [Names -> Files]] /\ disk \in [Parts -> [Names -> Files]]
    /\ \A p \in Parts : body[p] \in {"empty", "torn", "full"} /\ bodyDisk[p] \in {"empty", "torn", "full"}
    /\ published \subseteq Parts /\ cur \in Parts
    /\ what \in {"data", "manifest"}
    /\ run \in {"publishing", "done", "failed", "settling", "recovered", "blocked"}
    /\ run = "publishing" => \A p \in Parts \ {cur} : pend[p] = << >>

\* Whenever the machine stops, the accepted rows are still under a name: the
\* partial or the final one, or both.
DataAlwaysNamed ==
    \A p \in Parts : \A image \in Images(p) \cup {dir[p]} :
       "data" \in {image["partial"], image["final"]}

\* A manifest under its final name, seen by a reader or left by a power loss,
\* vouches for data that is under its final name and no other.
ManifestVouches ==
    \A p \in Parts : \A image \in Images(p) \cup {dir[p]} :
       image["mfinal"] = "man" => image["final"] = "data" /\ image["partial"] = "none"

\* A manifest gets its final name only with all its bytes, whether the writer or,
\* after a restart, recovery publishes it.
ManifestAppearsComplete ==
    \A p \in Parts : dir[p]["mfinal"] # "man" /\ dir'[p]["mfinal"] = "man"
                       => body'[p] = "full"

\* The bytes of a manifest under its final name are durable: the temporary was
\* synced before it was published.
ManifestSynced == \A p \in Parts : dir[p]["mfinal"] = "man" => bodyDisk[p] = "full"

\* A part that _publish_one returned keeps both final names, and no other, and
\* its manifest through every later kill and power loss.
PublishedDurable ==
    \A p \in published :
       /\ bodyDisk[p] = "full"
       /\ \A image \in Images(p) \cup {dir[p]} :
             image = [n \in Names |-> CASE n = "final" -> "data" [] n = "mfinal" -> "man"
                                         [] OTHER -> "none"]

\* The group is published in order, and a failure stops it: no later part has
\* left its partial name.
GroupInOrder ==
    \A p, q \in Parts : p < q /\ p \notin published =>
       \E taken \in Foreign : dir[q] = Allocated(taken)

\* No final name ever changes the file it names.
NothingReplaced ==
    \A p \in Parts : \A n \in {"final", "mfinal"} :
       dir[p][n] # "none" => dir'[p][n] \in {dir[p][n], "none"}

\* Startup is refused only for a foreign file or for a manifest that was not
\* written completely when the process or the machine stopped.
BlockedForCause ==
    run = "blocked" =>
       \E p \in Parts : \/ "foreign" \in {dir[p]["final"], dir[p]["mfinal"]}
                        \/ "man" \in {dir[p]["mtemp"], dir[p]["mfinal"]} /\ body[p] # "full"

\* Whatever an interrupted publication left, startup recovery gets past it and
\* brings each generation to one outcome.
ResidueReconcilable == run # "blocked"

\* Every point at which a publication can be left is sound: what was published
\* is complete and durable, what comes later in the group is untouched, and a
\* start is refused for cause only.
PublicationSound == TypeOK /\ PublishedDurable /\ GroupInOrder /\ BlockedForCause

\* A final name, once given, keeps its file, and a manifest gets it complete.
FinalNamesKept == [][NothingReplaced /\ ManifestAppearsComplete]_vars
=============================================================================
