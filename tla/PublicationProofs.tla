------------------------- MODULE PublicationProofs -------------------------
(***************************************************************************)
(* Proofs about the publication of a group, for groups of any size, any    *)
(* foreign files, any failures and any number of kills and power losses.   *)
(*                                                                         *)
(* What a power loss may leave under a name is what the disk has or what   *)
(* some unsynced change wrote (CanBe).  The invariant bounds the two per   *)
(* part (PartInv): a final name is only ever given, so every unsynced      *)
(* change of it agrees with what is seen; the partial name goes only when  *)
(* the final one is durable; and a manifest, whole or temporary, exists    *)
(* only once the data is durable under its final name alone.  Order says   *)
(* which parts may be in the making at all, Stage what each system call    *)
(* can rely on.                                                            *)
(***************************************************************************)
EXTENDS Publication, FiniteSets, FiniteSetsExt, FiniteSetTheorems, WellFoundedInduction, TLAPS

-----------------------------------------------------------------------------
(* Numbers *)

\* Every set of numbers that has one has a least one.
LEMMA LeastNumber ==
    ASSUME NEW T, T \subseteq Nat, T # {}
    PROVE  \E x \in T : \A y \in T : x <= y
<1> DEFINE R == {ss \in Nat \X Nat : ss[1] < ss[2]}
<1>1. IsWellFoundedOn(R, Nat)
  BY NatLessThanWellFounded DEF OpToRel
<1>2. PICK x \in T : \A y \in T : <<y, x>> \notin R
  <2> HIDE DEF R
  <2> QED
    BY <1>1, WFMin
<1>3. ASSUME NEW y \in T PROVE x <= y
  <2>1. x \in Nat /\ y \in Nat /\ <<y, x>> \notin R
    BY <1>2
  <2> QED
    BY <2>1
<1> QED
  BY <1>3
-----------------------------------------------------------------------------

Changes == UNION {[S -> Files] : S \in SUBSET Names}
Bodies == {"empty", "torn", "full"}

Types ==
    /\ dir \in [Parts -> [Names -> Files]] /\ disk \in [Parts -> [Names -> Files]]
    /\ pend \in [Parts -> Seq(Changes)]
    /\ body \in [Parts -> Bodies] /\ bodyDisk \in [Parts -> Bodies]
    /\ published \subseteq Parts /\ cur \in Parts
    /\ what \in {"data", "manifest"}
    /\ run \in {"publishing", "done", "failed", "settling", "recovered", "blocked"}

\* The files that unsynced changes gave the name n.
Writes(p, n) == {pend[p][i][n] : i \in {j \in DOMAIN pend[p] : n \in DOMAIN pend[p][j]}}

\* The data is durable under its final name and no other.
DataSettled(p) == disk[p]["final"] = "data" /\ disk[p]["partial"] = "none"

PartInv(p) ==
    /\ dir[p]["partial"] \in {"data", "none"} /\ dir[p]["final"] \in {"none", "data", "foreign"}
    /\ dir[p]["mtemp"] \in {"none", "man"} /\ dir[p]["mfinal"] \in {"none", "man", "foreign"}
    /\ \A n \in {"final", "mfinal"} : Writes(p, n) \subseteq {dir[p][n]} \ {"none"} /\ disk[p][n] \in {"none", dir[p][n]}
    /\ Writes(p, "partial") \subseteq {"none"} /\ Writes(p, "partial") \subseteq {dir[p]["partial"]}
    /\ disk[p]["partial"] \in {"data", dir[p]["partial"]}
    /\ Writes(p, "mtemp") \subseteq {"none", "man"} /\ disk[p]["mtemp"] \in {"none", "man"}
    /\ dir[p]["partial"] = "none" => disk[p]["final"] = "data"
    /\ "man" \in {dir[p]["mtemp"], disk[p]["mtemp"], dir[p]["mfinal"]} \cup Writes(p, "mtemp")
         => DataSettled(p)

Clean(p) == dir[p] = disk[p] /\ pend[p] = << >>
Untouched(p) ==
    /\ Clean(p) /\ body[p] = "empty" /\ bodyDisk[p] = "empty"
    /\ \E taken \in Foreign : dir[p] = Allocated(taken)
Complete(p) ==
    /\ Clean(p) /\ body[p] = "full" /\ bodyDisk[p] = "full"
    /\ dir[p] = [n \in Names |-> CASE n = "final" -> "data" [] n = "mfinal" -> "man" [] OTHER -> "none"]

\* A published part is complete; after the first part that is not, none is touched.
Order ==
    /\ \A p \in published : Complete(p)
    /\ \A p, q \in Parts : p < q /\ p \notin published => Untouched(q)

\* The part being worked on is the first one that is not published.
Active == cur \notin published /\ \A p \in Parts : p < cur => p \in published

PublishingData == {"open", "link", "verify", "sync", "unlink", "sync2", "check", "create", "tempsync",
                   "write", "filesync", "cleanup", "cleansync"}
PublishingManifest == {"link", "verify", "sync", "unlink", "sync2", "closed"}
Settling == {"load", "presync", "drop", "dropsync", "link", "verify", "renamed", "sync", "unlink",
             "sync2", "closed"}

\* What the next system call relies on.
Stage ==
    /\ run = "publishing" =>
          /\ Active
          /\ what = "data" => pc \in PublishingData
          /\ what = "manifest" => pc \in PublishingManifest /\ body[cur] = "full" /\ bodyDisk[cur] = "full"
    /\ run = "settling" =>
          /\ what = "manifest" /\ pc \in Settling
          /\ pc \notin {"load", "closed"} => Active
    /\ run \in {"publishing", "settling"} =>
          /\ pc \in {"verify", "drop"} => dir[cur][Target] # "none"
          /\ pc = "sync" => dir[cur][Target] = File
          /\ pc = "unlink" => disk[cur][Target] = File
          /\ pc \in {"renamed", "sync2"} => dir[cur][Target] = File /\ dir[cur][Source] = "none"
          /\ pc \in {"check", "create"} => DataSettled(cur)
          /\ pc \in {"tempsync", "write", "filesync", "presync"} => dir[cur]["mtemp"] = "man"
          /\ pc \in {"filesync", "presync"} => body[cur] = "full"
          /\ pc = "link" /\ what = "manifest" => dir[cur]["mtemp"] = "man" /\ body[cur] = "full"
          /\ pc = "closed" /\ run = "publishing" => Complete(cur)

IInv == Types /\ (\A p \in Parts : PartInv(p)) /\ Order /\ Stage /\ BlockedForCause
-----------------------------------------------------------------------------
(* What a power loss can leave *)

LEMMA MaxFacts ==
    ASSUME NEW k \in Nat, NEW S, S \subseteq 1 .. k, S # {}
    PROVE  Max(S) \in S
<1> DEFINE T == {k - x : x \in S}
<1>1. T \subseteq Nat /\ T # {}
  <2>1. ASSUME NEW x \in S PROVE k - x \in Nat
    <3>1. x \in 1 .. k
      OBVIOUS
    <3> QED
      BY <3>1
  <2> QED
    BY <2>1
<1>2. PICK t \in T : \A y \in T : t <= y
  <2> HIDE DEF T
  <2> QED
    BY <1>1, LeastNumber
<1>3. PICK m \in S : t = k - m
  OBVIOUS
<1>4. ASSUME NEW y \in S PROVE m >= y
  <2>1. k - m <= k - y
    BY <1>2, <1>3
  <2> QED
    BY <2>1
<1> QED
  BY <1>4 DEF Max

\* A name has in an image what the disk or an unsynced change gave it.
LEMMA ImageFacts ==
    ASSUME Types, NEW p \in Parts, NEW image \in Images(p)
    PROVE  /\ image \in [Names -> Files]
           /\ \A n \in Names : image[n] = disk[p][n] \/ image[n] \in Writes(p, n)
           /\ pend[p] = << >> => image = disk[p]
<1>0. pend[p] \in Seq(Changes) /\ disk[p] \in [Names -> Files]
  BY DEF Types
<1>1. PICK kept \in SUBSET DOMAIN pend[p] :
         image = [n \in Names |-> LET on == {i \in kept : n \in DOMAIN pend[p][i]}
                                  IN  IF on = {} THEN disk[p][n] ELSE pend[p][Max(on)][n]]
  BY DEF Images
<1>2. ASSUME NEW n \in Names
      PROVE  image[n] = disk[p][n] \/ (image[n] \in Writes(p, n) /\ image[n] \in Files /\ pend[p] # << >>)
  <2> DEFINE on == {i \in kept : n \in DOMAIN pend[p][i]}
  <2>0. image[n] = IF on = {} THEN disk[p][n] ELSE pend[p][Max(on)][n]
    BY <1>1
  <2>1. CASE on = {}
    BY <2>0, <2>1
  <2>2. CASE on # {}
    <3>1. Len(pend[p]) \in Nat /\ DOMAIN pend[p] = 1 .. Len(pend[p])
      BY <1>0
    <3>2. Max(on) \in on
      BY <2>2, <3>1, MaxFacts
    <3>3. image[n] = pend[p][Max(on)][n]
      BY <2>0, <2>2
    <3>4. PICK m \in DOMAIN pend[p] : m = Max(on) /\ n \in DOMAIN pend[p][m]
      BY <3>2
    <3>5. pend[p][m] \in Changes
      BY <1>0
    <3>6. PICK D \in SUBSET Names : pend[p][m] \in [D -> Files]
      BY <3>5 DEF Changes
    <3>7. image[n] \in Files
      BY <3>3, <3>4, <3>6
    <3> HIDE DEF on
    <3> QED
      BY <1>0, <3>3, <3>4, <3>7 DEF Writes
  <2> QED
    BY <2>1, <2>2
<1>3. \A n \in Names : image[n] \in Files
  BY <1>0, <1>2
<1>4. image \in [Names -> Files]
  BY <1>1, <1>3
<1>5. pend[p] = << >> => image = disk[p]
  BY <1>0, <1>2, <1>4
<1> QED
  BY <1>2, <1>4, <1>5

\* What the invariant of a part says of its images.
LEMMA ImagePart ==
    ASSUME Types, NEW p \in Parts, PartInv(p), NEW image \in Images(p) \cup {dir[p]}
    PROVE  /\ image["partial"] \in {"data", "none"} /\ image["final"] \in {"none", dir[p]["final"]}
           /\ image["mtemp"] \in {"none", "man"} /\ image["mfinal"] \in {"none", dir[p]["mfinal"]}
           /\ image["partial"] = "none" => image["final"] = "data"
           /\ "man" \in {image["mtemp"], image["mfinal"]}
                => image["final"] = "data" /\ image["partial"] = "none"
<1>1. CASE image = dir[p]
  BY <1>1 DEF PartInv, DataSettled
<1>2. CASE image \in Images(p)
  <2>1. \A n \in Names : image[n] = disk[p][n] \/ image[n] \in Writes(p, n)
    BY <1>2, ImageFacts
  <2>2. /\ image["partial"] = disk[p]["partial"] \/ image["partial"] \in Writes(p, "partial")
        /\ image["final"] = disk[p]["final"] \/ image["final"] \in Writes(p, "final")
        /\ image["mtemp"] = disk[p]["mtemp"] \/ image["mtemp"] \in Writes(p, "mtemp")
        /\ image["mfinal"] = disk[p]["mfinal"] \/ image["mfinal"] \in Writes(p, "mfinal")
    BY <2>1 DEF Names
  <2>3. /\ image["final"] \in {"none", dir[p]["final"]} /\ image["mfinal"] \in {"none", dir[p]["mfinal"]}
        /\ image["partial"] \in {"data", "none"} /\ image["mtemp"] \in {"none", "man"}
    BY <2>2 DEF PartInv
  <2>4. image["partial"] = "none" => image["final"] = "data"
    BY <2>2 DEF PartInv
  <2>5. "man" \in {image["mtemp"], image["mfinal"]} => image["final"] = "data" /\ image["partial"] = "none"
    <3>1. "man" \in {image["mtemp"], image["mfinal"]} => DataSettled(p)
      BY <2>2 DEF PartInv
    <3> QED
      BY <2>2, <3>1 DEF PartInv, DataSettled
  <2> QED
    BY <2>3, <2>4, <2>5
<1> QED
  BY <1>1, <1>2
-----------------------------------------------------------------------------
(* Changes and fsyncs of the directory of one part *)

Same(p) ==
    /\ dir'[p] = dir[p] /\ disk'[p] = disk[p] /\ pend'[p] = pend[p]
    /\ body'[p] = body[p] /\ bodyDisk'[p] = bodyDisk[p]

LEMMA SamePart ==
    ASSUME NEW p \in Parts, Same(p)
    PROVE  /\ PartInv(p) => PartInv(p)'
           /\ Untouched(p) => Untouched(p)'
           /\ Complete(p) => Complete(p)'
<1>1. \A n : Writes(p, n)' = Writes(p, n)
  BY DEF Same, Writes
<1>2. PartInv(p) => PartInv(p)'
  BY <1>1 DEF Same, PartInv, DataSettled
<1>3. Untouched(p) => Untouched(p)'
  BY DEF Same, Untouched, Clean
<1>4. Complete(p) => Complete(p)'
  BY DEF Same, Complete, Clean
<1> QED
  BY <1>2, <1>3, <1>4

LEMMA ChangeFacts ==
    ASSUME Types, NEW c \in Changes, NEW p \in Parts, p = cur, Change(c)
    PROVE  /\ dir' \in [Parts -> [Names -> Files]] /\ disk' = disk
           /\ pend' \in [Parts -> Seq(Changes)] /\ body' = body /\ bodyDisk' = bodyDisk
           /\ \A q \in Parts \ {p} : Same(q)
           /\ \A n \in Names : dir'[p][n] = IF n \in DOMAIN c THEN c[n] ELSE dir[p][n]
           /\ \A n \in Names : \A x \in Writes(p, n)' : x \in Writes(p, n) \/ (n \in DOMAIN c /\ x = c[n])
<1>0. /\ dir' = [dir EXCEPT ![p] = Apply(dir[p], c)] /\ pend' = [pend EXCEPT ![p] = Append(pend[p], c)]
      /\ disk' = disk /\ body' = body /\ bodyDisk' = bodyDisk
  BY DEF Change, Types
<1>1. PICK D \in SUBSET Names : c \in [D -> Files]
  BY DEF Changes
<1>2. Apply(dir[p], c) \in [Names -> Files]
  BY <1>1 DEF Apply, Types
<1>3. pend[p] \in Seq(Changes) /\ Append(pend[p], c) \in Seq(Changes)
  BY DEF Types
<1>4. /\ dir' \in [Parts -> [Names -> Files]] /\ dir'[p] = Apply(dir[p], c)
      /\ \A q \in Parts \ {p} : dir'[q] = dir[q]
  BY <1>0, <1>2 DEF Types
<1>5. /\ pend' \in [Parts -> Seq(Changes)] /\ pend'[p] = Append(pend[p], c)
      /\ \A q \in Parts \ {p} : pend'[q] = pend[q]
  BY <1>0, <1>3 DEF Types
<1>6. \A n \in Names : dir'[p][n] = IF n \in DOMAIN c THEN c[n] ELSE dir[p][n]
  BY <1>4 DEF Apply
<1>7. ASSUME NEW n \in Names, NEW x \in Writes(p, n)'
      PROVE  x \in Writes(p, n) \/ (n \in DOMAIN c /\ x = c[n])
  <2>1. PICK i \in DOMAIN pend'[p] : n \in DOMAIN pend'[p][i] /\ x = pend'[p][i][n]
    BY DEF Writes
  <2>2. CASE i = Len(pend[p]) + 1
    <3>1. pend'[p][i] = c
      BY <1>3, <1>5, <2>2
    <3> QED
      BY <2>1, <3>1
  <2>3. CASE i # Len(pend[p]) + 1
    <3>1. i \in DOMAIN pend[p] /\ pend'[p][i] = pend[p][i]
      BY <1>3, <1>5, <2>3
    <3> QED
      BY <2>1, <3>1 DEF Writes
  <2> QED
    BY <2>2, <2>3
<1> QED
  BY <1>0, <1>4, <1>5, <1>6, <1>7 DEF Same

\* A change keeps the invariant of its part when it gives a final name that was
\* free, takes the partial name when the final one is durable, and names a
\* manifest when the data is settled.
LEMMA ChangePart ==
    ASSUME Types, NEW c \in Changes, NEW p \in Parts, p = cur, Change(c), PartInv(p),
           "final" \in DOMAIN c => c["final"] = "data" /\ dir[p]["final"] = "none",
           "mfinal" \in DOMAIN c => c["mfinal"] = "man" /\ dir[p]["mfinal"] = "none" /\ DataSettled(p),
           "partial" \in DOMAIN c => c["partial"] = "none" /\ disk[p]["final"] = "data",
           "mtemp" \in DOMAIN c => c["mtemp"] = "none" \/ (c["mtemp"] = "man" /\ DataSettled(p))
    PROVE  PartInv(p)'
<1>1. /\ disk' = disk
      /\ \A n \in Names : dir'[p][n] = IF n \in DOMAIN c THEN c[n] ELSE dir[p][n]
      /\ \A n \in Names : \A x \in Writes(p, n)' : x \in Writes(p, n) \/ (n \in DOMAIN c /\ x = c[n])
  BY ChangeFacts
<1> DEFINE W(n) == Writes(p, n)
<1>2. ASSUME NEW n \in Names
      PROVE  /\ n \in DOMAIN c => dir'[p][n] = c[n] /\ Writes(p, n)' \subseteq W(n) \cup {c[n]}
             /\ n \notin DOMAIN c => dir'[p][n] = dir[p][n] /\ Writes(p, n)' \subseteq W(n)
  BY <1>1
<1>3. {"partial", "final", "mtemp", "mfinal"} \subseteq Names
  BY DEF Names
<1>4. /\ dir'[p]["final"] \in {"none", "data", "foreign"} /\ Writes(p, "final")' \subseteq {dir'[p]["final"]} \ {"none"}
      /\ disk'[p]["final"] \in {"none", dir'[p]["final"]}
  <2>1. CASE "final" \in DOMAIN c
    BY <1>1, <1>2, <1>3, <2>1 DEF PartInv
  <2>2. CASE "final" \notin DOMAIN c
    BY <1>1, <1>2, <1>3, <2>2 DEF PartInv
  <2> QED
    BY <2>1, <2>2
<1>5. /\ dir'[p]["mfinal"] \in {"none", "man", "foreign"} /\ Writes(p, "mfinal")' \subseteq {dir'[p]["mfinal"]} \ {"none"}
      /\ disk'[p]["mfinal"] \in {"none", dir'[p]["mfinal"]}
      /\ dir'[p]["mfinal"] = "man" => DataSettled(p)
  <2>1. CASE "mfinal" \in DOMAIN c
    BY <1>1, <1>2, <1>3, <2>1 DEF PartInv
  <2>2. CASE "mfinal" \notin DOMAIN c
    BY <1>1, <1>2, <1>3, <2>2 DEF PartInv
  <2> QED
    BY <2>1, <2>2
<1>6. /\ dir'[p]["partial"] \in {"data", "none"} /\ Writes(p, "partial")' \subseteq {"none"}
      /\ Writes(p, "partial")' \subseteq {dir'[p]["partial"]} /\ disk'[p]["partial"] \in {"data", dir'[p]["partial"]}
      /\ dir'[p]["partial"] = "none" => disk'[p]["final"] = "data"
  <2>1. CASE "partial" \in DOMAIN c
    BY <1>1, <1>2, <1>3, <2>1 DEF PartInv
  <2>2. CASE "partial" \notin DOMAIN c
    BY <1>1, <1>2, <1>3, <2>2 DEF PartInv
  <2> QED
    BY <2>1, <2>2
<1>7. /\ dir'[p]["mtemp"] \in {"none", "man"} /\ Writes(p, "mtemp")' \subseteq {"none", "man"}
      /\ disk'[p]["mtemp"] \in {"none", "man"}
      /\ "man" \in {dir'[p]["mtemp"], disk'[p]["mtemp"]} \cup Writes(p, "mtemp")' => DataSettled(p)
  <2>1. CASE "mtemp" \in DOMAIN c
    BY <1>1, <1>2, <1>3, <2>1 DEF PartInv
  <2>2. CASE "mtemp" \notin DOMAIN c
    BY <1>1, <1>2, <1>3, <2>2 DEF PartInv
  <2> QED
    BY <2>1, <2>2
<1>8. DataSettled(p) => DataSettled(p)'
  BY <1>1 DEF DataSettled
<1> QED
  BY <1>4, <1>5, <1>6, <1>7, <1>8 DEF PartInv

LEMMA FsyncFacts ==
    ASSUME Types, NEW p \in Parts, p = cur, Fsync, PartInv(p)
    PROVE  /\ dir' = dir /\ disk' \in [Parts -> [Names -> Files]]
           /\ pend' \in [Parts -> Seq(Changes)] /\ body' = body /\ bodyDisk' = bodyDisk
           /\ \A q \in Parts \ {p} : Same(q)
           /\ disk'[p] = dir[p] /\ pend'[p] = << >> /\ PartInv(p)'
<1>1. dir[p] \in [Names -> Files] /\ << >> \in Seq(Changes)
  BY DEF Types
<1>2. /\ dir' = dir /\ body' = body /\ bodyDisk' = bodyDisk
      /\ disk' \in [Parts -> [Names -> Files]] /\ disk'[p] = dir[p]
      /\ \A q \in Parts \ {p} : disk'[q] = disk[q]
  BY <1>1 DEF Fsync, Types
<1>3. /\ pend' \in [Parts -> Seq(Changes)] /\ pend'[p] = << >>
      /\ \A q \in Parts \ {p} : pend'[q] = pend[q]
  BY <1>1 DEF Fsync, Types
<1>4. \A n : Writes(p, n)' = {}
  BY <1>3 DEF Writes
<1>5. PartInv(p)'
  BY <1>2, <1>4 DEF PartInv, DataSettled
<1> QED
  BY <1>2, <1>3, <1>5 DEF Same
-----------------------------------------------------------------------------
(* Steps of the process *)

\* A step on the part being worked on.
LEMMA ActiveStep ==
    ASSUME IInv, NEW p \in Parts, p = cur, Active, Types', published' = published,
           \A q \in Parts \ {p} : Same(q), PartInv(p)', Stage', BlockedForCause'
    PROVE  IInv'
<1>1. ASSUME NEW q \in Parts PROVE PartInv(q)'
  <2>1. CASE q = p
    BY <2>1
  <2>2. CASE q # p
    BY <2>2, SamePart DEF IInv
  <2> QED
    BY <2>1, <2>2
<1>2. ASSUME NEW q \in published' PROVE Complete(q)'
  <2>1. q \in Parts \ {p} /\ Complete(q)
    BY DEF IInv, Order, Types, Active
  <2> QED
    BY <2>1, SamePart
<1>3. ASSUME NEW q \in Parts, NEW r \in Parts, q < r, q \notin published' PROVE Untouched(r)'
  <2>1. Untouched(r)
    BY <1>3 DEF IInv, Order
  <2>2. r # p
    BY <1>3 DEF Active
  <2> QED
    BY <2>1, <2>2, SamePart
<1> QED
  BY <1>1, <1>2, <1>3 DEF IInv, Order

\* A step that touches no file.
LEMMA StillStep ==
    ASSUME IInv, UNCHANGED fsVars, UNCHANGED published, Types', Stage', BlockedForCause'
    PROVE  IInv'
<1>0. \A q \in Parts : Same(q)
  BY DEF fsVars, Same
<1>1. \A q \in Parts : PartInv(q)'
  BY <1>0, SamePart DEF IInv
<1>2. ASSUME NEW q \in published' PROVE Complete(q)'
  <2>1. q \in Parts /\ Complete(q)
    BY DEF IInv, Order, Types
  <2> QED
    BY <1>0, <2>1, SamePart
<1>3. ASSUME NEW q \in Parts, NEW r \in Parts, q < r, q \notin published' PROVE Untouched(r)'
  <2>1. Untouched(r)
    BY <1>3 DEF IInv, Order
  <2> QED
    BY <1>0, <2>1, SamePart
<1> QED
  BY <1>1, <1>2, <1>3 DEF IInv, Order

\* A step that ends the work, or stops it.
LEMMA FailStep ==
    ASSUME IInv, Fail, UNCHANGED fsVars
    PROVE  IInv'
<1>1. Types'
  BY DEF IInv, Types, Fail, fsVars
<1>2. Stage' /\ BlockedForCause'
  BY DEF Stage, BlockedForCause, Fail
<1> QED
  BY <1>1, <1>2, StillStep DEF Fail

LEMMA BlockStep ==
    ASSUME IInv, Block, UNCHANGED fsVars, NEW p \in Parts,
           \/ "foreign" \in {dir[p]["final"], dir[p]["mfinal"]}
           \/ "man" \in {dir[p]["mtemp"], dir[p]["mfinal"]} /\ body[p] # "full"
    PROVE  IInv'
<1>1. Types'
  BY DEF IInv, Types, Block, fsVars
<1>2. Stage'
  BY DEF Stage, Block
<1>3. BlockedForCause'
  BY DEF BlockedForCause, fsVars
<1> QED
  BY <1>1, <1>2, <1>3, StillStep DEF Block

LEMMA BindFacts ==
    ASSUME NEW n \in Names, NEW file \in Files
    PROVE  /\ Bind(n, file) \in Changes /\ DOMAIN Bind(n, file) = {n} /\ Bind(n, file)[n] = file
<1>1. Bind(n, file) \in [{n} -> Files] /\ {n} \in SUBSET Names
  BY DEF Bind
<1>2. Bind(n, file) \in Changes
  BY <1>1 DEF Changes
<1> QED
  BY <1>2 DEF Bind

LEMMA NameFacts ==
    /\ Source \in Names /\ Target \in Names /\ File \in Files
    /\ {"none", "data", "man"} \subseteq Files
    /\ what = "data" => Source = "partial" /\ Target = "final" /\ File = "data"
    /\ what # "data" => Source = "mtemp" /\ Target = "mfinal" /\ File = "man"
BY DEF Source, Target, File, Names, Files

\* The part that a running process works on.
LEMMA CurFacts ==
    ASSUME IInv
    PROVE  /\ Types /\ Stage /\ Order /\ cur \in Parts /\ PartInv(cur)
           /\ run = "publishing" \/ (run = "settling" /\ pc \notin {"load", "closed"}) => Active
BY DEF IInv, Types, Stage
-----------------------------------------------------------------------------
(* publish_no_replace *)

LEMMA OpenSourceStep ==
    ASSUME IInv, OpenSource
    PROVE  IInv'
<1>0. Types /\ Stage
  BY CurFacts
<1>1. run = "publishing" /\ UNCHANGED <<dir, disk, pend, body, bodyDisk, published, run, cur, restarts>>
      /\ what' = "data" /\ pc' = "link"
  BY <1>0 DEF OpenSource, At, Stage, Settling, fsVars
<1>2. Types'
  BY <1>0, <1>1 DEF Types
<1>3. Stage'
  BY <1>0, <1>1 DEF Stage, Active, PublishingData
<1>4. BlockedForCause'
  BY <1>1 DEF BlockedForCause
<1> QED
  BY <1>1, <1>2, <1>3, <1>4, StillStep DEF fsVars

LEMMA LinkStep ==
    ASSUME IInv, Link
    PROVE  IInv'
<1>0. Types /\ Stage /\ cur \in Parts /\ PartInv(cur)
  BY CurFacts
<1>1. /\ pc = "link" /\ run \in {"publishing", "settling"} /\ pc' = "verify"
      /\ UNCHANGED <<published, run, cur, what, restarts>>
  BY DEF Link, At, Goto
<1>2. Active /\ (what # "data" => what = "manifest" /\ dir[cur]["mtemp"] = "man")
  BY <1>0, <1>1 DEF Stage, Types
<1>3. Active'
  BY <1>1, <1>2 DEF Active
<1>4. BlockedForCause'
  BY <1>1 DEF BlockedForCause
<1>5. CASE dir[cur][Target] = "none"
  <2> DEFINE c == Bind(Target, File)
  <2>1. Change(c)
    BY <1>5 DEF Link
  <2>2. c \in Changes /\ DOMAIN c = {Target} /\ c[Target] = File
    BY BindFacts, NameFacts
  <2>3. DataSettled(cur) \/ what = "data"
    BY <1>0, <1>2 DEF PartInv
  <2> HIDE DEF c
  <2>4. PICK p \in Parts : p = cur
    BY <1>0
  <2>5. /\ dir' \in [Parts -> [Names -> Files]] /\ disk' = disk
        /\ pend' \in [Parts -> Seq(Changes)] /\ body' = body /\ bodyDisk' = bodyDisk
        /\ \A q \in Parts \ {p} : Same(q)
        /\ \A n \in Names : dir'[p][n] = IF n \in DOMAIN c THEN c[n] ELSE dir[p][n]
    BY <1>0, <2>1, <2>2, <2>4, ChangeFacts
  <2>6. PartInv(p)'
    <3>1. /\ "final" \in DOMAIN c => c["final"] = "data" /\ dir[p]["final"] = "none"
          /\ "mfinal" \in DOMAIN c => c["mfinal"] = "man" /\ dir[p]["mfinal"] = "none" /\ DataSettled(p)
          /\ "partial" \notin DOMAIN c /\ "mtemp" \notin DOMAIN c
      BY <1>5, <2>2, <2>3, <2>4, NameFacts
    <3> QED
      BY <1>0, <2>1, <2>2, <2>4, <3>1, ChangePart
  <2>7. Types'
    BY <1>0, <1>1, <2>5 DEF Types
  <2>8. dir'[p][Target] # "none"
    BY <2>2, <2>5, NameFacts
  <2>9. Stage'
    BY <1>0, <1>1, <1>3, <2>4, <2>5, <2>8
       DEF Stage, Target, PublishingData, PublishingManifest, Settling
  <2> QED
    BY <1>1, <1>2, <1>4, <2>4, <2>5, <2>6, <2>7, <2>9, ActiveStep
<1>6. CASE dir[cur][Target] # "none"
  <2>1. UNCHANGED <<dir, disk, pend, body, bodyDisk>>
    BY <1>6 DEF Link, fsVars
  <2>2. Types'
    BY <1>0, <1>1, <2>1 DEF Types
  <2>3. Stage'
    BY <1>0, <1>1, <1>3, <1>6, <2>1
       DEF Stage, Target, PublishingData, PublishingManifest, Settling
  <2> QED
    BY <1>1, <1>4, <2>1, <2>2, <2>3, StillStep DEF fsVars
<1> QED
  BY <1>5, <1>6

LEMMA RenameStep ==
    ASSUME IInv, Rename
    PROVE  IInv'
<1>0. Types /\ Stage /\ cur \in Parts /\ PartInv(cur)
  BY CurFacts
<1>1. /\ pc = "link" /\ run = "settling" /\ pc' \in {"renamed", "verify"}
      /\ UNCHANGED <<published, run, cur, what, restarts>>
  BY DEF Rename, At, Goto
<1>2. Active /\ what = "manifest" /\ dir[cur]["mtemp"] = "man" /\ Target = "mfinal" /\ Source = "mtemp" /\ File = "man"
  BY <1>0, <1>1 DEF Stage, Target, Source, File
<1>3. Active'
  BY <1>1, <1>2 DEF Active
<1>4. BlockedForCause'
  BY <1>1 DEF BlockedForCause
<1>5. CASE dir[cur]["mfinal"] = "none"
  <2> DEFINE c == [n \in {"mtemp", "mfinal"} |-> IF n = "mtemp" THEN "none" ELSE "man"]
  <2>1. Change(c) /\ pc' = "renamed"
    BY <1>2, <1>5 DEF Rename, Goto
  <2>2. c \in Changes /\ DOMAIN c = {"mtemp", "mfinal"} /\ c["mtemp"] = "none" /\ c["mfinal"] = "man"
    <3>1. c \in [{"mtemp", "mfinal"} -> Files] /\ {"mtemp", "mfinal"} \in SUBSET Names
      BY DEF Files, Names
    <3> QED
      BY <3>1 DEF Changes
  <2> HIDE DEF c
  <2>3. DataSettled(cur)
    BY <1>0, <1>2 DEF PartInv
  <2>4. PICK p \in Parts : p = cur
    BY <1>0
  <2>5. /\ dir' \in [Parts -> [Names -> Files]] /\ disk' = disk
        /\ pend' \in [Parts -> Seq(Changes)] /\ body' = body /\ bodyDisk' = bodyDisk
        /\ \A q \in Parts \ {p} : Same(q)
        /\ \A n \in Names : dir'[p][n] = IF n \in DOMAIN c THEN c[n] ELSE dir[p][n]
    BY <1>0, <2>1, <2>2, <2>4, ChangeFacts
  <2>6. PartInv(p)'
    BY <1>0, <1>5, <2>1, <2>2, <2>3, <2>4, ChangePart
  <2>7. Types'
    BY <1>0, <1>1, <2>5 DEF Types
  <2>8. dir'[p]["mfinal"] = "man" /\ dir'[p]["mtemp"] = "none"
    BY <2>2, <2>5 DEF Names
  <2>9. Stage'
    BY <1>0, <1>1, <1>2, <1>3, <2>1, <2>4, <2>5, <2>8 DEF Stage, Target, Source, File, Settling
  <2> QED
    BY <1>1, <1>2, <1>4, <2>4, <2>5, <2>6, <2>7, <2>9, ActiveStep
<1>6. CASE dir[cur]["mfinal"] # "none"
  <2>1. UNCHANGED <<dir, disk, pend, body, bodyDisk>> /\ pc' = "verify"
    BY <1>2, <1>6 DEF Rename, Goto, fsVars
  <2>2. Types'
    BY <1>0, <1>1, <2>1 DEF Types
  <2>3. Stage'
    BY <1>0, <1>1, <1>2, <1>3, <1>6, <2>1 DEF Stage, Target, Settling
  <2> QED
    BY <1>1, <1>4, <2>1, <2>2, <2>3, StillStep DEF fsVars
<1> QED
  BY <1>5, <1>6

LEMMA VerifyStep ==
    ASSUME IInv, Verify
    PROVE  IInv'
<1>0. Types /\ Stage /\ cur \in Parts /\ PartInv(cur)
  BY CurFacts
<1>1. /\ pc \in {"verify", "renamed"} /\ run \in {"publishing", "settling"}
      /\ UNCHANGED <<dir, disk, pend, body, bodyDisk>>
  BY DEF Verify, At, fsVars
<1>2. Active
  BY <1>0, <1>1 DEF Stage
<1>3. CASE dir[cur][Target] = File
  <2>1. /\ pc' = IF pc = "verify" THEN "sync" ELSE "sync2"
        /\ UNCHANGED <<published, run, cur, what, restarts>>
    BY <1>3 DEF Verify, Goto
  <2>2. Active' /\ BlockedForCause'
    BY <1>1, <1>2, <2>1 DEF Active, BlockedForCause
  <2>3. Types'
    BY <1>0, <1>1, <2>1 DEF Types
  <2>4. Stage'
    BY <1>0, <1>1, <1>3, <2>1, <2>2
       DEF Stage, Target, Source, File, PublishingData, PublishingManifest, Settling
  <2> QED
    BY <1>1, <2>1, <2>2, <2>3, <2>4, StillStep DEF fsVars
<1>4. CASE dir[cur][Target] # File /\ run = "publishing"
  BY <1>1, <1>4, FailStep DEF Verify, fsVars
<1>5. CASE dir[cur][Target] # File /\ run # "publishing"
  <2>1. Block
    BY <1>5 DEF Verify
  <2>2. dir[cur]["mfinal"] = "foreign"
    BY <1>0, <1>1, <1>5 DEF Stage, Target, File, PartInv
  <2> QED
    BY <1>0, <1>1, <2>1, <2>2, BlockStep DEF fsVars
<1> QED
  BY <1>3, <1>4, <1>5

\* An fsync of the directory of the part being worked on, after which the
\* process goes on.
LEMMA FsyncStep ==
    ASSUME IInv, Fsync, Active, UNCHANGED <<published, cur, what, restarts>>, run' # "blocked",
           run' \in {"publishing", "failed", "settling"}, Stage'
    PROVE  IInv'
<1>0. Types /\ cur \in Parts /\ PartInv(cur)
  BY CurFacts
<1>1. PICK p \in Parts : p = cur
  BY <1>0
<1>2. /\ dir' = dir /\ disk' \in [Parts -> [Names -> Files]]
      /\ pend' \in [Parts -> Seq(Changes)] /\ body' = body /\ bodyDisk' = bodyDisk
      /\ \A q \in Parts \ {p} : Same(q)
  BY <1>0, <1>1, FsyncFacts
<1>3. PartInv(p)'
  BY <1>0, <1>1, FsyncFacts
<1>4. Types'
  BY <1>0, <1>2 DEF Types
<1>5. BlockedForCause'
  BY DEF BlockedForCause
<1> QED
  BY <1>1, <1>2, <1>3, <1>4, <1>5, ActiveStep

\* What a directory looks like after an fsync.
LEMMA Fsynced ==
    ASSUME IInv, Fsync
    PROVE  /\ dir' = dir /\ disk'[cur] = dir[cur] /\ pend'[cur] = << >>
           /\ body' = body /\ bodyDisk' = bodyDisk
<1>1. PICK p \in Parts : p = cur
  BY CurFacts
<1> QED
  BY <1>1, CurFacts, FsyncFacts

LEMMA SyncTargetStep ==
    ASSUME IInv, SyncTarget
    PROVE  IInv'
<1>0. Types /\ Stage
  BY CurFacts
<1>1. /\ pc = "sync" /\ run \in {"publishing", "settling"} /\ pc' = "unlink" /\ Fsync
      /\ UNCHANGED <<published, run, cur, what, restarts>>
  BY DEF SyncTarget, At, Goto
<1>2. Active /\ dir[cur][Target] = File
  BY <1>0, <1>1 DEF Stage
<1>3. Active'
  BY <1>1, <1>2 DEF Active
<1>4. dir' = dir /\ disk'[cur] = dir[cur] /\ body' = body /\ bodyDisk' = bodyDisk
  BY <1>1, Fsynced
<1>5. Stage'
  BY <1>0, <1>1, <1>2, <1>3, <1>4
     DEF Stage, Target, File, PublishingData, PublishingManifest, Settling
<1> QED
  BY <1>1, <1>2, <1>5, FsyncStep

LEMMA SyncParentStep ==
    ASSUME IInv, SyncParent
    PROVE  IInv'
<1>0. Types /\ Stage /\ PartInv(cur) /\ cur \in Parts
  BY CurFacts
<1>1. /\ pc = "sync2" /\ run \in {"publishing", "settling"} /\ Fsync
      /\ pc' = IF what = "data" THEN "check" ELSE "closed"
      /\ UNCHANGED <<published, run, cur, what, restarts>>
  BY DEF SyncParent, At, Goto
<1>2. Active /\ dir[cur][Target] = File /\ dir[cur][Source] = "none"
  BY <1>0, <1>1 DEF Stage
<1>3. Active'
  BY <1>1, <1>2 DEF Active
<1>4. /\ dir' = dir /\ disk'[cur] = dir[cur] /\ pend'[cur] = << >>
      /\ body' = body /\ bodyDisk' = bodyDisk
  BY <1>1, Fsynced
<1>5. CASE what = "data"
  <2>1. DataSettled(cur)'
    BY <1>1, <1>2, <1>4, <1>5 DEF DataSettled, Target, Source, File
  <2>2. Stage'
    BY <1>0, <1>1, <1>3, <1>5, <2>1 DEF Stage, PublishingData, Settling
  <2> QED
    BY <1>1, <1>2, <2>2, FsyncStep
<1>6. CASE what # "data"
  <2>1. what = "manifest" /\ Target = "mfinal" /\ Source = "mtemp" /\ File = "man"
    BY <1>0, <1>6 DEF Types, Target, Source, File
  <2>2. dir[cur]["final"] = "data" /\ dir[cur]["partial"] = "none"
    BY <1>0, <1>2, <2>1 DEF PartInv, DataSettled
  <2>3. dir[cur] = [n \in Names |-> CASE n = "final" -> "data" [] n = "mfinal" -> "man" [] OTHER -> "none"]
    <3>1. dir[cur] \in [Names -> Files]
      BY <1>0 DEF Types
    <3>2. \A n \in Names : dir[cur][n] = CASE n = "final" -> "data" [] n = "mfinal" -> "man" [] OTHER -> "none"
      BY <1>2, <2>1, <2>2 DEF Names
    <3> QED
      BY <3>1, <3>2
  <2>4. run = "publishing" => Complete(cur)'
    BY <1>0, <1>1, <1>4, <2>1, <2>3 DEF Complete, Clean, Stage
  <2>5. Stage'
    BY <1>0, <1>1, <1>3, <1>4, <2>1, <2>4 DEF Stage, PublishingManifest, Settling
  <2> QED
    BY <1>1, <1>2, <2>5, FsyncStep
<1> QED
  BY <1>5, <1>6

\* A change of one name of the part being worked on, after which the process
\* goes on.
LEMMA BindStep ==
    ASSUME IInv, Active, NEW n \in Names, NEW file \in Files, Change(Bind(n, file)),
           UNCHANGED <<published, run, cur, what, restarts>>, run \in {"publishing", "settling"},
           n \notin {"final", "mfinal"},
           n = "partial" => file = "none" /\ disk[cur]["final"] = "data",
           n = "mtemp" => file = "none" \/ (file = "man" /\ DataSettled(cur)),
           Stage'
    PROVE  IInv'
<1>0. Types /\ cur \in Parts /\ PartInv(cur)
  BY CurFacts
<1> DEFINE c == Bind(n, file)
<1>1. c \in Changes /\ DOMAIN c = {n} /\ c[n] = file /\ Change(c)
  BY BindFacts
<1> HIDE DEF c
<1>2. PICK p \in Parts : p = cur
  BY <1>0
<1>3. /\ dir' \in [Parts -> [Names -> Files]] /\ disk' = disk
      /\ pend' \in [Parts -> Seq(Changes)] /\ body' = body /\ bodyDisk' = bodyDisk
      /\ \A q \in Parts \ {p} : Same(q)
  BY <1>0, <1>1, <1>2, ChangeFacts
<1>4. PartInv(p)'
  BY <1>0, <1>1, <1>2, ChangePart
<1>5. Types'
  BY <1>0, <1>3 DEF Types
<1>6. BlockedForCause'
  BY DEF BlockedForCause
<1> QED
  BY <1>2, <1>3, <1>4, <1>5, <1>6, ActiveStep

LEMMA Bound ==
    ASSUME IInv, NEW n \in Names, NEW file \in Files, Change(Bind(n, file))
    PROVE  /\ disk' = disk /\ body' = body /\ bodyDisk' = bodyDisk /\ dir'[cur][n] = file
           /\ \A m \in Names \ {n} : dir'[cur][m] = dir[cur][m]
<1> DEFINE c == Bind(n, file)
<1>1. c \in Changes /\ DOMAIN c = {n} /\ c[n] = file /\ Change(c)
  BY BindFacts
<1> HIDE DEF c
<1>2. PICK p \in Parts : p = cur
  BY CurFacts
<1>3. /\ disk' = disk /\ body' = body /\ bodyDisk' = bodyDisk
      /\ \A m \in Names : dir'[p][m] = IF m \in DOMAIN c THEN c[m] ELSE dir[p][m]
  BY <1>1, <1>2, ChangeFacts, CurFacts
<1> QED
  BY <1>1, <1>2, <1>3

LEMMA UnlinkStep ==
    ASSUME IInv, Unlink
    PROVE  IInv'
<1>0. Types /\ Stage /\ PartInv(cur) /\ cur \in Parts
  BY CurFacts
<1>1. /\ pc = "unlink" /\ run \in {"publishing", "settling"} /\ pc' = "sync2"
      /\ UNCHANGED <<published, run, cur, what, restarts>> /\ Change(Bind(Source, "none"))
  BY DEF Unlink, At, Goto
<1>2. Active /\ disk[cur][Target] = File
  BY <1>0, <1>1 DEF Stage
<1>3. Active'
  BY <1>1, <1>2 DEF Active
<1>4. /\ disk' = disk /\ body' = body /\ bodyDisk' = bodyDisk /\ dir'[cur][Source] = "none"
      /\ \A m \in Names \ {Source} : dir'[cur][m] = dir[cur][m]
  BY <1>1, Bound, NameFacts
<1>5. dir'[cur][Target] = File
  <2>1. dir[cur][Target] = File
    BY <1>0, <1>2 DEF PartInv, Target, File
  <2> QED
    BY <1>4, <2>1 DEF Target, Source, Names
<1>6. Stage'
  BY <1>0, <1>1, <1>3, <1>4, <1>5
     DEF Stage, Target, Source, File, PublishingData, PublishingManifest, Settling
<1>7. /\ Source \notin {"final", "mfinal"}
      /\ Source = "partial" => disk[cur]["final"] = "data"
  BY <1>2 DEF Source, Target, File
<1> QED
  BY <1>1, <1>2, <1>6, <1>7, BindStep, NameFacts
-----------------------------------------------------------------------------
(* _publish_one *)

LEMMA CheckStep ==
    ASSUME IInv, Check
    PROVE  IInv'
<1>0. Types /\ Stage
  BY CurFacts
<1>1. pc = "check" /\ run \in {"publishing", "settling"} /\ UNCHANGED <<dir, disk, pend, body, bodyDisk>>
  BY DEF Check, At, fsVars
<1>2. CASE dir[cur]["final"] = "data"
  <2>1. pc' = "create" /\ UNCHANGED <<published, run, cur, what, restarts>>
    BY <1>2 DEF Check, Goto
  <2>2. Types' /\ BlockedForCause'
    BY <1>0, <1>1, <2>1 DEF Types, BlockedForCause
  <2>3. Stage'
    BY <1>0, <1>1, <2>1 DEF Stage, Active, DataSettled, PublishingData, PublishingManifest, Settling
  <2> QED
    BY <1>1, <2>1, <2>2, <2>3, StillStep DEF fsVars
<1>3. CASE dir[cur]["final"] # "data"
  BY <1>1, <1>3, FailStep DEF Check
<1> QED
  BY <1>2, <1>3

LEMMA CreateTempStep ==
    ASSUME IInv, CreateTemp
    PROVE  IInv'
<1>0. Types /\ Stage
  BY CurFacts
<1>1. /\ pc = "create" /\ run \in {"publishing", "settling"} /\ pc' = "tempsync"
      /\ UNCHANGED <<published, run, cur, what, restarts>> /\ Change(Bind("mtemp", "man"))
  BY DEF CreateTemp, At, Goto
<1>2. run = "publishing" /\ Active /\ DataSettled(cur) /\ what = "data"
  BY <1>0, <1>1 DEF Stage, Types, PublishingManifest, Settling
<1>3. Active'
  BY <1>1, <1>2 DEF Active
<1>4. dir'[cur]["mtemp"] = "man"
  BY <1>1, Bound DEF Names, Files
<1>5. Stage'
  BY <1>1, <1>2, <1>3, <1>4 DEF Stage, PublishingData
<1> QED
  BY <1>1, <1>2, <1>5, BindStep DEF Names, Files

LEMMA SyncTempStep ==
    ASSUME IInv, SyncTemp
    PROVE  IInv'
<1>0. Types /\ Stage
  BY CurFacts
<1>1. /\ pc = "tempsync" /\ run \in {"publishing", "settling"} /\ pc' = "write" /\ Fsync
      /\ UNCHANGED <<published, run, cur, what, restarts>>
  BY DEF SyncTemp, At, Goto
<1>2. run = "publishing" /\ Active /\ what = "data" /\ dir[cur]["mtemp"] = "man"
  BY <1>0, <1>1 DEF Stage, Types, PublishingManifest, Settling
<1>3. Active' /\ dir' = dir
  BY <1>1, <1>2, Fsynced DEF Active
<1>4. Stage'
  BY <1>1, <1>2, <1>3 DEF Stage, PublishingData
<1> QED
  BY <1>1, <1>2, <1>4, FsyncStep

\* A step that only writes the manifest file of the part being worked on.
LEMMA BodyStep ==
    ASSUME IInv, Active, UNCHANGED <<dir, disk, pend, published, run, cur, restarts>>,
           run \in {"publishing", "settling"}, what' \in {"data", "manifest"},
           body' \in [Parts -> Bodies], bodyDisk' \in [Parts -> Bodies],
           \A q \in Parts \ {cur} : body'[q] = body[q] /\ bodyDisk'[q] = bodyDisk[q],
           Stage'
    PROVE  IInv'
<1>0. Types /\ cur \in Parts /\ PartInv(cur)
  BY CurFacts
<1>1. PICK p \in Parts : p = cur
  BY <1>0
<1>2. \A q \in Parts \ {p} : Same(q)
  BY <1>1 DEF Same
<1>3. PartInv(p)'
  <2>1. \A n : Writes(p, n)' = Writes(p, n)
    BY DEF Writes
  <2> QED
    BY <1>0, <1>1, <2>1 DEF PartInv, DataSettled
<1>4. Types'
  BY <1>0 DEF Types
<1>5. BlockedForCause'
  BY DEF BlockedForCause
<1> QED
  BY <1>1, <1>2, <1>3, <1>4, <1>5, ActiveStep

LEMMA WriteStep ==
    ASSUME IInv, Write
    PROVE  IInv'
<1>0. Types /\ Stage
  BY CurFacts
<1>1. /\ pc = "write" /\ run \in {"publishing", "settling"} /\ pc' = "filesync"
      /\ UNCHANGED <<published, run, cur, what, restarts, dir, disk, pend, bodyDisk>>
      /\ body' = [body EXCEPT ![cur] = "full"]
  BY DEF Write, At, Goto
<1>2. run = "publishing" /\ Active /\ what = "data" /\ dir[cur]["mtemp"] = "man"
  BY <1>0, <1>1 DEF Stage, Types, PublishingManifest, Settling
<1>3. /\ body' \in [Parts -> Bodies] /\ bodyDisk' \in [Parts -> Bodies] /\ body'[cur] = "full"
      /\ \A q \in Parts \ {cur} : body'[q] = body[q] /\ bodyDisk'[q] = bodyDisk[q]
  BY <1>0, <1>1 DEF Types, Bodies
<1>4. Active'
  BY <1>1, <1>2 DEF Active
<1>5. Stage'
  BY <1>1, <1>2, <1>3, <1>4 DEF Stage, PublishingData
<1> QED
  BY <1>1, <1>2, <1>3, <1>5, BodyStep

LEMMA SyncFileStep ==
    ASSUME IInv, SyncFile
    PROVE  IInv'
<1>0. Types /\ Stage
  BY CurFacts
<1>1. /\ pc = "filesync" /\ run \in {"publishing", "settling"} /\ pc' = "link" /\ what' = "manifest"
      /\ UNCHANGED <<published, run, cur, restarts, dir, disk, pend, body>>
      /\ bodyDisk' = [bodyDisk EXCEPT ![cur] = body[cur]]
  BY DEF SyncFile, At
<1>2. run = "publishing" /\ Active /\ dir[cur]["mtemp"] = "man" /\ body[cur] = "full"
  BY <1>0, <1>1 DEF Stage, Types, PublishingManifest, Settling
<1>3. /\ body' \in [Parts -> Bodies] /\ bodyDisk' \in [Parts -> Bodies] /\ bodyDisk'[cur] = "full"
      /\ \A q \in Parts \ {cur} : body'[q] = body[q] /\ bodyDisk'[q] = bodyDisk[q]
  BY <1>0, <1>1, <1>2 DEF Types, Bodies
<1>4. Active'
  BY <1>1, <1>2 DEF Active
<1>5. Stage'
  BY <1>1, <1>2, <1>3, <1>4 DEF Stage, PublishingManifest
<1> QED
  BY <1>1, <1>2, <1>3, <1>5, BodyStep

LEMMA CleanupStep ==
    ASSUME IInv, Cleanup
    PROVE  IInv'
<1>0. Types /\ Stage
  BY CurFacts
<1>1. /\ pc = "cleanup" /\ run \in {"publishing", "settling"} /\ pc' = "cleansync"
      /\ UNCHANGED <<published, run, cur, what, restarts>> /\ Change(Bind("mtemp", "none"))
  BY DEF Cleanup, At, Goto
<1>2. run = "publishing" /\ Active /\ what = "data"
  BY <1>0, <1>1 DEF Stage, Types, PublishingManifest, Settling
<1>3. Active'
  BY <1>1, <1>2 DEF Active
<1>4. Stage'
  BY <1>1, <1>2, <1>3 DEF Stage, PublishingData
<1> QED
  BY <1>1, <1>2, <1>4, BindStep DEF Names, Files

LEMMA CleanupSyncStep ==
    ASSUME IInv, CleanupSync
    PROVE  IInv'
<1>0. Types /\ Stage
  BY CurFacts
<1>1. /\ pc = "cleansync" /\ run \in {"publishing", "settling"} /\ Fsync /\ run' = "failed"
      /\ UNCHANGED <<published, cur, what, restarts>>
  BY DEF CleanupSync, At, Fail
<1>2. Active
  BY <1>0, <1>1 DEF Stage
<1>3. Stage'
  BY <1>1 DEF Stage
<1> QED
  BY <1>1, <1>2, <1>3, FsyncStep

LEMMA PartPublishedStep ==
    ASSUME IInv, PartPublished
    PROVE  IInv'
<1>0. Types /\ Stage /\ Order /\ cur \in Parts
  BY CurFacts
<1>1. /\ pc = "closed" /\ run = "publishing" /\ published' = published \cup {cur}
      /\ UNCHANGED <<dir, disk, pend, body, bodyDisk, restarts>>
  BY DEF PartPublished, At, fsVars
<1>2. Active /\ Complete(cur)
  BY <1>0, <1>1 DEF Stage
<1>3. \A q \in Parts : Same(q)
  BY <1>1 DEF Same
<1>4. \A q \in Parts : PartInv(q)'
  BY <1>3, SamePart DEF IInv
<1>5. Order'
  <2>1. ASSUME NEW q \in published' PROVE Complete(q)'
    <3>1. q \in Parts /\ Complete(q)
      BY <1>0, <1>1, <1>2 DEF Order, Types
    <3> QED
      BY <1>3, <3>1, SamePart
  <2>2. ASSUME NEW q \in Parts, NEW r \in Parts, q < r, q \notin published' PROVE Untouched(r)'
    <3>1. Untouched(r)
      BY <1>0, <1>1, <2>2 DEF Order
    <3> QED
      BY <1>3, <3>1, SamePart
  <2> QED
    BY <2>1, <2>2 DEF Order
<1>6. Group \in Nat
  BY PublicationAssumption
<1>7. CASE cur < Group
  <2>1. cur' = cur + 1 /\ what' = "data" /\ pc' = "open" /\ run' = run
    BY <1>7 DEF PartPublished
  <2>2. cur' \in Parts
    BY <1>0, <1>6, <1>7, <2>1 DEF Parts
  <2>3. Types'
    BY <1>0, <1>1, <2>1, <2>2 DEF Types
  <2>4. Active'
    <3>1. cur' \notin published'
      <4>1. cur + 1 \notin published
        <5>1. Untouched(cur + 1)
          BY <1>0, <1>2, <2>1, <2>2, <1>6 DEF Order, Active, Parts
        <5>2. body[cur + 1] = "empty"
          BY <5>1 DEF Untouched
        <5> QED
          BY <1>0, <5>2 DEF Order, Complete
      <4> QED
        BY <1>0, <1>1, <2>1, <4>1 DEF Parts
    <3>2. ASSUME NEW q \in Parts, q < cur' PROVE q \in published'
      <4>1. q < cur \/ q = cur
        BY <1>0, <2>1, <3>2 DEF Parts
      <4> QED
        BY <1>1, <1>2, <4>1 DEF Active
    <3> QED
      BY <3>1, <3>2 DEF Active
  <2>5. Stage' /\ BlockedForCause'
    BY <1>1, <2>1, <2>4 DEF Stage, PublishingData, BlockedForCause
  <2> QED
    BY <1>4, <1>5, <2>3, <2>5 DEF IInv
<1>8. CASE ~(cur < Group)
  <2>1. run' = "done" /\ UNCHANGED <<cur, what, pc>>
    BY <1>8 DEF PartPublished
  <2>2. Types'
    BY <1>0, <1>1, <2>1 DEF Types
  <2>3. Stage' /\ BlockedForCause'
    BY <2>1 DEF Stage, BlockedForCause
  <2> QED
    BY <1>4, <1>5, <2>2, <2>3 DEF IInv
<1> QED
  BY <1>7, <1>8

LEMMA SystemCallFailsStep ==
    ASSUME IInv, SystemCallFails
    PROVE  IInv'
<1>0. Types /\ Stage /\ cur \in Parts
  BY CurFacts
<1>1. CASE pc \in {"tempsync", "write", "filesync"}
  <2>1. /\ run \in {"publishing", "settling"} /\ pc' = "cleanup"
        /\ UNCHANGED <<published, run, cur, what, restarts, dir, disk, pend, bodyDisk>>
        /\ body' = [body EXCEPT ![cur] = IF pc = "write" THEN "torn" ELSE @]
    BY <1>1 DEF SystemCallFails, Goto
  <2>2. run = "publishing" /\ Active /\ what = "data"
    BY <1>0, <1>1, <2>1 DEF Stage, Types, PublishingManifest, Settling
  <2>3. /\ body' \in [Parts -> Bodies] /\ bodyDisk' \in [Parts -> Bodies]
        /\ \A q \in Parts \ {cur} : body'[q] = body[q] /\ bodyDisk'[q] = bodyDisk[q]
    BY <1>0, <2>1 DEF Types, Bodies
  <2>4. Active'
    BY <2>1, <2>2 DEF Active
  <2>5. Stage'
    BY <2>1, <2>2, <2>4 DEF Stage, PublishingData
  <2> QED
    BY <1>0, <2>1, <2>2, <2>3, <2>5, BodyStep
<1>2. CASE pc \notin {"tempsync", "write", "filesync"}
  BY <1>2, FailStep DEF SystemCallFails
<1> QED
  BY <1>1, <1>2
-----------------------------------------------------------------------------
(* Restart and recovery *)

LEMMA RestartStage ==
    ASSUME Types, Restart
    PROVE  Stage' /\ BlockedForCause' /\ cur' \in Parts
<1>1. cur' \in Parts
  BY PublicationAssumption DEF Restart, Parts
<1> QED
  BY <1>1 DEF Restart, Stage, Settling, BlockedForCause

LEMMA KillStep ==
    ASSUME IInv, Kill
    PROVE  IInv'
<1>0. Types
  BY CurFacts
<1>1. Stage' /\ BlockedForCause' /\ cur' \in Parts
  BY <1>0, RestartStage DEF Kill
<1>2. Types'
  BY <1>0, <1>1 DEF Types, Kill, Restart, fsVars
<1> QED
  BY <1>1, <1>2, StillStep DEF Kill, Restart

LEMMA PowerLossStep ==
    ASSUME IInv, PowerLoss
    PROVE  IInv'
<1>0. Types /\ Order
  BY CurFacts
<1>1. Stage' /\ BlockedForCause' /\ cur' \in Parts /\ published' = published
  BY <1>0, RestartStage DEF PowerLoss, Restart
<1>2. PICK images \in [Parts -> UNION {Images(p) : p \in Parts}],
           bodies \in [Parts -> {"empty", "torn", "full"}] :
          /\ \A p \in Parts : /\ images[p] \in Images(p)
                              /\ bodies[p] \in {body[p], bodyDisk[p]}
          /\ dir' = images /\ disk' = images
          /\ body' = bodies /\ bodyDisk' = bodies
  BY DEF PowerLoss
<1>3. pend' = [p \in Parts |-> << >>]
  BY DEF PowerLoss
<1>4. Types'
  <2>1. images \in [Parts -> [Names -> Files]]
    <3>1. \A p \in Parts : images[p] \in [Names -> Files]
      BY <1>0, <1>2, ImageFacts
    <3> QED
      BY <1>2, <3>1
  <2>2. << >> \in Seq(Changes)
    OBVIOUS
  <2>3. pend' \in [Parts -> Seq(Changes)]
    BY <1>3, <2>2
  <2> QED
    BY <1>0, <1>1, <1>2, <2>1, <2>3 DEF Types, Bodies, PowerLoss, Restart
<1>5. ASSUME NEW p \in Parts PROVE PartInv(p)'
  <2>1. \A n : Writes(p, n)' = {}
    BY <1>3 DEF Writes
  <2>2. dir'[p] = images[p] /\ disk'[p] = images[p] /\ images[p] \in Images(p)
    BY <1>2
  <2>3. PartInv(p)
    BY DEF IInv
  <2>4. /\ images[p]["partial"] \in {"data", "none"} /\ images[p]["final"] \in {"none", dir[p]["final"]}
        /\ images[p]["mtemp"] \in {"none", "man"} /\ images[p]["mfinal"] \in {"none", dir[p]["mfinal"]}
        /\ images[p]["partial"] = "none" => images[p]["final"] = "data"
        /\ "man" \in {images[p]["mtemp"], images[p]["mfinal"]}
             => images[p]["final"] = "data" /\ images[p]["partial"] = "none"
    BY <1>0, <2>2, <2>3, ImagePart
  <2> QED
    BY <2>1, <2>2, <2>3, <2>4 DEF PartInv, DataSettled
<1>6. ASSUME NEW p \in Parts, Clean(p), body[p] = bodyDisk[p]
      PROVE  dir'[p] = dir[p] /\ Clean(p)' /\ body'[p] = body[p] /\ bodyDisk'[p] = body[p]
  <2>1. images[p] = disk[p]
    BY <1>0, <1>2, <1>6, ImageFacts DEF Clean
  <2> QED
    BY <1>2, <1>3, <1>6, <2>1 DEF Clean
<1>7. ASSUME NEW p \in published' PROVE Complete(p)'
  <2>1. p \in Parts /\ Complete(p)
    BY <1>0, <1>1 DEF Order, Types
  <2> QED
    BY <1>6, <2>1 DEF Complete
<1>8. ASSUME NEW p \in Parts, NEW q \in Parts, p < q, p \notin published' PROVE Untouched(q)'
  <2>1. Untouched(q)
    BY <1>0, <1>1, <1>8 DEF Order
  <2> QED
    BY <1>6, <2>1 DEF Untouched
<1> QED
  BY <1>1, <1>4, <1>5, <1>7, <1>8 DEF IInv, Order

\* A part with a manifest temporary is the first one that is not published.
LEMMA TempActive ==
    ASSUME IInv, dir[cur]["mtemp"] # "none"
    PROVE  Active
<1>0. Types /\ Order /\ cur \in Parts
  BY CurFacts
<1>1. ~Complete(cur)
  BY DEF Complete, Names
<1>2. ~Untouched(cur)
  <2>1. ASSUME NEW taken \in Foreign PROVE dir[cur] # Allocated(taken)
    <3>1. taken \subseteq {"final", "mfinal"}
      BY PublicationAssumption
    <3>2. Allocated(taken)["mtemp"] = "none"
      BY <3>1 DEF Allocated, Names
    <3> QED
      BY <3>2
  <2> QED
    BY <2>1 DEF Untouched
<1> QED
  BY <1>0, <1>1, <1>2 DEF Order, Active

LEMMA LoadTempStep ==
    ASSUME IInv, LoadTemp
    PROVE  IInv'
<1>0. Types /\ Stage /\ cur \in Parts /\ PartInv(cur)
  BY CurFacts
<1>1. pc = "load" /\ run = "settling" /\ what = "manifest" /\ UNCHANGED <<dir, disk, pend, body, bodyDisk>>
  BY <1>0 DEF LoadTemp, At, fsVars, Stage, Types, PublishingData, PublishingManifest
<1>2. CASE dir[cur]["mtemp"] = "none" /\ Goto("closed")
  <2>1. pc' = "closed" /\ UNCHANGED <<published, run, cur, what, restarts>>
    BY <1>2 DEF Goto
  <2>2. Types' /\ Stage' /\ BlockedForCause'
    BY <1>0, <1>1, <2>1 DEF Types, Stage, Settling, BlockedForCause
  <2> QED
    BY <1>1, <2>1, <2>2, StillStep DEF fsVars
<1>3. CASE dir[cur]["mtemp"] # "none" /\ (body[cur] # "full" \/ ~BoundData) /\ Block
  <2>1. dir[cur]["mtemp"] = "man" /\ body[cur] # "full"
    BY <1>0, <1>3 DEF PartInv, DataSettled, BoundData
  <2> QED
    BY <1>0, <1>1, <1>3, <2>1, BlockStep DEF fsVars
<1>4. CASE /\ dir[cur]["mtemp"] # "none" /\ body[cur] = "full"
           /\ Goto(IF dir[cur]["mfinal"] = "none" THEN "presync" ELSE "drop")
  <2>1. /\ pc' = IF dir[cur]["mfinal"] = "none" THEN "presync" ELSE "drop"
        /\ UNCHANGED <<published, run, cur, what, restarts>>
    BY <1>4 DEF Goto
  <2>2. Active' /\ dir[cur]["mtemp"] = "man"
    BY <1>0, <1>4, <2>1, TempActive DEF Active, PartInv
  <2>3. Types' /\ BlockedForCause'
    BY <1>0, <1>1, <2>1 DEF Types, BlockedForCause
  <2>4. Stage'
    BY <1>0, <1>1, <1>4, <2>1, <2>2 DEF Stage, Target, Settling
  <2> QED
    BY <1>1, <2>1, <2>3, <2>4, StillStep DEF fsVars
<1> QED
  BY <1>2, <1>3, <1>4 DEF LoadTemp

LEMMA PreSyncStep ==
    ASSUME IInv, PreSync
    PROVE  IInv'
<1>0. Types /\ Stage
  BY CurFacts
<1>1. /\ pc = "presync" /\ run \in {"publishing", "settling"} /\ pc' = "link" /\ Fsync
      /\ UNCHANGED <<published, run, cur, what, restarts>>
  BY DEF PreSync, At, Goto
<1>2. run = "settling" /\ Active /\ what = "manifest" /\ dir[cur]["mtemp"] = "man" /\ body[cur] = "full"
  BY <1>0, <1>1 DEF Stage, Types, PublishingManifest, PublishingData
<1>3. Active' /\ dir' = dir /\ body' = body
  BY <1>1, <1>2, Fsynced DEF Active
<1>4. Stage'
  BY <1>1, <1>2, <1>3 DEF Stage, Settling
<1> QED
  BY <1>1, <1>2, <1>4, FsyncStep

LEMMA DropTempStep ==
    ASSUME IInv, DropTemp
    PROVE  IInv'
<1>0. Types /\ Stage /\ PartInv(cur) /\ cur \in Parts
  BY CurFacts
<1>1. pc = "drop" /\ run = "settling" /\ what = "manifest" /\ Active /\ dir[cur]["mfinal"] # "none"
  BY <1>0 DEF DropTemp, At, Stage, Types, PublishingManifest, PublishingData, Target
<1>2. CASE dir[cur]["mfinal"] = "man"
  <2>1. /\ pc' = "dropsync" /\ UNCHANGED <<published, run, cur, what, restarts>>
        /\ Change(Bind("mtemp", "none"))
    BY <1>2 DEF DropTemp, Goto
  <2>2. Active'
    BY <1>1, <2>1 DEF Active
  <2>3. Stage'
    BY <1>1, <2>1, <2>2 DEF Stage, Settling
  <2> QED
    BY <1>1, <2>1, <2>3, BindStep DEF Names, Files
<1>3. CASE dir[cur]["mfinal"] # "man"
  <2>1. dir[cur]["mfinal"] = "foreign"
    BY <1>0, <1>1, <1>3 DEF PartInv
  <2> QED
    BY <1>0, <1>3, <2>1, BlockStep DEF DropTemp
<1> QED
  BY <1>2, <1>3

LEMMA DropSyncStep ==
    ASSUME IInv, DropSync
    PROVE  IInv'
<1>0. Types /\ Stage
  BY CurFacts
<1>1. /\ pc = "dropsync" /\ run \in {"publishing", "settling"} /\ pc' = "closed" /\ Fsync
      /\ UNCHANGED <<published, run, cur, what, restarts>>
  BY DEF DropSync, At, Goto
<1>2. run = "settling" /\ Active /\ what = "manifest"
  BY <1>0, <1>1 DEF Stage, Types, PublishingManifest, PublishingData
<1>3. Stage'
  BY <1>1, <1>2 DEF Stage, Settling
<1> QED
  BY <1>1, <1>2, <1>3, FsyncStep

LEMMA PartSettledStep ==
    ASSUME IInv, PartSettled
    PROVE  IInv'
<1>0. Types /\ Stage /\ cur \in Parts /\ Group \in Nat
  BY CurFacts, PublicationAssumption
<1>1. /\ pc = "closed" /\ run = "settling" /\ what = "manifest"
      /\ UNCHANGED <<dir, disk, pend, body, bodyDisk, published, what, restarts>>
  BY <1>0 DEF PartSettled, At, fsVars, Stage
<1>2. CASE cur < Group /\ cur' = cur + 1 /\ pc' = "load" /\ run' = run
  <2>1. cur' \in Parts
    BY <1>0, <1>2 DEF Parts
  <2>2. Types' /\ Stage' /\ BlockedForCause'
    BY <1>0, <1>1, <1>2, <2>1 DEF Types, Stage, Settling, BlockedForCause
  <2> QED
    BY <1>1, <2>2, StillStep DEF fsVars
<1>3. CASE /\ run' = IF \E p \in Parts : Refused(p) THEN "blocked" ELSE "recovered"
           /\ UNCHANGED <<cur, pc>>
  <2>1. Types' /\ Stage'
    BY <1>0, <1>1, <1>3 DEF Types, Stage
  <2>2. BlockedForCause'
    <3>1. CASE \E p \in Parts : Refused(p)
      BY <1>1, <3>1 DEF BlockedForCause, Refused
    <3>2. CASE ~\E p \in Parts : Refused(p)
      BY <1>3, <3>2 DEF BlockedForCause
    <3> QED
      BY <3>1, <3>2
  <2> QED
    BY <1>1, <2>1, <2>2, StillStep DEF fsVars
<1> QED
  BY <1>2, <1>3 DEF PartSettled
-----------------------------------------------------------------------------
(* The steps together *)

LEMMA InitIInv == Init => IInv
<1> SUFFICES ASSUME Init PROVE IInv
  OBVIOUS
<1>1. PICK taken \in [Parts -> Foreign] : dir = [p \in Parts |-> Allocated(taken[p])]
  BY DEF Init
<1>2. ASSUME NEW p \in Parts
      PROVE  /\ dir[p] = Allocated(taken[p]) /\ taken[p] \in Foreign /\ dir[p] \in [Names -> Files]
             /\ dir[p]["partial"] = "data" /\ dir[p]["mtemp"] = "none"
             /\ dir[p]["final"] \in {"none", "foreign"} /\ dir[p]["mfinal"] \in {"none", "foreign"}
  <2>1. taken[p] \in Foreign /\ taken[p] \subseteq {"final", "mfinal"} /\ dir[p] = Allocated(taken[p])
    BY <1>1, PublicationAssumption
  <2> QED
    BY <2>1 DEF Allocated, Names, Files
<1>3. 1 \in Parts /\ \A p \in Parts : p >= 1
  BY PublicationAssumption DEF Parts
<1>4. Types
  <2>1. dir \in [Parts -> [Names -> Files]]
    BY <1>1, <1>2
  <2>2. << >> \in Seq(Changes)
    OBVIOUS
  <2> QED
    BY <1>3, <2>1, <2>2 DEF Init, Types, Bodies
<1>5. ASSUME NEW p \in Parts PROVE PartInv(p)
  <2>1. \A n : Writes(p, n) = {}
    BY DEF Init, Writes
  <2> QED
    BY <1>2, <2>1 DEF Init, PartInv
<1>6. Order
  BY <1>2 DEF Init, Order, Untouched, Clean
<1>7. Stage
  <2>1. Active
    BY <1>3 DEF Init, Active, Parts
  <2> QED
    BY <2>1 DEF Init, Stage, PublishingData
<1> QED
  BY <1>4, <1>5, <1>6, <1>7 DEF IInv, Init, BlockedForCause

LEMMA StutterStep ==
    ASSUME IInv, UNCHANGED vars
    PROVE  IInv'
<1>1. Types' /\ BlockedForCause'
  BY DEF IInv, Types, BlockedForCause, vars, fsVars
<1>2. Stage'
  BY DEF IInv, Stage, Active, DataSettled, Complete, Clean, Target, Source, File, vars, fsVars
<1> QED
  BY <1>1, <1>2, StillStep DEF vars

LEMMA StepIInv == IInv /\ [Next]_vars => IInv'
BY OpenSourceStep, LinkStep, RenameStep, VerifyStep, SyncTargetStep, UnlinkStep, SyncParentStep,
   CheckStep, CreateTempStep, SyncTempStep, WriteStep, SyncFileStep, PartPublishedStep,
   SystemCallFailsStep, CleanupStep, CleanupSyncStep, KillStep, PowerLossStep, LoadTempStep,
   PreSyncStep, DropTempStep, DropSyncStep, PartSettledStep, StutterStep DEF Next

\* The inductive invariant holds in every reachable state.
THEOREM IInvAlways == Spec => []IInv
<1>1. Init => IInv
  BY InitIInv
<1>2. IInv /\ [Next]_vars => IInv'
  BY StepIInv
<1> QED
  BY <1>1, <1>2, PTL DEF Spec
-----------------------------------------------------------------------------
(* The properties *)

\* DataAlwaysNamed: between any two system calls of publish_no_replace and of
\* recovery, a kill or a power loss leaves the rows under a name.
THEOREM DataStaysNamed == Spec => []DataAlwaysNamed
<1>1. IInv => DataAlwaysNamed
  BY ImagePart DEF IInv, DataAlwaysNamed
<1> QED
  BY <1>1, IInvAlways, PTL

\* ManifestVouches: a manifest under its final name is never seen, nor left by a
\* power loss, without its data under the final name alone.
THEOREM ManifestAlwaysVouches == Spec => []ManifestVouches
<1>1. IInv => ManifestVouches
  BY ImagePart DEF IInv, ManifestVouches
<1> QED
  BY <1>1, IInvAlways, PTL

\* PublicationSound: published parts stay complete, the parts after a failed
\* one stay as they were allocated, and a start is refused for cause only.
THEOREM PublicationAlwaysSound == Spec => []PublicationSound
<1>1. ASSUME IInv PROVE PublicationSound
  <2>0. Types /\ Order /\ Stage /\ BlockedForCause
    BY <1>1 DEF IInv
  <2>1. TypeOK
    <3>1. ASSUME run = "publishing", NEW p \in Parts \ {cur} PROVE pend[p] = << >>
      <4>1. Active /\ cur \in Parts
        BY <2>0, <3>1 DEF Stage, Types
      <4>2. CASE p < cur
        BY <2>0, <4>1, <4>2 DEF Active, Order, Complete, Clean
      <4>3. CASE cur < p
        BY <2>0, <4>1, <4>3 DEF Active, Order, Untouched, Clean
      <4> QED
        BY <4>1, <4>2, <4>3 DEF Parts
    <3> QED
      BY <2>0, <3>1 DEF TypeOK, Types, Bodies
  <2>2. PublishedDurable
    <3>1. ASSUME NEW p \in published, NEW image \in Images(p) \cup {dir[p]}
          PROVE  bodyDisk[p] = "full" /\ image = dir[p] /\ Complete(p)
      <4>1. p \in Parts /\ Complete(p)
        BY <2>0 DEF Order, Types
      <4> QED
        BY <2>0, <4>1, ImageFacts DEF Complete, Clean
    <3>2. \A p \in published : bodyDisk[p] = "full"
      BY <2>0 DEF Order, Complete
    <3> QED
      BY <3>1, <3>2 DEF PublishedDurable, Complete
  <2>3. GroupInOrder
    BY <2>0 DEF GroupInOrder, Order, Untouched
  <2> QED
    BY <2>0, <2>1, <2>2, <2>3 DEF PublicationSound
<1> QED
  BY <1>1, IInvAlways, PTL

\* The final names that a step can give, and the manifest it can show.
LEMMA FinalNamesStep ==
    ASSUME IInv, [Next]_vars
    PROVE  NothingReplaced /\ ManifestAppearsComplete
<1>0. Types /\ Stage /\ cur \in Parts /\ PartInv(cur)
  BY CurFacts
<1>1. CASE dir' = dir
  BY <1>1 DEF NothingReplaced, ManifestAppearsComplete
<1>2. CASE Link
  <2>1. PICK p \in Parts : p = cur
    BY <1>0
  <2>2. CASE dir[cur][Target] = "none"
    <3>1. Change(Bind(Target, File))
      BY <1>2, <2>2 DEF Link
    <3>2. Bind(Target, File) \in Changes
      BY BindFacts, NameFacts
    <3>3. /\ body' = body /\ dir'[p][Target] = File
          /\ \A m \in Names \ {Target} : dir'[p][m] = dir[p][m]
      BY <2>1, <3>1, Bound, NameFacts
    <3>4. \A q \in Parts \ {p} : dir'[q] = dir[q]
      BY <1>0, <2>1, <3>1, <3>2, ChangeFacts DEF Same
    <3>5. NothingReplaced
      BY <2>1, <2>2, <3>3, <3>4 DEF NothingReplaced, Names
    <3>6. what = "manifest" => body[p] = "full"
      BY <1>0, <1>2, <2>1 DEF Link, At, Stage
    <3>7. ManifestAppearsComplete
      BY <1>0, <2>1, <3>3, <3>4, <3>6 DEF ManifestAppearsComplete, Target, Names, Types
    <3> QED
      BY <3>5, <3>7
  <2>3. CASE dir[cur][Target] # "none"
    BY <1>1, <1>2, <2>3 DEF Link, fsVars
  <2> QED
    BY <2>2, <2>3
<1>3. CASE Rename
  <2>1. PICK p \in Parts : p = cur
    BY <1>0
  <2>2. what = "manifest" /\ Source = "mtemp" /\ Target = "mfinal" /\ File = "man" /\ body[p] = "full"
    BY <1>0, <1>3, <2>1 DEF Rename, At, Stage, Source, Target, File
  <2>3. CASE dir[cur]["mfinal"] = "none"
    <3> DEFINE c == [n \in {"mtemp", "mfinal"} |-> IF n = "mtemp" THEN "none" ELSE "man"]
    <3>1. Change(c)
      BY <1>3, <2>2, <2>3 DEF Rename
    <3>2. c \in Changes /\ DOMAIN c = {"mtemp", "mfinal"}
      <4>1. c \in [{"mtemp", "mfinal"} -> Files] /\ {"mtemp", "mfinal"} \in SUBSET Names
        BY DEF Files, Names
      <4> QED
        BY <4>1 DEF Changes
    <3> HIDE DEF c
    <3>3. /\ body' = body /\ \A q \in Parts \ {p} : Same(q)
          /\ \A n \in Names : dir'[p][n] = IF n \in DOMAIN c THEN c[n] ELSE dir[p][n]
      BY <1>0, <2>1, <3>1, <3>2, ChangeFacts
    <3>4. dir'[p]["final"] = dir[p]["final"] /\ \A q \in Parts \ {p} : dir'[q] = dir[q]
      BY <3>2, <3>3 DEF Names, Same
    <3> QED
      BY <2>1, <2>2, <2>3, <3>3, <3>4 DEF NothingReplaced, ManifestAppearsComplete
  <2>4. CASE dir[cur]["mfinal"] # "none"
    BY <1>1, <1>3, <2>2, <2>4 DEF Rename, fsVars
  <2> QED
    BY <2>3, <2>4
<1>4. ASSUME NEW n \in Names \ {"final", "mfinal"}, NEW file \in Files, Change(Bind(n, file))
      PROVE  NothingReplaced /\ ManifestAppearsComplete
  <2>1. PICK p \in Parts : p = cur
    BY <1>0
  <2>2. Bind(n, file) \in Changes
    BY BindFacts
  <2>3. \A m \in Names \ {n} : dir'[p][m] = dir[p][m]
    BY <1>4, <2>1, Bound
  <2>4. \A q \in Parts \ {p} : dir'[q] = dir[q]
    BY <1>0, <1>4, <2>1, <2>2, ChangeFacts DEF Same
  <2>5. \A q \in Parts : dir'[q]["final"] = dir[q]["final"] /\ dir'[q]["mfinal"] = dir[q]["mfinal"]
    BY <2>3, <2>4 DEF Names
  <2> QED
    BY <2>5 DEF NothingReplaced, ManifestAppearsComplete
<1>5. CASE PowerLoss
  <2>1. ASSUME NEW p \in Parts
        PROVE  dir'[p]["final"] \in {"none", dir[p]["final"]} /\ dir'[p]["mfinal"] \in {"none", dir[p]["mfinal"]}
    <3>1. dir'[p] \in Images(p)
      BY <1>5 DEF PowerLoss
    <3> QED
      BY <1>0, <3>1, ImagePart DEF IInv
  <2>2. NothingReplaced
    BY <2>1 DEF NothingReplaced
  <2>3. ManifestAppearsComplete
    BY <2>1 DEF ManifestAppearsComplete
  <2> QED
    BY <2>2, <2>3
<1>6. CASE Unlink
  <2>1. Source \in Names \ {"final", "mfinal"} /\ Change(Bind(Source, "none"))
    BY <1>6 DEF Unlink, Source, Names
  <2> QED
    BY <1>4, <2>1 DEF Files
<1>7. CASE CreateTemp \/ Cleanup
  BY <1>4, <1>7 DEF CreateTemp, Cleanup, Names, Files
<1>8. CASE DropTemp
  BY <1>1, <1>4, <1>8 DEF DropTemp, Names, Files, fsVars
<1>9. CASE \/ OpenSource \/ Verify \/ SyncTarget \/ SyncParent \/ Check \/ SyncTemp \/ Write \/ SyncFile
           \/ PartPublished \/ CleanupSync \/ Kill \/ LoadTemp \/ PreSync \/ DropSync \/ PartSettled
           \/ UNCHANGED vars
  BY <1>1, <1>9 DEF OpenSource, Verify, SyncTarget, SyncParent, Check, SyncTemp, Write, SyncFile,
     PartPublished, CleanupSync, Kill, LoadTemp, PreSync, DropSync, PartSettled, Fsync, fsVars, vars
<1>10. CASE SystemCallFails
  BY <1>1, <1>10 DEF SystemCallFails, fsVars
<1> QED
  BY <1>2, <1>3, <1>5, <1>6, <1>7, <1>8, <1>9, <1>10 DEF Next

\* FinalNamesKept: no link or rename replaces a final name, whoever holds it, and
\* a manifest gets its own only when all its bytes are written.
THEOREM FinalNamesAlwaysKept == Spec => FinalNamesKept
<1>1. IInv /\ [Next]_vars => [NothingReplaced /\ ManifestAppearsComplete]_vars
  BY FinalNamesStep
<1> QED
  BY <1>1, IInvAlways, PTL DEF Spec, FinalNamesKept
=============================================================================
