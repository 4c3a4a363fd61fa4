--------------------------- MODULE RecoveryProofs ---------------------------
(***************************************************************************)
(* Proofs about startup recovery, for any left sources, part and           *)
(* transaction numbers and any number of kills and power losses.           *)
(*                                                                         *)
(* CInv is about the journal and the control stream.  Each step of a start *)
(* knows how many facts its transaction has (FactsFit); every transaction  *)
(* of the journal is in progress, to be replayed, complete or waits for    *)
(* its event (Accounted); at most one of them is between the points at     *)
(* which a start may leave it, three facts or six (Synced), so a stop takes*)
(* at most its last fact; and every carrier has an owner whose durable     *)
(* ownership fact names it (Control).  ToldOnce follows, and the refinement*)
(* of RecoveryOutcomes: which step settles, tells and finishes a part is   *)
(* read off the facts that no power loss takes.                            *)
(*                                                                         *)
(* RInv is about the parts.  Raw says what each part may be now and after a*)
(* power loss (PartSound), and what each plan holds of its source and of   *)
(* its recovered part until it is done (SourceHeld, PrefixHeld); no two    *)
(* plans hold the same part, and the leases of a plan are synced before its*)
(* second fact.  Progress is what the step at hand relies on, Found that a *)
(* source found belongs to no plan yet.  The parts in use are then below   *)
(* the next number that a fresh plan takes, whatever a power loss did to   *)
(* leases and names, and OneOwnerEach follows.  Naming is what was checked *)
(* of a writer's manifest before it gets its name.                         *)
(*                                                                         *)
(* KInv is about the bytes.  A part in no durable plan is as the writer    *)
(* left it (AsLeft), its manifest either at rest (Sealed) or at its names  *)
(* with its data published (Temporary).  Each plan is the one that its     *)
(* source leads to (Planned), its files hold what it says (FilesOf), its   *)
(* source stands until the second fact is durable (Standing), its          *)
(* recovered part is empty or has all its bytes (RangeOf), and from the    *)
(* second fact on the copy is complete and cannot be taken (Preserved).    *)
(* BytesKept follows.                                                      *)
(*                                                                         *)
(* BInv is about the checks a start makes.  What the journal holds passed  *)
(* them when it was written, and a beginning of it still does (Bound); the *)
(* artifacts before the one at hand are named (Ready); a carrier's manifest*)
(* comes after its data, its data after the row (CarrierFiles).  With KInv *)
(* each check then finds what the plan says and, no manifest being torn,   *)
(* each temporary of the writer's is accepted; the cases that remain are   *)
(* those of BlockedForCause.                                               *)
(***************************************************************************)
EXTENDS Recovery, FiniteSets, FiniteSetsExt, SequenceTheorems, FiniteSetTheorems, WellFoundedInduction, TLAPS

-----------------------------------------------------------------------------
(* Numbers *)

\* Every set of numbers that has one has a least one.
LEMMA LeastNumber ==
    ASSUME NEW T, T \subseteq Nat, T # {}
    PROVE  \E x \in T : \A y \in T : x <= y
<1> DEFINE R == {ss \in Nat \X Nat : ss[1] < ss[2]}
<1>1. IsWellFoundedOn(R, Nat)
  BY NatLessThanWellFounded DEF OpToRel
<1>2. PICK x \in T : \A y \in T : <<y, x>> \notin R
  <2> HIDE DEF R
  <2> QED
    BY <1>1, WFMin
<1>3. ASSUME NEW y \in T PROVE x <= y
  <2>1. x \in Nat /\ y \in Nat /\ <<y, x>> \notin R
    BY <1>2
  <2> QED
    BY <2>1
<1> QED
  BY <1>3
-----------------------------------------------------------------------------
(* Chains of facts, and the greatest of some numbers *)

IsChain(s) == \E n \in 0..6 : s = [i \in 1..n |-> s[i]]

\* What SMT needs to know of a chain of at most six facts.
LEMMA ChainFacts ==
    ASSUME NEW s, IsChain(s)
    PROVE  /\ Len(s) \in 0..6 /\ s = [i \in 1..Len(s) |-> s[i]] /\ s \in Seq(ToSet(s))
           /\ s # << >> <=> Len(s) >= 1
<1>1. PICK n \in 0..6 : s = [i \in 1..n |-> s[i]]
  BY DEF IsChain
<1>2. s \in Seq({s[i] : i \in 1..n}) /\ ToSet(s) = {s[i] : i \in 1..n}
  BY <1>1 DEF ToSet
<1>3. Len(s) = n
  BY <1>1, <1>2
<1>4. s = << >> <=> n = 0
  BY <1>1, <1>2, <1>3
<1> QED
  BY <1>1, <1>2, <1>3, <1>4

\* The empty chain is one.
LEMMA EmptyChain == IsChain(<< >>) /\ Len(<< >>) = 0
<1>1. << >> = [i \in 1..0 |-> << >>[i]]
  OBVIOUS
<1> QED
  BY <1>1 DEF IsChain

\* A chain with one more fact keeps the facts it had.
LEMMA AppendChain ==
    ASSUME NEW s, IsChain(s), Len(s) <= 5, NEW e
    PROVE  /\ IsChain(Append(s, e)) /\ Len(Append(s, e)) = Len(s) + 1
           /\ \A i \in 1..Len(s) : Append(s, e)[i] = s[i]
           /\ Append(s, e)[Len(s) + 1] = e
<1>1. Len(s) \in Nat /\ Len(s) + 1 \in 0..6 /\ s = [i \in 1..Len(s) |-> s[i]]
  BY ChainFacts
<1> DEFINE S == {s[i] : i \in 1..Len(s)} \cup {e}
<1>2. s \in [1..Len(s) -> S]
  BY <1>1
<1>3. s \in Seq(S) /\ e \in S
  BY <1>1, <1>2
<1> HIDE DEF S
<1>4. /\ Append(s, e) \in Seq(S) /\ Len(Append(s, e)) = Len(s) + 1
      /\ \A i \in 1..Len(s) : Append(s, e)[i] = s[i]
      /\ Append(s, e)[Len(s) + 1] = e
  BY <1>3, AppendProperties
<1>5. Append(s, e) = [i \in 1..Len(s) + 1 |-> Append(s, e)[i]]
  BY <1>4, LenProperties
<1> QED
  BY <1>1, <1>4, <1>5 DEF IsChain

\* So does a chain of which a power loss leaves the first facts.
LEMMA CutChain ==
    ASSUME NEW s, IsChain(s), NEW n \in 0..6, n <= Len(s)
    PROVE  /\ IsChain(SubSeq(s, 1, n)) /\ Len(SubSeq(s, 1, n)) = n
           /\ \A i \in 1..n : SubSeq(s, 1, n)[i] = s[i]
<1>1. Len(s) \in 0..6 /\ s \in Seq(ToSet(s))
  BY ChainFacts
<1>2. SubSeq(s, 1, n) = [i \in 1..n |-> s[i]]
  BY <1>1
<1>3. SubSeq(s, 1, n) \in Seq(ToSet(s)) /\ Len(SubSeq(s, 1, n)) = n
  BY <1>1, <1>2
<1> QED
  BY <1>2, <1>3 DEF IsChain

\* Max gives the greatest of some part or carrier numbers ...
LEMMA GreatestNumber ==
    ASSUME NEW n \in Nat, NEW T, T \subseteq 0..n, T # {}
    PROVE  Max(T) \in T /\ \A y \in T : Max(T) >= y
<1> DEFINE U == {n - x : x \in T}
<1>1. U \subseteq Nat /\ U # {}
  <2>1. ASSUME NEW x \in T PROVE n - x \in Nat
    BY SMT
  <2> QED
    BY <2>1, Zenon
<1>2. PICK u \in U : \A y \in U : u <= y
  <2> HIDE DEF U
  <2> QED
    BY <1>1, LeastNumber
<1>3. PICK x \in T : u = n - x
  BY <1>2, Zenon
<1>4. ASSUME NEW y \in T PROVE x >= y
  <2>1. n - y \in U
    BY Zenon
  <2>2. n - x <= n - y
    BY <1>2, <1>3, <2>1
  <2>3. x \in Nat /\ y \in Nat
    BY SMT
  <2> QED
    BY <2>2, <2>3, SMT
<1> QED
  BY <1>4 DEF Max

\* ... and Min the smallest.
LEMMA SmallestNumber ==
    ASSUME NEW T, T \subseteq Nat, T # {}
    PROVE  Min(T) \in T /\ \A y \in T : Min(T) <= y
BY LeastNumber DEF Min
-----------------------------------------------------------------------------
(* The inductive invariant: the steps of a start *)

Settling == run \in {"temporaries", "naming", "syncing"}
Working == Settling \/ run \in {"chains", "manifests", "sources", "serving"}

CtlStates == {"absent", "short", "partial", "both", "final"}

Types ==
    /\ run \in Phases /\ cur \in Txs
    /\ chain = [t \in Txs |-> chain[t]] /\ \A t \in Txs : IsChain(chain[t])
    /\ durable \in [Txs -> Nat]
    /\ ctl \in [Carriers -> CtlStates] /\ ctlImg \in [Carriers -> SUBSET CtlStates]
    /\ cman \in [Carriers -> CarrierManifestStates] /\ cmanImg \in [Carriers -> SUBSET CarrierManifestStates]
    /\ row \in [Carriers -> SUBSET Txs]
    /\ todo \subseteq Txs /\ pending \subseteq Txs
    /\ plan = << >> \/ plan = <<plan[1]>>

\* How many facts the transaction at hand has at each step.
FactsFit ==
    /\ pc \in {"lease", "leasesync"} => IF plan = << >> THEN Facts = 0 ELSE Facts \in 1..2
    /\ pc = "plan" => IF plan = << >> THEN Facts = 0 ELSE Facts = 1
    /\ pc \in {"lease2", "lease2sync"} => Facts \in 0..2
    /\ pc = "fact" => Facts \in 0..5
    /\ pc = "factsync" => Facts \in 1..6
    /\ pc \in {"data", "dataname", "datasync", "manifest", "manifestname", "manifestsync",
               "quarantine", "quarantinename", "quarantinesync"} => Facts = 1
    /\ pc = "verify" => Facts \in 1..2
    /\ pc \in {"settle", "settlesync"} => Facts = 2
    /\ pc = "settled" => Facts \in {3, 6}
    /\ pc = "recheck" => Facts \in 3..6 /\ run = "chains"
    /\ pc \in {"carrier", "restore", "restoresync"} => Facts = 4
    /\ pc \notin {"lease", "leasesync", "plan"} => plan # << >>
    /\ run = "chains" => Facts >= 1
    /\ run \in {"manifests", "sources"} => Facts <= 3
    /\ run = "serving" => Facts >= 3
    /\ pc \in {"fact", "factsync"} /\ Facts = 3 => (pc = "fact") = (run = "serving")

Flow ==
    /\ Settling \/ run \in {"load", "up"} => pc = "next"
    /\ Working /\ pc # "next" => FactsFit
    /\ plan # << >> /\ cur \in Journal => intent = chain[cur][1]

\* Each transaction is in progress, still to be replayed, complete, or waits for
\* its control event.
Accounted ==
    /\ todo \subseteq Journal /\ (Working /\ pc # "next" => cur \notin todo)
    /\ run \notin {"chains", "blocked"} => todo = {}
    /\ \A t \in pending : t \in Journal /\ (Len(chain[t]) = 3 \/ (t = cur /\ pc # "next"))
    /\ Working => \A t \in Journal :
          \/ t = cur /\ pc # "next"
          \/ t \in todo /\ run = "chains"
          \/ Len(chain[t]) = 6 \/ (Len(chain[t]) = 3 /\ t \in pending)
    /\ run = "up" => \A t \in Journal : Len(chain[t]) = 6

\* At most one fact is not synced, and at most one transaction is between the
\* settlement of its source and the event before it, or after it.
Busy(t) == durable[t] \notin {3, 6} \/ Len(chain[t]) \notin {3, 6}
Synced ==
    /\ \A t \in Txs : durable[t] = Len(chain[t]) \/ durable[t] + 1 = Len(chain[t])
    /\ run # "load" => \A t \in Txs : durable[t] = Len(chain[t]) \/ (t = cur /\ pc = "factsync")
    /\ Working /\ pc = "factsync" => durable[cur] + 1 = Len(chain[cur])
    /\ \A t, u \in Journal : Busy(t) /\ Busy(u) => t = u

\* Carriers
Owns(t, k) == t \in Journal /\ Len(chain[t]) >= 4 /\ chain[t][4].carrier = k
NoCarrier(k) == ctlImg[k] = {"absent"} /\ cmanImg[k] = {"absent"} /\ row[k] = {}
Shown(t, k) == row[k] = {t} /\ ctlImg[k] = {"final"} /\ cmanImg[k] \subseteq {"nfinal", "rfinal"}
Control ==
    /\ \A k \in Carriers : ctl[k] \in ctlImg[k] /\ cman[k] \in cmanImg[k]
    /\ \A k \in Carriers : NoCarrier(k) \/ \E t \in Txs : Owns(t, k) /\ durable[t] >= 4 /\ row[k] \subseteq {t}
    /\ \A t, u \in Txs, k \in Carriers : Owns(t, k) /\ Owns(u, k) => t = u
    /\ \A t \in Journal : Len(chain[t]) >= 4 => chain[t][4].carrier \in Carriers
    /\ \A t \in Journal : Len(chain[t]) >= 5 => Shown(t, chain[t][4].carrier)
    /\ Working /\ pc = "fact" /\ Facts = 4 => Shown(cur, carrier)
    /\ Working /\ pc = "fact" /\ Facts = 3 => NextCarrier \in Carriers

CInv == Types /\ Flow /\ Accounted /\ Synced /\ Control
-----------------------------------------------------------------------------
(* A start's steps keep CInv *)

\* A chain has at most six facts, none when it is empty.
LEMMA Lengths ==
    ASSUME NEW c, \A t \in Txs : IsChain(c[t])
    PROVE  \A t \in Txs : Len(c[t]) \in 0..6 /\ (c[t] # << >> <=> Len(c[t]) >= 1)
BY ChainFacts

\* The same of the journal, under the invariant.
LEMMA LengthsNow ==
    ASSUME CInv
    PROVE  /\ \A t \in Txs : Len(chain[t]) \in 0..6 /\ (t \in Journal <=> Len(chain[t]) >= 1)
           /\ Journal \subseteq Txs /\ cur \in Txs /\ Facts \in 0..6
<1>1. \A t \in Txs : Len(chain[t]) \in 0..6 /\ (chain[t] # << >> <=> Len(chain[t]) >= 1)
  BY Lengths DEF CInv, Types
<1> QED
  BY <1>1 DEF CInv, Types, Journal, Facts

\* The first start has an empty journal and no carrier.
LEMMA CInitially == ASSUME Init PROVE CInv
<1> USE RecoveryAssumption
<1>1. 1 \in Txs /\ 0 \in Parts
  BY DEF Txs, Parts
<1>2. \A t \in Txs : chain[t] = << >>
  BY DEF Init
<1>3. Types
  BY <1>1, <1>2, EmptyChain DEF Init, Types, Phases, SourcePaths, CtlStates, CarrierManifestStates, Carriers
<1>4. Journal = {}
  BY <1>2 DEF Journal
<1>5. Flow /\ Accounted
  BY <1>4 DEF Init, Flow, Accounted, Working, Settling
<1>6. Synced
  BY <1>2, <1>4, EmptyChain DEF Init, Synced, Working, Settling
<1>7. Control
  BY <1>4 DEF Init, Control, NoCarrier, Owns, Working, Settling
<1> QED
  BY <1>3, <1>5, <1>6, <1>7 DEF CInv

\* A step within a transaction, or its end in a block, that leaves journal and
\* control stream alone.
Stays ==
    /\ Working /\ pc \notin {"next", "factsync"}
    /\ UNCHANGED <<journalVars, controlVars, cur, workVars>>
    /\ \/ run' = "blocked" /\ pc' = pc
       \/ /\ run' = run /\ pc' \notin {"next", "factsync"} /\ FactsFit'
          /\ pc' = "fact" => Facts \notin {3, 4}

\* Such a step keeps the invariant.
LEMMA StaysCInv == ASSUME CInv, Stays PROVE CInv'
<1> USE DEF Stays, journalVars, controlVars, workVars
<1>1. Types'
  BY DEF CInv, Types, Phases
<1>2. Journal' = Journal
  BY DEF Journal
<1>3. Flow'
  BY <1>2 DEF CInv, Flow, Working, Settling, intent
<1>4. Accounted'
  BY <1>2 DEF CInv, Accounted, Working, Settling
<1>5. Synced'
  BY <1>2 DEF CInv, Synced, Busy, Working, Settling
<1>6. NextCarrier' = NextCarrier
  BY DEF NextCarrier
<1>7. Control'
  BY <1>2, <1>6 DEF CInv, Control, Owns, NoCarrier, Shown, Working, Settling, Facts, carrier
<1> QED
  BY <1>1, <1>3, <1>4, <1>5, <1>7 DEF CInv

\* The steps of a source's transaction up to its settlement.
SourceStep ==
    \/ SourceLease \/ DestinationLease \/ PlanResumed
    \/ SkipData \/ PublishRange \/ PublishManifest \/ PublishQuarantine
    \/ VerifyArtifacts \/ SettleSource \/ RecheckChain

\* Each of them stays within its transaction.
LEMMA SourceStepStays == ASSUME CInv, SourceStep PROVE Stays
<1>1. run \in Phases /\ Facts \in 0..6 /\ Flow
  BY Lengths DEF CInv, Types, Facts
<1>2. run \notin {"up", "blocked"} /\ pc # "next" => Working /\ FactsFit
  BY <1>1 DEF Flow, Working, Settling, Phases
<1> USE DEF Stays, At, Goto, GotoIf, Block, workVars, journalVars, controlVars, rawVars
<1>3. CASE SourceLease
  BY <1>1, <1>2, <1>3 DEF SourceLease, TakeLease, FactsFit, Facts
<1>4. CASE DestinationLease
  BY SMTT(30), <1>1, <1>2, <1>4 DEF DestinationLease, TakeLease, FactsFit, Facts
<1>5. CASE PlanResumed
  <2>1. UNCHANGED <<journalVars, controlVars, cur, workVars>> /\ pc = "plan"
        /\ ((run' = "blocked" /\ pc' = pc) \/ (run' = run /\ pc' = "data"))
    BY <1>5 DEF PlanResumed
  <2>2. Working /\ FactsFit /\ Facts = 1 /\ plan # << >>
    BY <1>2, <1>5 DEF PlanResumed, FactsFit
  <2> QED
    BY <2>1, <2>2 DEF FactsFit, Facts
<1>6. CASE SkipData
  BY <1>1, <1>2, <1>6 DEF SkipData, FactsFit, Facts
<1>7. CASE PublishRange
  BY <1>1, <1>2, <1>7 DEF PublishRange, PrepareRange, PublishStream, AcceptRange, FactsFit, Facts
<1>8. CASE PublishManifest
  BY <1>1, <1>2, <1>8 DEF PublishManifest, PublishArtifact, WriteArtifact, AcceptArtifact, FactsFit, Facts
<1>9. CASE PublishQuarantine
  BY <1>1, <1>2, <1>9 DEF PublishQuarantine, PublishArtifact, WriteArtifact, AcceptArtifact, FactsFit, Facts
<1>10. CASE VerifyArtifacts
  <2>1. UNCHANGED <<journalVars, controlVars, cur, workVars>> /\ pc = "verify"
        /\ ((run' = "blocked" /\ pc' = pc)
            \/ (run' = run /\ pc' = IF Facts = 1 THEN "fact" ELSE "settle"))
    BY <1>10 DEF VerifyArtifacts
  <2>2. Working /\ FactsFit /\ Facts \in 1..2 /\ plan # << >>
    BY <1>2, <1>10 DEF VerifyArtifacts, FactsFit
  <2>3. Facts' = Facts /\ plan' = plan
    BY <2>1 DEF Facts
  <2>4. CASE run' = "blocked" /\ pc' = pc
    BY <2>1, <2>2, <2>4
  <2>5. CASE run' = run /\ Facts = 1 /\ pc' = "fact"
    BY <2>1, <2>2, <2>3, <2>5 DEF FactsFit
  <2>6. CASE run' = run /\ Facts = 2 /\ pc' = "settle"
    BY <2>1, <2>2, <2>3, <2>6 DEF FactsFit
  <2> QED
    BY <2>1, <2>2, <2>4, <2>5, <2>6
<1>11. CASE SettleSource
  <2>1. UNCHANGED <<journalVars, controlVars, cur, workVars>> /\ pc \in {"settle", "settlesync"}
        /\ ((run' = "blocked" /\ pc' = pc) \/ (run' = run /\ pc' \in {"settlesync", "fact"}))
    BY <1>11 DEF SettleSource
  <2>2. Working /\ FactsFit /\ Facts = 2
    BY <1>2, <1>11, <2>1 DEF SettleSource, FactsFit
  <2> QED
    BY <2>1, <2>2 DEF FactsFit, Facts
<1>12. CASE RecheckChain
  BY <1>1, <1>2, <1>12 DEF RecheckChain, FactsFit, Facts
<1> QED
  BY <1>3, <1>4, <1>5, <1>6, <1>7, <1>8, <1>9, <1>10, <1>11, <1>12 DEF SourceStep

\* A step on the carrier of the transaction at hand.
CarrierStays ==
    /\ Working /\ pc \in {"carrier", "restore", "restoresync"}
    /\ UNCHANGED <<journalVars, cur, workVars>>
    /\ ctl' \in [Carriers -> CtlStates] /\ ctlImg' \in [Carriers -> SUBSET CtlStates]
    /\ cman' \in [Carriers -> CarrierManifestStates]
    /\ cmanImg' \in [Carriers -> SUBSET CarrierManifestStates]
    /\ row' \in [Carriers -> SUBSET Txs] /\ row'[carrier] \subseteq {cur}
    /\ \A k \in Carriers : ctl'[k] \in ctlImg'[k] /\ cman'[k] \in cmanImg'[k]
    /\ \A k \in Carriers \ {carrier} :
          /\ ctl'[k] = ctl[k] /\ ctlImg'[k] \subseteq ctlImg[k]
          /\ cman'[k] = cman[k] /\ cmanImg'[k] \subseteq cmanImg[k]
          /\ row'[k] = row[k]
    /\ \/ run' = "blocked" /\ pc' = pc
       \/ run' = run /\ pc' \in {"carrier", "restore", "restoresync"}
       \/ run' = run /\ pc' = "fact" /\ Shown(cur, carrier)'

\* Such a step keeps the invariant.
LEMMA CarrierStaysCInv == ASSUME CInv, CarrierStays PROVE CInv'
<1>0. /\ UNCHANGED <<chain, durable, cur, src, plan, todo, found, pending>>
      /\ Working /\ pc \in {"carrier", "restore", "restoresync"} /\ cur \in Txs
      /\ (run' = run \/ run' = "blocked") /\ run \in Phases
      /\ pc' \in {"carrier", "restore", "restoresync", "fact"}
  BY DEF CInv, Types, CarrierStays, journalVars, workVars
<1>1. Types'
  BY <1>0 DEF CInv, Types, Phases, CarrierStays
<1>a. Facts = 4 /\ FactsFit
  BY <1>0 DEF CInv, Flow, FactsFit
<1>b. cur \in Txs /\ cur \in Journal
  BY <1>a, LengthsNow DEF Facts
<1>c. Journal' = Journal
  BY <1>0 DEF Journal
<1>2. Journal' = Journal /\ Facts' = Facts /\ Facts = 4 /\ FactsFit
  BY <1>0, <1>a, <1>c DEF Facts
<1>3. Flow'
  BY <1>0, <1>2 DEF CInv, Flow, Working, Settling, intent, FactsFit, Phases
<1>4. Accounted'
  BY <1>0, <1>2 DEF CInv, Accounted, Working, Settling
<1>5. Synced'
  BY <1>0, <1>2 DEF CInv, Synced, Busy, Working, Settling
<1>6. \A t \in Txs : \A k \in Carriers : Owns(t, k)' <=> Owns(t, k)
  BY <1>0, <1>2 DEF Owns
<1>7. cur \in Txs /\ carrier \in Carriers /\ Owns(cur, carrier) /\ durable[cur] = 4
  <2>1. cur \in Txs /\ cur \in Journal
    BY <1>b
  <2>2. run # "load" /\ durable[cur] = Len(chain[cur])
    BY <1>0, <2>1 DEF CInv, Synced, Working, Settling
  <2> QED
    BY <1>2, <2>1, <2>2 DEF CInv, Control, Owns, carrier, Facts
<1>8. ASSUME NEW k \in Carriers
      PROVE  NoCarrier(k)' \/ \E t \in Txs : Owns(t, k)' /\ durable'[t] >= 4 /\ row'[k] \subseteq {t}
  <2>1. CASE k = carrier
    BY <1>0, <1>6, <1>7, <2>1 DEF CarrierStays
  <2>2. CASE k # carrier
    <3>1. NoCarrier(k) => NoCarrier(k)'
      BY <2>2 DEF NoCarrier, CarrierStays
    <3> QED
      BY <1>0, <1>6, <2>2, <3>1 DEF CInv, Control, CarrierStays
  <2> QED
    BY <2>1, <2>2
<1>9. \A t \in Journal' : Len(chain'[t]) >= 5 => Shown(t, chain[t][4].carrier)'
  <2>1. SUFFICES ASSUME NEW t \in Journal, Len(chain[t]) >= 5, NEW k, k = chain[t][4].carrier
                 PROVE  Shown(t, k)'
    BY <1>0, <1>c
  <2>2. t \in Txs /\ t # cur
    BY <1>a, <2>1, LengthsNow DEF Facts
  <2>3. k \in Carriers /\ Shown(t, k) /\ Owns(t, k)
    BY <2>1, <2>2 DEF CInv, Control, Owns
  <2>4. k # carrier
    BY <1>7, <2>2, <2>3 DEF CInv, Control
  <2> QED
    BY <2>3, <2>4 DEF Shown, CarrierStays
<1>10. carrier' = carrier
  BY <1>0 DEF carrier
<1>11. Control'
  <2>1. \A t, u \in Txs, k \in Carriers : Owns(t, k)' /\ Owns(u, k)' => t = u
    BY <1>6 DEF CInv, Control
  <2>2. \A t \in Journal' : Len(chain'[t]) >= 4 => chain'[t][4].carrier \in Carriers
    BY <1>0, <1>2 DEF CInv, Control
  <2> QED
    BY <1>0, <1>2, <1>8, <1>9, <1>10, <2>1, <2>2 DEF Control, CarrierStays
<1> QED
  BY <1>1, <1>3, <1>4, <1>5, <1>11 DEF CInv

CarrierStep ==
    \/ WriteCarrier \/ Acknowledge \/ RestoreData \/ SettleCoexistence
    \/ SettleNormalManifest \/ RestoreManifest \/ RestoreSync \/ AcceptCarrier

\* Writing, acknowledging and restoring a carrier are such steps.
LEMMA CarrierStepStays == ASSUME CInv, CarrierStep PROVE CarrierStays
<1>1. run \in Phases /\ Facts \in 0..6 /\ Flow /\ Types /\ Control
  BY Lengths DEF CInv, Types, Facts
<1>2. run \notin {"up", "blocked"} /\ pc # "next" => Working /\ FactsFit
  BY <1>1 DEF Flow, Working, Settling, Phases
<1>3. /\ Working /\ pc \in {"carrier", "restore", "restoresync"}
      /\ UNCHANGED <<journalVars, cur, workVars>>
  BY <1>1, <1>2 DEF CarrierStep, At, Goto, GotoIf, Block, WriteCarrier, Acknowledge, RestoreData,
     SettleCoexistence, SettleNormalManifest, RestoreManifest, RestoreSync, AcceptCarrier
<1>4. cur \in Txs /\ carrier \in Carriers /\ row[carrier] \subseteq {cur}
  <2>a. Facts = 4
    BY <1>2, <1>3 DEF FactsFit, Working, Settling
  <2>b. /\ cur \in Txs
        /\ cur \in Journal <=> Len(chain[cur]) >= 1
    BY LengthsNow
  <2>1. cur \in Txs /\ cur \in Journal /\ Facts = 4
    BY <2>a, <2>b DEF Facts
  <2>2. carrier \in Carriers /\ Owns(cur, carrier)
    BY <1>1, <2>1 DEF Control, Owns, carrier, Facts
  <2> QED
    BY <1>1, <2>1, <2>2 DEF Control, NoCarrier
<1> DEFINE Moved == \/ run' = "blocked" /\ pc' = pc
                    \/ run' = run /\ pc' \in {"carrier", "restore", "restoresync"}
<1>5. ASSUME NEW st \in CtlStates, SetCtl(carrier, st), Moved PROVE CarrierStays
  BY <1>1, <1>3, <1>4, <1>5 DEF CarrierStays, SetCtl, Types, Control
<1>6. ASSUME NEW st \in CarrierManifestStates, SetCman(carrier, st), Moved PROVE CarrierStays
  BY <1>1, <1>3, <1>4, <1>6 DEF CarrierStays, SetCman, Types, Control
<1>7. ASSUME FillCarrier, Moved PROVE CarrierStays
  BY <1>1, <1>3, <1>4, <1>7 DEF CarrierStays, FillCarrier, Types, Control, CtlStates
<1>8. ASSUME SyncControl, Moved \/ (run' = run /\ pc' = "fact" /\ Shown(cur, carrier)')
      PROVE  CarrierStays
  BY <1>1, <1>3, <1>4, <1>8 DEF CarrierStays, SyncControl, Types, Control
<1>9. ASSUME UNCHANGED controlVars, Moved PROVE CarrierStays
  BY <1>1, <1>3, <1>4, <1>9 DEF CarrierStays, controlVars, Types, Control
<1> USE DEF CtlStates, CarrierManifestStates, Goto, At
<1>10. CASE WriteCarrier
  BY <1>5, <1>6, <1>7, <1>8, <1>10 DEF WriteCarrier
<1>11. CASE Acknowledge
  <2>1. CarrierHolds(carrier) => row[carrier] = {cur} /\ ctl[carrier] = "final"
    BY DEF CarrierHolds
  <2>2. /\ UNCHANGED controlVars /\ ctlImg[carrier] = {"final"} /\ cmanImg[carrier] = {"nfinal"}
        /\ Moved \/ (Goto("fact") /\ CarrierHolds(carrier))
    BY <1>3, <1>11 DEF Acknowledge, GotoIf, Block
  <2>3. carrier' = carrier
    BY <1>3 DEF carrier, journalVars
  <2>4. CASE Goto("fact") /\ CarrierHolds(carrier)
    BY <1>1, <1>3, <1>4, <2>1, <2>2, <2>3, <2>4 DEF CarrierStays, Shown, controlVars, Types, Control
  <2> QED
    BY <1>9, <2>2, <2>4
<1>12. CASE RestoreData
  BY <1>5, <1>7, <1>12 DEF RestoreData, Published
<1>13. CASE SettleCoexistence
  BY <1>5, <1>13 DEF SettleCoexistence
<1>14. CASE SettleNormalManifest
  BY <1>3, <1>6, <1>9, <1>14 DEF SettleNormalManifest, Block
<1>15. CASE RestoreManifest
  <2>1. CASE /\ cman[carrier] = "absent" /\ Goto("restore")
             /\ cman' = [cman EXCEPT ![carrier] = "rtemp"]
             /\ cmanImg' = [k \in Carriers |-> {cman'[k]}] /\ ctlImg' = [k \in Carriers |-> {ctl[k]}]
             /\ UNCHANGED <<ctl, row, torn>>
    BY <1>1, <1>3, <1>4, <2>1 DEF CarrierStays, Types, Control
  <2> QED
    BY <1>6, <1>15, <2>1 DEF RestoreManifest
<1>16. CASE RestoreSync
  BY <1>8, <1>16 DEF RestoreSync
<1>17. CASE AcceptCarrier
  <2>1. CarrierHolds(carrier) => row[carrier] = {cur} /\ ctl[carrier] = "final"
    BY DEF CarrierHolds
  <2>2. /\ SyncControl /\ cman[carrier] \in {"nfinal", "rfinal"}
        /\ Moved \/ (Goto("fact") /\ CarrierHolds(carrier))
    BY <1>3, <1>17 DEF AcceptCarrier, GotoIf, Block
  <2>3. carrier' = carrier
    BY <1>3 DEF carrier, journalVars
  <2> QED
    BY <1>3, <1>4, <1>8, <2>1, <2>2, <2>3 DEF Shown, SyncControl
<1> QED
  BY <1>10, <1>11, <1>12, <1>13, <1>14, <1>15, <1>16, <1>17 DEF CarrierStep

\* A step between two transactions, or to another phase.
MovesOn ==
    /\ UNCHANGED <<chain, ctl, ctlImg, cman, cmanImg, row>>
    /\ \/ durable' = durable /\ run # "load"
       \/ durable' = [t \in Txs |-> Len(chain[t])]
    /\ run' \in Phases \ {"load"} /\ cur' \in Txs /\ todo' \subseteq Txs /\ pending' \subseteq Txs
    /\ plan' = << >> \/ plan' = <<plan'[1]>>
    /\ pc # "factsync" /\ pc' # "factsync"
    /\ pc' = "fact" => Len(chain[cur']) = 3 /\ NextCarrier \in Carriers

\* Such a step keeps the invariant when its bookkeeping is right.
LEMMA MovesOnCInv == ASSUME CInv, MovesOn, Flow', Accounted' PROVE CInv'
<1>1. \A t \in Txs : Len(chain[t]) \in 0..6
  BY LengthsNow
<1>2. Journal' = Journal /\ NextCarrier' = NextCarrier
  BY DEF MovesOn, Journal, NextCarrier
<1>3. Types'
  BY <1>1 DEF CInv, Types, MovesOn
<1>4. \A t \in Txs : durable'[t] = Len(chain[t]) /\ durable[t] \in Nat
  BY <1>1 DEF MovesOn, CInv, Types, Synced
<1>5. \A t \in Txs : durable'[t] >= durable[t]
  BY <1>1, <1>4 DEF CInv, Synced
<1>6. Synced'
  <2>1. \A t \in Txs : durable'[t] = Len(chain'[t])
    BY <1>4 DEF MovesOn
  <2>2. \A t \in Txs : Busy(t)' => Busy(t)
    BY <1>4, <2>1 DEF Busy, MovesOn
  <2>3. \A t, u \in Journal' : Busy(t)' /\ Busy(u)' => t = u
    BY <1>2, <2>2, LengthsNow DEF CInv, Synced
  <2>4. pc' # "factsync"
    BY DEF MovesOn
  <2> QED
    BY <2>1, <2>3, <2>4 DEF Synced
<1>7. Control'
  <2>1. \A t \in Txs : \A k \in Carriers : Owns(t, k)' <=> Owns(t, k)
    BY <1>2 DEF Owns, MovesOn
  <2>2. \A k \in Carriers : NoCarrier(k)' <=> NoCarrier(k)
    BY DEF NoCarrier, MovesOn
  <2>3. \A k \in Carriers : ctl'[k] \in ctlImg'[k] /\ cman'[k] \in cmanImg'[k]
    BY DEF CInv, Control, MovesOn
  <2>4. ASSUME NEW k \in Carriers
        PROVE  NoCarrier(k)' \/ \E t \in Txs : Owns(t, k)' /\ durable'[t] >= 4 /\ row'[k] \subseteq {t}
    <3>1. \A t \in Txs : durable[t] >= 4 => durable'[t] >= 4
      BY <1>1, <1>4, <1>5
    <3> QED
      BY <2>1, <2>2, <3>1 DEF CInv, Control, MovesOn
  <2>5. \A t, u \in Txs, k \in Carriers : Owns(t, k)' /\ Owns(u, k)' => t = u
    BY <2>1 DEF CInv, Control
  <2>6. \A t \in Journal' : Len(chain'[t]) >= 4 => chain'[t][4].carrier \in Carriers
    BY <1>2 DEF CInv, Control, MovesOn
  <2>7. \A t \in Journal' : Len(chain'[t]) >= 5 => Shown(t, chain[t][4].carrier)'
    BY <1>2 DEF CInv, Control, MovesOn, Shown
  <2>8. ~ (Working /\ pc = "fact" /\ Facts = 4)' /\ (pc' = "fact" => NextCarrier' \in Carriers)
    BY SMTT(30), <1>2 DEF MovesOn, Facts
  <2> QED
    BY <2>3, <2>4, <2>5, <2>6, <2>7, <2>8 DEF Control
<1> QED
  BY <1>3, <1>6, <1>7 DEF CInv

\* The steps that settle the writer's manifest temporaries
TempStep == SettleTemporary \/ PublishTemporary \/ SyncTemporary

Between ==
    \/ LoadJournal \/ NextChain \/ DiscoverManifests \/ DiscoverUnbound \/ NextSource
    \/ PlanFresh \/ Settled \/ Admit \/ Advance

\* The bookkeeping of each of them is right.
LEMMA BetweenCInv == ASSUME CInv, Between PROVE CInv'
<1>1. /\ \A t \in Txs : Len(chain[t]) \in 0..6 /\ (t \in Journal <=> Len(chain[t]) >= 1)
      /\ Journal \subseteq Txs /\ cur \in Txs /\ Facts \in 0..6
  BY LengthsNow
<1>2. Types /\ Flow /\ Accounted
  BY DEF CInv
<1>3. Journal' = Journal
  BY DEF Between, LoadJournal, NextChain, DiscoverManifests, DiscoverUnbound, NextSource, PlanFresh, Settled, Admit,
     Advance, journalVars, controlVars, Journal
<1>4. pending # {} => Min(pending) \in pending
  <2>1. pending \subseteq Nat
    BY DEF CInv, Types, Txs
  <2> QED
    BY <2>1, SmallestNumber
<1>5. todo # {} => Min(todo) \in todo
  <2>1. todo \subseteq Nat
    BY DEF CInv, Types, Txs
  <2> QED
    BY <2>1, SmallestNumber
<1>6. Journal # Txs => Min(Txs \ Journal) \in Txs \ Journal
  <2>1. Txs \ Journal \subseteq Nat
    BY DEF Txs
  <2>2. Journal # Txs => Txs \ Journal # {}
    BY <1>1
  <2> QED
    BY <2>1, <2>2, SmallestNumber
<1> USE DEF journalVars, controlVars, At
<1>10. CASE LoadJournal
  <2>1. MovesOn
    BY <1>1, <1>2, <1>10 DEF LoadJournal, MovesOn, Types, Flow, Phases
  <2>2. Flow'
    BY <1>2, <1>3, <1>10 DEF LoadJournal, Flow, Working, Settling, intent
  <2>3. Accounted'
    BY <1>1, <1>2, <1>3, <1>10 DEF LoadJournal, Flow, Accounted, Working, Settling
  <2> QED
    BY <2>1, <2>2, <2>3, MovesOnCInv
<1>11. CASE NextChain
  <2>1. MovesOn
    BY <1>1, <1>2, <1>5, <1>11 DEF NextChain, MovesOn, Types, Phases
  <2>2. Flow'
    <3>1. CASE todo = {}
      BY <1>2, <1>3, <1>11, <3>1 DEF NextChain, Flow, Working, Settling, intent
    <3>2. CASE todo # {}
      <4>1. /\ cur' \in todo /\ cur' \in Journal /\ plan' = <<chain[cur'][1]>> /\ chain' = chain
            /\ pc' = IF Len(chain[cur']) < 3 THEN "lease" ELSE "recheck"
            /\ run' = "chains"
        BY <1>2, <1>5, <1>11, <3>2 DEF NextChain, Accounted
      <4>2. Len(chain[cur']) \in 1..6
        BY <1>1, <4>1
      <4>3. FactsFit'
        <5> DEFINE n == Len(chain'[cur'])
        <5>1. plan' # << >> /\ n \in 1..6 /\ run' = "chains" /\ Facts' = n
              /\ pc' = IF n < 3 THEN "lease" ELSE "recheck"
          BY <4>1, <4>2 DEF Facts
        <5> HIDE DEF n
        <5>2. (pc' = "lease" /\ n \in 1..2) \/ (pc' = "recheck" /\ n \in 3..6)
          BY <5>1
        <5> QED
          BY <5>1, <5>2 DEF FactsFit
      <4> QED
        BY <4>1, <4>3 DEF Flow, Settling, intent
    <3> QED
      BY <3>1, <3>2
  <2>3. Accounted'
    BY <1>1, <1>2, <1>3, <1>5, <1>11 DEF NextChain, Accounted, Working, Settling
  <2> QED
    BY <2>1, <2>2, <2>3, MovesOnCInv
<1>12. CASE DiscoverUnbound
  <2>1. MovesOn
    BY <1>1, <1>2, <1>12 DEF DiscoverUnbound, MovesOn, Types, Phases
  <2>2. Flow'
    BY <1>2, <1>3, <1>12 DEF DiscoverUnbound, Flow, Working, Settling, intent
  <2>3. Accounted'
    BY <1>1, <1>2, <1>3, <1>12 DEF DiscoverUnbound, Accounted, Working, Settling
  <2> QED
    BY <2>1, <2>2, <2>3, MovesOnCInv
<1>13. CASE NextSource
  <2>1. MovesOn
    BY <1>1, <1>2, <1>6, <1>13 DEF NextSource, MovesOn, Types, Phases
  <2>2. Flow'
    BY <1>1, <1>2, <1>3, <1>6, <1>13 DEF NextSource, Flow, Working, Settling, intent, FactsFit, Facts
  <2>3. Accounted'
    BY <1>1, <1>2, <1>3, <1>6, <1>13 DEF NextSource, Accounted, Working, Settling
  <2> QED
    BY <2>1, <2>2, <2>3, MovesOnCInv
<1>14. CASE PlanFresh
  <2>1. PlanNow(NextSequence) = << >> \/ PlanNow(NextSequence) = <<PlanNow(NextSequence)[1]>>
    BY DEF PlanNow
  <2>2. MovesOn
    BY <1>1, <1>2, <1>14, <2>1 DEF PlanFresh, MovesOn, Types, Phases, Flow
  <2>3. Flow'
    BY <1>1, <1>2, <1>3, <1>14 DEF PlanFresh, Flow, Working, Settling, intent, FactsFit, Facts
  <2>4. Accounted'
    BY <1>1, <1>2, <1>3, <1>14 DEF PlanFresh, Accounted, Working, Settling
  <2> QED
    BY <2>2, <2>3, <2>4, MovesOnCInv
<1>15. CASE Settled
  <2>1. MovesOn
    BY <1>1, <1>2, <1>15 DEF Settled, MovesOn, Types, Phases, Flow
  <2>2. Flow'
    BY <1>1, <1>2, <1>3, <1>15 DEF Settled, Flow, Working, Settling, intent
  <2>3. Facts \in {3, 6} /\ cur \in Journal
    <3>1. Working /\ FactsFit /\ pc = "settled"
      BY <1>2, <1>15 DEF Settled, Flow, Working, Settling, Types, Phases
    <3>2. Facts \in {3, 6}
      BY <3>1 DEF FactsFit
    <3> QED
      BY <1>1, <3>2 DEF Facts
  <2>4. Accounted'
    BY <1>1, <1>2, <1>3, <1>15, <2>3 DEF Settled, Accounted, Working, Settling, Facts
  <2> QED
    BY <2>1, <2>2, <2>4, MovesOnCInv
<1>16. CASE Admit
  <2>1. cur' \in pending /\ Len(chain[cur']) = 3 /\ cur' \in Journal
    BY <1>2, <1>4, <1>16 DEF Admit, Accounted
  <2>2. MovesOn
    BY <1>1, <1>2, <1>16, <2>1 DEF Admit, MovesOn, Types, Phases
  <2>3. Flow'
    BY <1>1, <1>2, <1>3, <1>16, <2>1 DEF Admit, Flow, Working, Settling, intent, FactsFit, Facts
  <2>4. Accounted'
    BY <1>1, <1>2, <1>3, <1>16, <2>1 DEF Admit, Accounted, Working, Settling
  <2> QED
    BY <2>2, <2>3, <2>4, MovesOnCInv
<1>17. CASE Advance
  <2>1. MovesOn
    BY <1>1, <1>2, <1>17 DEF Advance, MovesOn, Types, Phases, workVars
  <2>2. Flow'
    BY <1>2, <1>3, <1>17 DEF Advance, Flow, Working, Settling, intent, workVars
  <2>3. Accounted'
    BY <1>1, <1>2, <1>3, <1>17 DEF Advance, Accounted, Working, Settling, workVars
  <2> QED
    BY <2>1, <2>2, <2>3, MovesOnCInv
<1>18. CASE DiscoverManifests
  <2>1. MovesOn
    BY <1>1, <1>2, <1>18 DEF DiscoverManifests, MovesOn, Types, Phases
  <2>2. Flow'
    BY <1>2, <1>3, <1>18 DEF DiscoverManifests, Flow, Working, Settling, intent
  <2>3. Accounted'
    BY <1>1, <1>2, <1>3, <1>18 DEF DiscoverManifests, Accounted, Working, Settling
  <2> QED
    BY <2>1, <2>2, <2>3, MovesOnCInv
<1> QED
  BY <1>10, <1>11, <1>12, <1>13, <1>14, <1>15, <1>16, <1>17, <1>18 DEF Between

\* Settling a temporary touches raw files only.
LEMMA TempStepSettles ==
    ASSUME TempStep
    PROVE  /\ Settling /\ pc = "next" /\ run' \in {"temporaries", "naming", "syncing", "blocked"}
           /\ UNCHANGED <<journalVars, controlVars, pc, cur, workVars, proof>>
BY DEF TempStep, SettleTemporary, PublishTemporary, SyncTemporary, At, Settling

LEMMA TempStepCInv == ASSUME CInv, TempStep PROVE CInv'
<1>1. /\ Settling /\ pc = "next" /\ run' \in {"temporaries", "naming", "syncing", "blocked"}
      /\ UNCHANGED <<chain, durable, ctl, ctlImg, cman, cmanImg, row, pc, cur, src, plan, todo, found, pending>>
  BY TempStepSettles DEF journalVars, controlVars, workVars
<1>2. Types /\ Flow /\ Accounted
  BY DEF CInv
<1>3. Journal' = Journal
  BY <1>1 DEF Journal
<1>4. MovesOn
  BY <1>1, <1>2 DEF MovesOn, Types, Phases, Settling
<1>5. Flow'
  BY <1>1, <1>2, <1>3 DEF Flow, Working, Settling, intent
<1>6. Accounted'
  BY <1>1, <1>2, <1>3 DEF Accounted, Working, Settling
<1> QED
  BY <1>4, <1>5, <1>6, MovesOnCInv

\* The carrier that Admit binds is no other transaction's: what is complete has
\* a carrier that exists.
LEMMA NextCarrierFree ==
    ASSUME CInv, NEW t \in Journal, Len(chain[t]) >= 5
    PROVE  chain[t][4].carrier # NextCarrier
<1> DEFINE K == {0} \cup {k \in Carriers : ctl[k] # "absent" \/ cman[k] # "absent"}
<1>1. K \subseteq 0..MaxTx /\ K # {} /\ MaxTx \in Nat
  BY RecoveryAssumption DEF Carriers, Txs
<1>2. Max(K) \in K /\ \A y \in K : Max(K) >= y
  <2> HIDE DEF K
  <2> QED
    BY <1>1, GreatestNumber
<1>3. NextCarrier = 1 + Max(K)
  BY DEF NextCarrier
<1>4. chain[t][4].carrier \in K
  <2>1. chain[t][4].carrier \in Carriers /\ Shown(t, chain[t][4].carrier)
    BY LengthsNow DEF CInv, Control
  <2> QED
    BY <2>1 DEF CInv, Control, Shown
<1>5. ASSUME NEW m, NEW c, m \in K, c \in K, m >= c PROVE c # 1 + m
  BY <1>1, <1>5
<1> HIDE DEF K
<1> QED
  BY <1>2, <1>3, <1>4, <1>5

\* At a step of a transaction no other one is between two facts.
LEMMA OthersRest ==
    ASSUME CInv, Working, pc # "next", Facts \notin {0, 3, 6}, NEW t \in Journal, t # cur
    PROVE  ~Busy(t)
<1>1. cur \in Journal
  BY LengthsNow DEF Facts
<1>2. Busy(cur)
  BY DEF Busy, Facts
<1> QED
  BY <1>1, <1>2 DEF CInv, Synced

\* Nor after the replay, whatever facts it has.
LEMMA OthersRestLater ==
    ASSUME CInv, Working, pc # "next", run # "chains", NEW t \in Journal, t # cur
    PROVE  ~Busy(t)
<1>1. Len(chain[t]) \in {3, 6} /\ t \in Txs
  BY LengthsNow DEF CInv, Accounted
<1>2. durable[t] = Len(chain[t])
  BY <1>1 DEF CInv, Synced, Working, Settling
<1> QED
  BY <1>1, <1>2 DEF Busy

\* A new fact: only the transaction at hand has an unsynced one, and an
\* ownership names a carrier that nobody has.
LEMMA PublishFactCInv == ASSUME CInv, PublishFact PROVE CInv'
<1>1. Working /\ FactsFit /\ pc = "fact" /\ Facts \in 0..5 /\ plan # << >>
  <2>1. Working /\ FactsFit /\ pc = "fact"
    BY DEF CInv, Types, Flow, PublishFact, At, Working, Settling, Phases
  <2> QED
    BY <2>1 DEF FactsFit
<1>a. Len(chain[cur]) \in 0..5 /\ Facts = Len(chain[cur])
  BY <1>1 DEF Facts
<1>c. Len(chain[cur]) <= 5
  <2>1. Facts <= 5
    BY <1>1
  <2> QED
    BY <2>1 DEF Facts
<1>b. /\ run \in {"manifests", "sources"} => Facts <= 2
      /\ run = "serving" => Facts >= 3
      /\ Facts = 3 => run = "serving"
  BY <1>1 DEF FactsFit
<1>2. CASE run' = "blocked"
  <2>1. Stays
    BY <1>1, <1>2 DEF PublishFact, Stays, Block, Goto, Working, Settling, journalVars
  <2> QED
    BY <2>1, StaysCInv
<1>3. CASE run' # "blocked"
  <2>1. /\ chain' = [chain EXCEPT ![cur] = Append(chain[cur], NextFact)] /\ pc' = "factsync"
        /\ UNCHANGED <<run, cur, src, plan, todo, found, pending, durable, ctl, ctlImg, cman, cmanImg, row>>
    BY <1>3 DEF PublishFact, Block, Goto, workVars, controlVars
  <2>2. /\ \A t \in Txs : Len(chain[t]) \in 0..6 /\ (t \in Journal <=> Len(chain[t]) >= 1)
        /\ Journal \subseteq Txs /\ cur \in Txs
    BY LengthsNow
  <2>3. /\ \A t \in Txs : IsChain(chain'[t]) /\ (t # cur => chain'[t] = chain[t])
        /\ chain' = [t \in Txs |-> chain'[t]]
        /\ Len(chain'[cur]) = Len(chain[cur]) + 1
        /\ \A i \in 1..Len(chain[cur]) : chain'[cur][i] = chain[cur][i]
        /\ chain'[cur][Len(chain[cur]) + 1] = NextFact
    <3>0. IsChain(chain[cur])
      BY <2>2 DEF CInv, Types
    <3>1. IsChain(chain[cur]) /\ Len(chain[cur]) <= 5
      BY <1>c, <3>0
    <3>2. chain'[cur] = Append(chain[cur], NextFact)
      BY <2>1, <2>2 DEF CInv, Types
    <3>3. \A t \in Txs : t # cur => chain'[t] = chain[t]
      BY <2>1 DEF CInv, Types
    <3>4. chain' = [t \in Txs |-> chain'[t]]
      BY <2>1 DEF CInv, Types
    <3>5. /\ IsChain(chain'[cur]) /\ Len(chain'[cur]) = Len(chain[cur]) + 1
          /\ \A i \in 1..Len(chain[cur]) : chain'[cur][i] = chain[cur][i]
          /\ chain'[cur][Len(chain[cur]) + 1] = NextFact
      BY <3>1, <3>2, AppendChain
    <3> QED
      BY <3>3, <3>4, <3>5 DEF CInv, Types
  <2>4. \A t \in Txs : Len(chain'[t]) \in 0..6 /\ (t \in Journal' <=> Len(chain'[t]) >= 1)
    BY <2>3, Lengths DEF Journal
  <2>5. Journal' = Journal \cup {cur} /\ cur \in Journal'
    <3>1. cur \in Journal'
      BY <2>2, <2>3, <2>4
    <3>2. \A t \in Txs : t # cur => (t \in Journal' <=> t \in Journal)
      BY <2>2, <2>3, <2>4
    <3>3. Journal' \subseteq Txs
      BY DEF Journal
    <3> QED
      BY <2>2, <3>1, <3>2, <3>3
  <2>6. Types'
    BY <2>1, <2>3 DEF CInv, Types
  <2>7. Flow'
    <3> DEFINE n == Len(chain[cur])
    <3>1. n \in 0..5 /\ Facts = n /\ Facts' = n + 1
      BY <1>1, <2>1, <2>3 DEF Facts
    <3>2. FactsFit'
      <4>1. /\ run \in {"manifests", "sources"} => n <= 2
            /\ run = "serving" => n >= 3
        BY <1>b, <3>1
      <4> HIDE DEF n
      <4> QED
        BY <1>1, <2>1, <3>1, <4>1 DEF FactsFit
    <3>3. intent' = chain'[cur][1]
      <4>1. CASE n = 0
        <5>1. NextFact = intent
          BY <3>1, <4>1 DEF NextFact
        <5> QED
          BY <2>1, <2>3, <4>1, <5>1 DEF intent
      <4>2. CASE n # 0
        <5>1. cur \in Journal /\ 1 \in 1..n
          BY <2>2, <3>1, <4>2
        <5> QED
          BY <1>1, <2>1, <2>3, <5>1 DEF intent, CInv, Flow
      <4> QED
        BY <4>1, <4>2
    <3>4. ~Settling
      BY <1>1 DEF CInv, Flow
    <3> QED
      BY <1>1, <2>1, <3>2, <3>3, <3>4 DEF Flow, Working, Settling
  <2>8. Accounted'
    BY <1>1, <2>1, <2>2, <2>3, <2>5 DEF CInv, Accounted, Working, Settling
  <2>9. durable[cur] = Len(chain[cur]) /\ \A t \in Txs : durable[t] = Len(chain[t])
    BY <1>1, <2>2 DEF CInv, Synced, Working, Settling
  <2>10. Synced'
    <3>1. \A t \in Journal : t # cur => ~Busy(t)
      <4>1. run = "chains" => Facts \notin {0, 3, 6}
        BY <1>1 DEF FactsFit
      <4> QED
        BY <1>1, <4>1, OthersRest, OthersRestLater
    <3>2. \A t \in Journal' : t # cur => ~Busy(t)'
      BY <2>1, <2>2, <2>3, <2>5, <3>1 DEF Busy
    <3> QED
      BY <2>1, <2>2, <2>3, <2>9, <3>2 DEF Synced
  <2>11. Control'
    <3>a. Len(chain[cur]) = 3 => NextFact.carrier = NextCarrier
      BY <1>a DEF NextFact, OwnershipFact
    <3>b. \A t \in Journal' : Len(chain'[t]) >= 4 =>
             IF t = cur /\ Len(chain[cur]) = 3 THEN chain'[t][4].carrier = NextCarrier
             ELSE t \in Journal /\ Len(chain[t]) >= 4 /\ chain'[t][4].carrier = chain[t][4].carrier
      <4>1. ASSUME NEW t \in Journal', Len(chain'[t]) >= 4, t # cur
            PROVE  t \in Journal /\ Len(chain[t]) >= 4 /\ chain'[t][4].carrier = chain[t][4].carrier
        BY <2>2, <2>3, <2>5, <4>1
      <4>2. ASSUME Len(chain'[cur]) >= 4, Len(chain[cur]) # 3
            PROVE  cur \in Journal /\ Len(chain[cur]) >= 4 /\ chain'[cur][4] = chain[cur][4]
        <5>1. Len(chain[cur]) \in {4, 5}
          BY <1>a, <2>3, <4>2
        <5> QED
          BY <2>2, <2>3, <5>1
      <4>3. Len(chain[cur]) = 3 => chain'[cur][4] = NextFact
        BY <2>3
      <4> QED
        BY <3>a, <4>1, <4>2, <4>3
    <3>1. \A t \in Txs, k \in Carriers : Owns(t, k) => Owns(t, k)'
      <4>1. \A t \in Txs : t # cur => \A k \in Carriers : Owns(t, k) => Owns(t, k)'
        BY <2>2, <2>3, <2>5 DEF Owns
      <4>2. Len(chain[cur]) >= 4 => Len(chain'[cur]) >= 4 /\ chain'[cur][4] = chain[cur][4]
        BY <1>a, <2>3
      <4>3. \A t \in Txs : t = cur => \A k \in Carriers : Owns(t, k) => Owns(t, k)'
        BY <2>1, <2>5, <4>2 DEF Owns
      <4> QED
        BY <4>1, <4>3, Zenon
    <3>2. \A t \in Txs, k \in Carriers :
             Owns(t, k)' => Owns(t, k) \/ (t = cur /\ Len(chain[cur]) = 3 /\ k = NextCarrier)
      BY <3>b DEF Owns
    <3>3. Len(chain[cur]) = 3 => NextCarrier \in Carriers /\ \A t \in Txs : ~Owns(t, NextCarrier)
      <4>1. Len(chain[cur]) = 3 => run = "serving" /\ NextCarrier \in Carriers
        BY <1>1, <1>a, <1>b DEF CInv, Control
      <4>2. ASSUME Len(chain[cur]) = 3, NEW t \in Txs, Owns(t, NextCarrier) PROVE FALSE
        <5>1. t \in Journal /\ t # cur /\ Len(chain[t]) >= 4
          BY <4>2 DEF Owns
        <5>2. Len(chain[t]) \in {3, 6}
          BY <1>1, <4>1, <4>2, <5>1 DEF CInv, Accounted
        <5>3. \A n \in {3, 6} : n >= 4 => n >= 5
          OBVIOUS
        <5>4. Len(chain[t]) >= 5
          BY <5>1, <5>2, <5>3, Zenon
        <5> QED
          BY <4>2, <5>1, <5>4, NextCarrierFree DEF Owns
      <4> QED
        BY <4>1, <4>2
    <3>4. \A t, u \in Txs, k \in Carriers : Owns(t, k)' /\ Owns(u, k)' => t = u
      BY <3>2, <3>3 DEF CInv, Control
    <3>5. /\ \A k \in Carriers : NoCarrier(k)' <=> NoCarrier(k)
          /\ \A t, k : Shown(t, k)' <=> Shown(t, k)
      BY <2>1 DEF NoCarrier, Shown
    <3>6. \A k \in Carriers :
             NoCarrier(k)' \/ \E t \in Txs : Owns(t, k)' /\ durable'[t] >= 4 /\ row'[k] \subseteq {t}
      BY <2>1, <3>1, <3>5 DEF CInv, Control
    <3>7. \A t \in Journal' : Len(chain'[t]) >= 4 => chain'[t][4].carrier \in Carriers
      BY <3>3, <3>b DEF CInv, Control
    <3>8. \A t \in Journal' : Len(chain'[t]) >= 5 => Shown(t, chain'[t][4].carrier)
      <4>1. SUFFICES ASSUME NEW t \in Journal', Len(chain'[t]) >= 5
                     PROVE  Shown(t, chain'[t][4].carrier)
        OBVIOUS
      <4>2. CASE t # cur
        BY <2>2, <2>3, <2>5, <4>1, <4>2 DEF CInv, Control
      <4>3. CASE t = cur
        <5>1. Len(chain[cur]) \in 4..5 /\ chain'[t][4] = chain[cur][4]
          BY <1>a, <2>3, <4>1, <4>3
        <5>2. Len(chain[cur]) = 4 => Shown(cur, chain[cur][4].carrier)
          BY <1>1, <1>a DEF CInv, Control, carrier
        <5>3. Len(chain[cur]) = 5 => Shown(cur, chain[cur][4].carrier)
          <6>1. Len(chain[cur]) = 5 => cur \in Journal /\ Len(chain[cur]) >= 5
            BY SMTT(30), <2>2
          <6> QED
            BY <6>1 DEF CInv, Control
        <5> QED
          BY <4>3, <5>1, <5>2, <5>3
      <4> QED
        BY <4>2, <4>3
    <3>9. \A t \in Journal' : Len(chain'[t]) >= 5 => Shown(t, chain[t][4].carrier)'
      BY <3>5, <3>8 DEF Shown
    <3> QED
      BY <2>1, <3>4, <3>6, <3>7, <3>9 DEF CInv, Control
  <2> QED
    BY <2>6, <2>7, <2>8, <2>10, <2>11 DEF CInv
<1> QED
  BY <1>2, <1>3

\* The sync of a fact: no fact is unsynced any more, and the next step has the
\* number of facts it expects.
LEMMA SyncFactCInv == ASSUME CInv, SyncFact PROVE CInv'
<1> DEFINE n == Len(chain[cur])
<1>1. Working /\ FactsFit /\ pc = "factsync"
  BY DEF CInv, Types, Flow, SyncFact, At, Working, Settling, Phases
<1>2. Facts = n /\ n \in 1..6 /\ plan # << >>
  <2>1. Facts \in 1..6 /\ plan # << >>
    BY <1>1 DEF FactsFit
  <2> QED
    BY <2>1 DEF Facts
<1>3. /\ durable' = [durable EXCEPT ![cur] = n]
      /\ pc' = CASE n = 1 -> "data" [] n = 2 -> "verify"
                 [] n = 3 -> IF run = "chains" THEN "recheck" ELSE "settled"
                 [] n = 4 -> "carrier" [] n = 5 -> "fact" [] n = 6 -> "settled"
      /\ UNCHANGED <<chain, run, cur, src, plan, todo, found, pending, ctl, ctlImg, cman, cmanImg, row>>
  BY <1>2 DEF SyncFact, Goto, workVars, controlVars
<1>4. /\ \A t \in Txs : Len(chain[t]) \in 0..6 /\ (t \in Journal <=> Len(chain[t]) >= 1)
      /\ Journal \subseteq Txs /\ cur \in Txs
  BY LengthsNow
<1>5. Journal' = Journal
  BY <1>3 DEF Journal
<1>6. /\ durable' \in [Txs -> Nat] /\ durable'[cur] = n /\ durable[cur] + 1 = n /\ durable[cur] \in Nat
      /\ \A t \in Txs : t # cur => durable'[t] = durable[t]
  BY <1>1, <1>2, <1>3, <1>4 DEF CInv, Types, Synced
<1>7. Types'
  BY <1>3, <1>6 DEF CInv, Types
<1>8. Flow'
  <2>1. Facts' = n
    BY <1>3 DEF Facts
  <2>2. /\ run \in {"manifests", "sources"} => n <= 3
        /\ run = "serving" => n >= 3
        /\ n = 3 => run # "serving"
    BY <1>1, <1>2 DEF FactsFit
  <2> HIDE DEF n
  <2>3. FactsFit'
    BY <1>1, <1>2, <1>3, <2>1, <2>2 DEF FactsFit
  <2> QED
    BY <1>1, <1>3, <1>5, <2>3 DEF CInv, Flow, Working, Settling, intent
<1>9. pc' \notin {"next", "factsync"} /\ (pc' = "fact" => n = 5)
  <2> HIDE DEF n
  <2> QED
    BY <1>2, <1>3
<1>10. Accounted'
  BY <1>1, <1>3, <1>5, <1>9 DEF CInv, Accounted, Working, Settling
<1>11. Synced'
  <2>1. \A t \in Txs : durable'[t] = Len(chain'[t])
    BY <1>1, <1>3, <1>6 DEF CInv, Synced, Working, Settling
  <2>2. ASSUME NEW t \in Journal, Busy(t)' PROVE Busy(t)
    <3>1. t # cur => durable'[t] = durable[t]
      BY <1>4, <1>6
    <3>2. CASE t # cur
      BY <1>3, <2>2, <3>1, <3>2 DEF Busy
    <3>3. CASE t = cur
      <4>1. durable[cur] \notin {3, 6} \/ n \notin {3, 6}
        <5> HIDE DEF n
        <5> QED
          BY <1>6
      <4> QED
        BY <3>3, <4>1 DEF Busy
    <3> QED
      BY <3>2, <3>3
  <2>3. \A t, u \in Journal' : Busy(t)' /\ Busy(u)' => t = u
    BY <1>5, <2>2 DEF CInv, Synced
  <2> QED
    BY <1>9, <2>1, <2>3 DEF Synced
<1>12. Control'
  <2>1. \A t \in Txs : \A k \in Carriers : Owns(t, k)' <=> Owns(t, k)
    BY <1>3, <1>5 DEF Owns
  <2>2. /\ \A k \in Carriers : NoCarrier(k)' <=> NoCarrier(k)
        /\ \A t, k : Shown(t, k)' <=> Shown(t, k)
    BY <1>3 DEF NoCarrier, Shown
  <2>3. \A t \in Txs : durable[t] >= 4 => durable'[t] >= 4
    <3>1. durable[cur] >= 4 => durable'[cur] >= 4
      <4> HIDE DEF n
      <4> QED
        BY <1>6
    <3> QED
      BY <1>6, <3>1
  <2>4. \A k \in Carriers :
           NoCarrier(k)' \/ \E t \in Txs : Owns(t, k)' /\ durable'[t] >= 4 /\ row'[k] \subseteq {t}
    BY <1>3, <2>1, <2>2, <2>3 DEF CInv, Control
  <2>5. \A t, u \in Txs, k \in Carriers : Owns(t, k)' /\ Owns(u, k)' => t = u
    BY <2>1 DEF CInv, Control
  <2>6. \A t \in Journal' : Len(chain'[t]) >= 4 => chain'[t][4].carrier \in Carriers
    BY <1>3, <1>5 DEF CInv, Control
  <2>7. \A t \in Journal' : Len(chain'[t]) >= 5 => Shown(t, chain[t][4].carrier)'
    BY <1>3, <1>5 DEF CInv, Control, Shown
  <2>8. pc' = "fact" => Facts' \notin {3, 4}
    <3>1. Facts' = n
      BY <1>3 DEF Facts
    <3> HIDE DEF n
    <3> QED
      BY <1>9, <3>1
  <2> QED
    BY <1>3, <2>4, <2>5, <2>6, <2>7, <2>8 DEF CInv, Control
<1> QED
  BY <1>7, <1>8, <1>10, <1>11, <1>12 DEF CInv

\* What a power loss leaves of files is what their syncs allow.
LEMMA LeftFacts ==
    ASSUME NEW X, NEW S, NEW now \in [X -> S], NEW img \in [X -> SUBSET S],
           \A x \in X : now[x] \in img[x], NEW f \in Left(now, img)
    PROVE  f \in [X -> S] /\ \A x \in X : f[x] \in img[x]
<1> DEFINE dirty == {x \in X : img[x] # {now[x]}}
<1>1. PICK g \in [dirty -> UNION {img[x] : x \in dirty}] :
         /\ \A x \in dirty : g[x] \in img[x]
         /\ f = [x \in X |-> IF x \in dirty THEN g[x] ELSE now[x]]
  BY DEF Left
<1>2. \A x \in X : f[x] \in img[x]
  BY <1>1
<1>3. f = [x \in X |-> f[x]]
  BY <1>1
<1> QED
  BY <1>2, <1>3

\* The next start finds the journal and the carriers as the stop left them.
StartsAgain ==
    /\ run' = "load" /\ pc' = "next" /\ cur' = 1 /\ plan' = << >>
    /\ todo' = {} /\ pending' = {} /\ row' = row
    /\ chain' = [t \in Txs |-> chain'[t]] /\ durable' \in [Txs -> Nat]
    /\ \A t \in Txs :
          /\ IsChain(chain'[t]) /\ Len(chain'[t]) \in {durable[t], Len(chain[t])}
          /\ \A i \in 1..Len(chain'[t]) : chain'[t][i] = chain[t][i]
    /\ \/ chain' = chain /\ durable' = durable
       \/ \A t \in Txs : durable'[t] = Len(chain'[t])
    /\ ctl' \in [Carriers -> CtlStates] /\ ctlImg' \in [Carriers -> SUBSET CtlStates]
    /\ cman' \in [Carriers -> CarrierManifestStates]
    /\ cmanImg' \in [Carriers -> SUBSET CarrierManifestStates]
    /\ \A k \in Carriers : /\ ctl'[k] \in ctlImg'[k] /\ ctlImg'[k] \subseteq ctlImg[k]
                           /\ cman'[k] \in cmanImg'[k] /\ cmanImg'[k] \subseteq cmanImg[k]

\* A start after any stop has the invariant again.
LEMMA StartsAgainCInv == ASSUME CInv, StartsAgain PROVE CInv'
<1>1. /\ \A t \in Txs : Len(chain[t]) \in 0..6 /\ (t \in Journal <=> Len(chain[t]) >= 1)
      /\ Journal \subseteq Txs
  BY LengthsNow
<1>2. \A t \in Txs : Len(chain'[t]) \in 0..6 /\ (t \in Journal' <=> Len(chain'[t]) >= 1)
  BY Lengths DEF StartsAgain, Journal
<1>3. \A t \in Txs : durable[t] \in Nat /\ (durable[t] = Len(chain[t]) \/ durable[t] + 1 = Len(chain[t]))
  BY DEF CInv, Types, Synced
<1>4. \A t \in Txs : /\ durable[t] <= Len(chain'[t]) /\ Len(chain'[t]) <= Len(chain[t])
                     /\ durable'[t] >= durable[t] /\ durable'[t] \in Nat
  <2>1. ASSUME NEW t \in Txs
        PROVE  durable[t] <= Len(chain'[t]) /\ Len(chain'[t]) <= Len(chain[t])
    BY SMTT(30), <1>1, <1>3 DEF StartsAgain
  <2>2. ASSUME NEW t \in Txs PROVE durable'[t] >= durable[t] /\ durable'[t] \in Nat
    BY <1>2, <1>3, <2>1 DEF StartsAgain
  <2> QED
    BY <2>1, <2>2
<1>5. Journal' \subseteq Journal /\ Journal' \subseteq Txs
  <2>1. Journal' \subseteq Txs
    BY DEF Journal
  <2>2. ASSUME NEW t \in Journal' PROVE t \in Journal
    BY <1>1, <1>2, <1>4, <2>1
  <2> QED
    BY <2>1, <2>2
<1>6. Types'
  <2>1. 1 \in Txs /\ "load" \in Phases
    BY RecoveryAssumption DEF Txs, Phases
  <2>2. row' \in [Carriers -> SUBSET Txs]
    BY DEF CInv, Types, StartsAgain
  <2> QED
    BY <2>1, <2>2 DEF Types, StartsAgain
<1>7. Flow' /\ Accounted'
  BY DEF Flow, Accounted, StartsAgain, Working, Settling
<1>8. Synced'
  <2>1. \A t \in Txs : durable'[t] = Len(chain'[t]) \/ durable'[t] + 1 = Len(chain'[t])
    BY <1>3 DEF StartsAgain
  <2>2. ASSUME NEW t \in Txs, Busy(t)' PROVE Busy(t)
    BY <2>2 DEF Busy, StartsAgain
  <2>3. \A t, u \in Journal' : Busy(t)' /\ Busy(u)' => t = u
    BY <1>5, <2>2 DEF CInv, Synced
  <2> QED
    BY <2>1, <2>3 DEF Synced, StartsAgain, Working, Settling
<1>9. ASSUME NEW t \in Txs, Len(chain'[t]) >= 4
      PROVE  t \in Journal' /\ t \in Journal /\ Len(chain[t]) >= 4 /\ chain'[t][4] = chain[t][4]
  <2>1. 4 \in 1..Len(chain'[t]) /\ Len(chain[t]) >= 4 /\ Len(chain'[t]) >= 1 /\ Len(chain[t]) >= 1
    BY <1>1, <1>2, <1>4, <1>9
  <2> QED
    BY <1>1, <1>2, <2>1 DEF StartsAgain
<1>10. Control'
  <2>1. \A t \in Txs : \A k \in Carriers : Owns(t, k)' => Owns(t, k)
    BY <1>9 DEF Owns
  <2>2. ASSUME NEW t \in Txs, NEW k \in Carriers, Owns(t, k), durable[t] >= 4
        PROVE  Owns(t, k)' /\ durable'[t] >= 4
    <3>1. Len(chain'[t]) >= 4 /\ durable'[t] >= 4
      BY <1>2, <1>3, <1>4, <2>2
    <3> QED
      BY <1>9, <2>2, <3>1 DEF Owns
  <2>3. ASSUME NEW k \in Carriers
        PROVE  NoCarrier(k)' \/ \E t \in Txs : Owns(t, k)' /\ durable'[t] >= 4 /\ row'[k] \subseteq {t}
    <3>1. NoCarrier(k) => NoCarrier(k)'
      BY DEF NoCarrier, StartsAgain
    <3>2. row'[k] = row[k]
      BY DEF StartsAgain
    <3> QED
      BY <2>2, <3>1, <3>2 DEF CInv, Control
  <2>4. \A t, u \in Txs, k \in Carriers : Owns(t, k)' /\ Owns(u, k)' => t = u
    BY <2>1 DEF CInv, Control
  <2>5. \A t \in Journal' : Len(chain'[t]) >= 4 => chain'[t][4].carrier \in Carriers
    BY <1>5, <1>9 DEF CInv, Control
  <2>6. ASSUME NEW t \in Journal', Len(chain'[t]) >= 5, NEW k, k = chain'[t][4].carrier
        PROVE  Shown(t, k)'
    <3>1. t \in Txs /\ Len(chain'[t]) >= 4 /\ Len(chain[t]) >= 5
      BY <1>1, <1>2, <1>4, <1>5, <2>6
    <3>2. k \in Carriers /\ Shown(t, k)
      BY <1>9, <2>6, <3>1 DEF CInv, Control
    <3> QED
      BY <3>2 DEF Shown, StartsAgain
  <2>7. \A t \in Journal' : Len(chain'[t]) >= 5 => Shown(t, chain[t][4].carrier)'
    BY <2>6
  <2> QED
    BY <2>3, <2>4, <2>5, <2>7 DEF Control, StartsAgain
<1> QED
  BY <1>6, <1>7, <1>8, <1>10 DEF CInv

\* A killed process is started again with all its files.
LEMMA KillStarts == ASSUME CInv, Kill PROVE StartsAgain
<1>1. \A t \in Txs : IsChain(chain[t])
  BY DEF CInv, Types
<1> QED
  BY <1>1 DEF Kill, Begin, StartsAgain, CInv, Types, Control, journalVars

\* A power loss cuts each chain at a synced fact or one after it.
LEMMA PowerLossStarts == ASSUME CInv, PowerLoss PROVE StartsAgain
<1>1. PICK kept \in [Txs -> 0..6] :
         /\ \A t \in Txs : durable[t] <= kept[t] /\ kept[t] <= Len(chain[t])
         /\ chain' = [t \in Txs |-> SubSeq(chain[t], 1, kept[t])]
  BY DEF PowerLoss
<1>2. ASSUME NEW t \in Txs
      PROVE  /\ IsChain(chain'[t]) /\ Len(chain'[t]) \in {durable[t], Len(chain[t])}
             /\ \A i \in 1..Len(chain'[t]) : chain'[t][i] = chain[t][i]
  <2>1. IsChain(chain[t]) /\ kept[t] \in 0..6 /\ kept[t] <= Len(chain[t])
        /\ chain'[t] = SubSeq(chain[t], 1, kept[t])
    BY <1>1 DEF CInv, Types
  <2>2. /\ IsChain(chain'[t]) /\ Len(chain'[t]) = kept[t]
        /\ \A i \in 1..kept[t] : chain'[t][i] = chain[t][i]
    BY <2>1, CutChain
  <2>3. kept[t] \in {durable[t], Len(chain[t])}
    <3>1. /\ durable[t] \in Nat /\ Len(chain[t]) \in 0..6 /\ durable[t] <= kept[t]
          /\ durable[t] = Len(chain[t]) \/ durable[t] + 1 = Len(chain[t])
      BY <1>1, LengthsNow DEF CInv, Types, Synced
    <3>2. \A d \in Nat, l \in 0..6, k \in 0..6 :
             d <= k /\ k <= l /\ (d = l \/ d + 1 = l) => k \in {d, l}
      OBVIOUS
    <3> QED
      BY <2>1, <3>1, <3>2, Zenon
  <2> QED
    BY <2>2, <2>3
<1>3. /\ ctl' \in [Carriers -> CtlStates] /\ \A k \in Carriers : ctl'[k] \in ctlImg[k]
      /\ cman' \in [Carriers -> CarrierManifestStates] /\ \A k \in Carriers : cman'[k] \in cmanImg[k]
  <2>1. ctl' \in Left(ctl, ctlImg) /\ cman' \in Left(cman, cmanImg)
    BY DEF PowerLoss
  <2> QED
    BY <2>1, LeftFacts DEF CInv, Types, Control
<1>4. /\ ctlImg' = [k \in Carriers |-> {ctl'[k]}] /\ cmanImg' = [k \in Carriers |-> {cman'[k]}]
      /\ durable' = [t \in Txs |-> Len(chain'[t])] /\ Begin
  BY DEF PowerLoss
<1>5. durable' \in [Txs -> Nat] /\ \A t \in Txs : durable'[t] = Len(chain'[t])
  <2>1. \A t \in Txs : Len(chain'[t]) \in 0..6
    BY <1>2, Lengths
  <2> QED
    BY <1>4, <2>1
<1>6. chain' = [t \in Txs |-> chain'[t]]
  BY <1>1
<1> QED
  BY <1>2, <1>3, <1>4, <1>5, <1>6 DEF Begin, StartsAgain

\* The journal and the control stream agree at every step of every start, however
\* the earlier ones were ended: CInv is an invariant.
THEOREM CInvAlways == Spec => []CInv
<1>1. Init => CInv
  BY CInitially
<1>2. CInv /\ [Next]_vars => CInv'
  <2>1. SUFFICES ASSUME CInv, [Next]_vars PROVE CInv'
    OBVIOUS
  <2>2. CASE SourceStep
    BY <2>1, <2>2, SourceStepStays, StaysCInv
  <2>3. CASE CarrierStep
    BY <2>1, <2>3, CarrierStepStays, CarrierStaysCInv
  <2>4. CASE Between
    BY <2>1, <2>4, BetweenCInv
  <2>5. CASE PublishFact
    BY <2>1, <2>5, PublishFactCInv
  <2>6. CASE SyncFact
    BY <2>1, <2>6, SyncFactCInv
  <2>7. CASE Kill
    BY <2>1, <2>7, KillStarts, StartsAgainCInv
  <2>8. CASE PowerLoss
    BY <2>1, <2>8, PowerLossStarts, StartsAgainCInv
  <2>9. CASE UNCHANGED <<journalVars, controlVars, run, pc, cur, workVars>>
    <3> USE DEF journalVars, controlVars, workVars
    <3>1. Journal' = Journal /\ NextCarrier' = NextCarrier /\ FactsFit' = FactsFit
      BY <2>9 DEF Journal, NextCarrier, FactsFit, Facts
    <3>2. Types' /\ Flow' /\ Accounted' /\ Synced'
      BY <2>1, <2>9, <3>1 DEF CInv, Types, Flow, Accounted, Synced, Busy, Working, Settling, intent
    <3>3. Control'
      BY <2>1, <2>9, <3>1 DEF CInv, Control, Owns, NoCarrier, Shown, Working, Settling, Facts, carrier
    <3> QED
      BY <3>2, <3>3 DEF CInv
  <2>10. ASSUME NEW p \in Parts, RemoveData(p) PROVE CInv'
    BY <2>9, <2>10 DEF RemoveData
  <2>11. CASE UNCHANGED vars
    BY <2>9, <2>11 DEF vars
  <2>12. CASE TempStep
    BY <2>1, <2>12, TempStepCInv
  <2> QED
    BY <2>1, <2>2, <2>3, <2>4, <2>5, <2>6, <2>7, <2>8, <2>10, <2>11, <2>12
       DEF Next, Process, SourceStep, CarrierStep, Between, TempStep
<1> QED
  BY <1>1, <1>2, PTL DEF Spec

\* A control event is told once (service.py:_process_pending_recovery_control,
\* recovery.py:_restore_owned_control_carrier): ToldOnce holds in every state.
THEOREM ToldAlwaysOnce == Spec => []ToldOnce
<1>1. CInv => ToldOnce
  <2>1. SUFFICES ASSUME CInv PROVE ToldOnce
    OBVIOUS
  <2>2. \A j, k \in Carriers : j # k => row[j] \cap row[k] = {}
    <3>1. SUFFICES ASSUME NEW j \in Carriers, NEW k \in Carriers, j # k, NEW t \in row[j] \cap row[k]
                   PROVE  FALSE
      OBVIOUS
    <3>2. Owns(t, j) /\ Owns(t, k)
      BY <2>1, <3>1 DEF CInv, Control, NoCarrier
    <3> QED
      BY <3>1, <3>2 DEF Owns
  <2>3. \A t \in Journal : Len(chain[t]) >= 5 => Shown(t, chain[t][4].carrier)
    BY <2>1 DEF CInv, Control
  <2> QED
    BY <2>2, <2>3 DEF ToldOnce, Shown
<1> QED
  BY <1>1, CInvAlways, PTL
-----------------------------------------------------------------------------
(* Recovery implements RecoveryOutcomes *)

Stage == [p \in Parts |-> IF SettledFor(p, 6) THEN "done"
                          ELSE IF SettledFor(p, 3) THEN "settled" ELSE "open"]

\* t has settled part p, durably up to its nth fact; carrier k shows it for good.
Done(t, p, n) == t \in Journal /\ chain[t][1].source[2] = p /\ durable[t] >= n
OnStream(k) == ctlImg[k] = {"final"} /\ \A s \in cmanImg[k] : s \in {"nboth", "nfinal", "rboth", "rfinal"}
Tells(t, p, k) == t \in Journal /\ t \in row[k] /\ chain[t][1].source[2] = p /\ OnStream(k)

KeepsDone(t) == \A p \in Parts : (Done(t, p, 3)' <=> Done(t, p, 3)) /\ (Done(t, p, 6)' <=> Done(t, p, 6))
KeepsTold == \A t \in Txs, p \in Parts, k \in Carriers : Tells(t, p, k)' <=> Tells(t, p, k)

OutcomeStep == [outcomes!OutcomesNext]_(outcomes!outcomeVars)

\* What the refinement mapping reads off the facts ...
LEMMA ReadOff ==
    /\ \A p \in Parts : \A n : SettledFor(p, n) <=> \E t \in Txs : Done(t, p, n)
    /\ \A p \in Parts : p \in ToldParts <=> \E t \in Txs, k \in Carriers : Tells(t, p, k)
    /\ ToldParts \subseteq Parts
<1>1. Journal \subseteq Txs
  BY DEF Journal
<1> QED
  BY <1>1 DEF SettledFor, ToldParts, Done, Tells, OnStream

\* ... and in the next state.
LEMMA ReadOffLater ==
    /\ \A p \in Parts : SettledFor(p, 3)' <=> \E t \in Txs : Done(t, p, 3)'
    /\ \A p \in Parts : SettledFor(p, 6)' <=> \E t \in Txs : Done(t, p, 6)'
    /\ \A p \in Parts : p \in ToldParts' <=> \E t \in Txs, k \in Carriers : Tells(t, p, k)'
    /\ ToldParts' \subseteq Parts
<1>1. Journal' \subseteq Txs
  BY DEF Journal
<1> QED
  BY <1>1 DEF SettledFor, ToldParts, Done, Tells, OnStream

\* The stages are as before when no transaction has other durable facts.
LEMMA StageSame ==
    ASSUME \A t \in Txs : KeepsDone(t)
    PROVE  Stage' = Stage
<1>1. \A p \in Parts : (SettledFor(p, 3)' <=> SettledFor(p, 3)) /\ (SettledFor(p, 6)' <=> SettledFor(p, 6))
  BY ReadOff, ReadOffLater DEF KeepsDone
<1> QED
  BY <1>1 DEF Stage

\* The parts told are as before when every carrier shows what it showed.
LEMMA ToldSame == ASSUME KeepsTold PROVE ToldParts' = ToldParts
BY ReadOff, ReadOffLater DEF KeepsTold

\* A told part is settled; a part that is done is told.
LEMMA ToldSettled ==
    ASSUME CInv, NEW p \in ToldParts
    PROVE  SettledFor(p, 3)
<1>1. PICK t \in Txs, k \in Carriers : Tells(t, p, k) /\ p \in Parts
  BY ReadOff
<1>2. durable[t] >= 4
  BY <1>1 DEF Tells, CInv, Control, NoCarrier
<1>3. durable[t] >= 3
  BY <1>2 DEF CInv, Types
<1> QED
  BY <1>1, <1>3, ReadOff DEF Done, Tells

\* A carrier that is shown tells the part of its transaction.
LEMMA ShownIsTold ==
    ASSUME CInv, NEW t \in Journal, Len(chain[t]) >= 5, NEW p \in Parts, chain[t][1].source[2] = p
    PROVE  p \in ToldParts
<1>1. chain[t][4].carrier \in Carriers /\ Shown(t, chain[t][4].carrier) /\ t \in Txs
  BY LengthsNow DEF CInv, Control
<1>2. Tells(t, p, chain[t][4].carrier)
  BY <1>1 DEF Tells, Shown, OnStream
<1> QED
  BY <1>1, <1>2, ReadOff

\* The abstract steps.
LEMMA StutterStep ==
    ASSUME Stage' = Stage, ToldParts' = ToldParts, (run' = "up") = (run = "up")
    PROVE  OutcomeStep
BY DEF OutcomeStep, outcomes!outcomeVars, Stage

\* A part is settled.
LEMMA SettleStep ==
    ASSUME NEW p \in Parts, Stage[p] = "open", p \notin ToldParts, run # "up", run' # "up",
           Stage' = [Stage EXCEPT ![p] = "settled"], ToldParts' = ToldParts
    PROVE  OutcomeStep
<1>1. outcomes!Settle(p)
  BY DEF outcomes!Settle, Stage
<1> QED
  BY <1>1 DEF OutcomeStep, outcomes!OutcomesNext

\* A part that was told is done.
LEMMA FinishStep ==
    ASSUME NEW p \in Parts, Stage[p] = "settled", p \in ToldParts, run # "up", run' # "up",
           Stage' = [Stage EXCEPT ![p] = "done"], ToldParts' = ToldParts
    PROVE  OutcomeStep
<1>1. outcomes!Finish(p)
  BY DEF outcomes!Finish, Stage
<1> QED
  BY <1>1 DEF OutcomeStep, outcomes!OutcomesNext

\* A settled part is told.
LEMMA TellStep ==
    ASSUME NEW p \in Parts, Stage[p] = "settled", p \notin ToldParts, run # "up", run' # "up",
           ToldParts' = ToldParts \cup {p}, Stage' = Stage
    PROVE  OutcomeStep
<1>1. outcomes!Tell(p)
  BY DEF outcomes!Tell, Stage
<1> QED
  BY <1>1 DEF OutcomeStep, outcomes!OutcomesNext

\* The service opens.
LEMMA OpenStep ==
    ASSUME \A p \in Parts : Stage[p] # "settled", run # "up", run' = "up",
           ToldParts' = ToldParts, Stage' = Stage
    PROVE  OutcomeStep
<1>1. outcomes!Open
  BY DEF outcomes!Open, Stage
<1> QED
  BY <1>1 DEF OutcomeStep, outcomes!OutcomesNext

\* The service stops, and what is settled, told and done stays so.
LEMMA StopStep ==
    ASSUME run = "up", run' # "up", ToldParts' = ToldParts, Stage' = Stage
    PROVE  OutcomeStep
<1>1. outcomes!Stop
  BY DEF outcomes!Stop, Stage
<1> QED
  BY <1>1 DEF OutcomeStep, outcomes!OutcomesNext

\* One more fact of one transaction can no longer be lost.
LEMMA FactRipens ==
    ASSUME CInv, NEW t \in Journal, NEW n \in 1..6, durable[t] = n - 1, durable'[t] = n,
           n <= Len(chain[t]), t \in Journal', chain'[t][1] = chain[t][1],
           \A u \in Txs \ {t} : KeepsDone(u), KeepsTold, run # "up", run' # "up"
    PROVE  OutcomeStep
<1> DEFINE q == chain[t][1].source[2]
<1>1. t \in Txs /\ ToldParts' = ToldParts
  BY LengthsNow, ToldSame
<1>2. \A p \in Parts : /\ Done(t, p, 3) <=> p = q /\ n >= 4
                       /\ Done(t, p, 3)' <=> p = q /\ n >= 3
                       /\ Done(t, p, 6) <=> FALSE
                       /\ Done(t, p, 6)' <=> p = q /\ n = 6
  BY DEF Done
<1>3. CASE n \notin {3, 6} \/ q \notin Parts
  <2>1. KeepsDone(t)
    BY <1>2, <1>3 DEF KeepsDone
  <2>2. Stage' = Stage
    BY <2>1, StageSame
  <2> QED
    BY <1>1, <2>2, StutterStep
<1>4. CASE n = 3 /\ q \in Parts
  <2>1. \A p \in Parts : /\ SettledFor(p, 6)' <=> SettledFor(p, 6)
                         /\ SettledFor(p, 3)' <=> SettledFor(p, 3) \/ p = q
    BY <1>1, <1>2, <1>4, ReadOff, ReadOffLater DEF KeepsDone
  <2>2. \A p \in Parts : SettledFor(p, 6) => SettledFor(p, 3)
    BY DEF SettledFor, CInv, Types, Journal
  <2>3. CASE SettledFor(q, 3)
    <3>1. Stage' = Stage
      BY <2>1, <2>3 DEF Stage
    <3> QED
      BY <1>1, <3>1, StutterStep
  <2>4. CASE ~SettledFor(q, 3)
    <3>1. Stage[q] = "open" /\ q \notin ToldParts
      BY <1>4, <2>2, <2>4, ToldSettled DEF Stage
    <3>2. Stage' = [Stage EXCEPT ![q] = "settled"]
      BY <1>4, <2>1, <2>2, <2>4 DEF Stage
    <3> QED
      BY <1>1, <1>4, <3>1, <3>2, SettleStep
  <2> QED
    BY <2>3, <2>4
<1>5. CASE n = 6 /\ q \in Parts
  <2>1. \A p \in Parts : /\ SettledFor(p, 6)' <=> SettledFor(p, 6) \/ p = q
                         /\ SettledFor(p, 3)' <=> SettledFor(p, 3)
    BY <1>1, <1>2, <1>5, ReadOff, ReadOffLater DEF KeepsDone
  <2>2. SettledFor(q, 3)
    <3>1. Done(t, q, 3)
      BY <1>2, <1>5
    <3> QED
      BY <1>1, <1>5, <3>1, ReadOff
  <2>3. CASE SettledFor(q, 6)
    <3>1. Stage' = Stage
      BY <2>1, <2>3 DEF Stage
    <3> QED
      BY <1>1, <3>1, StutterStep
  <2>4. CASE ~SettledFor(q, 6)
    <3>1. Stage[q] = "settled" /\ q \in ToldParts
      <4>1. Len(chain[t]) >= 5
        BY <1>1, <1>5, LengthsNow
      <4> QED
        BY <1>5, <2>2, <2>4, <4>1, ShownIsTold DEF Stage
    <3>2. Stage' = [Stage EXCEPT ![q] = "done"]
      BY <1>5, <2>1, <2>4 DEF Stage
    <3> QED
      BY <1>1, <1>5, <3>1, <3>2, FinishStep
  <2> QED
    BY <2>3, <2>4
<1> QED
  BY <1>3, <1>4, <1>5

\* What leaves facts, carriers and the service as they are.
LEMMA UnchangedOutcome ==
    ASSUME CInv, UNCHANGED <<durable, ctlImg, cmanImg, row>>,
           \A t \in Journal : t \in Journal' /\ chain'[t][1] = chain[t][1],
           \A t \in Journal' \ Journal : durable[t] = 0
    PROVE  Stage' = Stage /\ ToldParts' = ToldParts
<1>1. \A t \in Txs : KeepsDone(t)
  BY DEF KeepsDone, Done
<1>2. ASSUME NEW t \in Txs, NEW k \in Carriers, t \in row[k] PROVE t \in Journal
  BY <1>2 DEF CInv, Control, NoCarrier, Owns
<1>3. KeepsTold
  BY <1>2 DEF KeepsTold, Tells, OnStream
<1> QED
  BY <1>1, <1>3, StageSame, ToldSame

\* At most the part of a transaction whose ownership is durable is newly told.
LEMMA OneMoreTold ==
    ASSUME CInv, NEW t \in Journal, durable[t] = 4, Stage' = Stage, ToldParts \subseteq ToldParts',
           ToldParts' \subseteq ToldParts \cup {chain[t][1].source[2]}, run # "up", run' # "up"
    PROVE  OutcomeStep
<1> DEFINE q == chain[t][1].source[2]
<1>1. CASE ToldParts' = ToldParts
  BY <1>1, StutterStep
<1>2. CASE ToldParts' # ToldParts
  <2>1. q \in Parts /\ q \notin ToldParts /\ ToldParts' = ToldParts \cup {q}
    BY <1>2, ReadOffLater
  <2>2. SettledFor(q, 3)
    <3>1. Done(t, q, 3) /\ t \in Txs
      BY LengthsNow DEF Done
    <3> QED
      BY <2>1, <3>1, ReadOff
  <2>3. ~SettledFor(q, 6)
    <3>1. SUFFICES ASSUME NEW u \in Txs, Done(u, q, 6) PROVE q \in ToldParts
      BY <2>1, ReadOff
    <3>2. u \in Journal /\ durable[u] >= 6 /\ durable[u] \in Nat /\ Len(chain[u]) \in 0..6
          /\ (durable[u] = Len(chain[u]) \/ durable[u] + 1 = Len(chain[u]))
      BY <3>1, LengthsNow DEF Done, CInv, Types, Synced
    <3>3. Len(chain[u]) >= 5
      BY <3>2
    <3> QED
      BY <2>1, <3>1, <3>2, <3>3, ShownIsTold DEF Done
  <2>4. Stage[q] = "settled"
    BY <2>1, <2>2, <2>3 DEF Stage
  <2> QED
    BY <2>1, <2>4, TellStep
<1> QED
  BY <1>1, <1>2

\* A carrier that is on the stream stays there.
LEMMA StreamKept ==
    ASSUME CInv, CarrierStep, OnStream(carrier), carrier \in Carriers
    PROVE  OnStream(carrier)' /\ row'[carrier] = row[carrier]
<1> DEFINE good == {"nboth", "nfinal", "rboth", "rfinal"}
<1>1. /\ ctl[carrier] = "final" /\ cman[carrier] \in good /\ ctlImg[carrier] = {"final"}
      /\ \A s \in cmanImg[carrier] : s \in good
  BY DEF CInv, Control, OnStream
<1>2. carrier' = carrier
  <2>1. CarrierStays
    BY CarrierStepStays
  <2> QED
    BY <2>1 DEF CarrierStays, carrier, journalVars
<1>3. CASE UNCHANGED controlVars
  BY <1>1, <1>2, <1>3 DEF OnStream, controlVars
<1>4. CASE SyncControl
  BY <1>1, <1>2, <1>4 DEF OnStream, SyncControl
<1>5. CASE SetCman(carrier, "nfinal") \/ SetCman(carrier, "rfinal")
  BY <1>1, <1>2, <1>5 DEF OnStream, SetCman, CInv, Types
<1> QED
  BY <1>1, <1>3, <1>4, <1>5 DEF CarrierStep, WriteCarrier, Acknowledge, RestoreData, SettleCoexistence,
     SettleNormalManifest, RestoreManifest, RestoreSync, AcceptCarrier

\* A step on a carrier tells its part, or nothing new.
LEMMA CarrierOutcome == ASSUME CInv, CarrierStep PROVE OutcomeStep
<1> DEFINE q == chain[cur][1].source[2]
<1>1. CarrierStays
  BY CarrierStepStays
<1>2. /\ UNCHANGED <<chain, durable, cur>> /\ Working /\ FactsFit /\ Facts = 4 /\ pc # "next"
      /\ run # "up" /\ run' # "up" /\ carrier' = carrier
  <2>1. /\ UNCHANGED <<chain, durable, cur>> /\ Working /\ pc # "next" /\ run # "up" /\ run' # "up"
        /\ pc \in {"carrier", "restore", "restoresync"}
    BY <1>1 DEF CarrierStays, journalVars, Working, Settling
  <2>2. FactsFit /\ Facts = 4
    BY <2>1 DEF CInv, Flow, FactsFit
  <2> QED
    BY <2>1, <2>2 DEF carrier
<1>3. cur \in Txs /\ cur \in Journal /\ Len(chain[cur]) = 4 /\ durable[cur] = 4
  <2>1. Len(chain[cur]) = 4 /\ cur \in Txs
    BY <1>2, LengthsNow DEF Facts
  <2>2. cur \in Journal
    BY <2>1, LengthsNow
  <2>3. run # "load" /\ pc # "factsync"
    BY <1>1 DEF CarrierStays, Working, Settling
  <2> QED
    BY <2>1, <2>2, <2>3 DEF CInv, Synced
<1>4. carrier \in Carriers /\ Owns(cur, carrier) /\ row[carrier] \subseteq {cur} /\ row'[carrier] \subseteq {cur}
  <2>1. carrier \in Carriers /\ Owns(cur, carrier)
    BY <1>3 DEF CInv, Control, Owns, carrier
  <2> QED
    BY <1>1, <1>3, <2>1 DEF CInv, Control, NoCarrier, CarrierStays
<1>5. Journal' = Journal
  BY <1>2 DEF Journal
<1>6. Stage' = Stage
  <2>1. \A t \in Txs : KeepsDone(t)
    BY <1>2, <1>5 DEF KeepsDone, Done
  <2> QED
    BY <2>1, StageSame
<1>7. ASSUME NEW k \in Carriers, k # carrier, row[k] # {} PROVE OnStream(k) /\ OnStream(k)'
  <2>1. PICK u \in Txs : Owns(u, k) /\ durable[u] >= 4
    BY <1>7 DEF CInv, Control, NoCarrier
  <2>2. u # cur
    BY <1>7, <2>1 DEF Owns, carrier
  <2>3. ~Busy(u)
    BY <1>2, <2>1, <2>2, OthersRest DEF Owns
  <2>4. Len(chain[u]) \in {3, 6} /\ Len(chain[u]) >= 4
    BY <2>1, <2>3 DEF Busy, Owns
  <2>5. \A n \in {3, 6} : n >= 4 => n >= 5
    OBVIOUS
  <2>6. Len(chain[u]) >= 5
    BY <2>4, <2>5, Zenon
  <2>7. Shown(u, k)
    BY <2>1, <2>6 DEF CInv, Control, Owns
  <2> QED
    BY <1>1, <1>7, <2>7 DEF Shown, OnStream, CarrierStays
<1>8. ASSUME NEW t \in Txs, NEW p \in Parts, NEW k \in Carriers, k # carrier
      PROVE  Tells(t, p, k)' <=> Tells(t, p, k)
  <2>1. row'[k] = row[k]
    BY <1>1, <1>8 DEF CarrierStays
  <2> QED
    BY <1>2, <1>5, <1>7, <1>8, <2>1 DEF Tells
<1>9. \A t \in Txs, p \in Parts : Tells(t, p, carrier) => Tells(t, p, carrier)'
  BY <1>2, <1>4, <1>5, StreamKept DEF Tells
<1>10. \A t \in Txs, p \in Parts : Tells(t, p, carrier)' => p = q
  BY <1>2, <1>4 DEF Tells
<1>11. ToldParts \subseteq ToldParts' /\ ToldParts' \subseteq ToldParts \cup {q}
  <2>1. ASSUME NEW p \in ToldParts PROVE p \in ToldParts'
    <3>1. PICK t \in Txs, k \in Carriers : Tells(t, p, k) /\ p \in Parts
      BY ReadOff
    <3>2. Tells(t, p, k)'
      BY <1>2, <1>8, <1>9, <3>1
    <3> QED
      BY <3>1, <3>2, ReadOffLater
  <2>2. ASSUME NEW p \in ToldParts', p # q PROVE p \in ToldParts
    <3>1. PICK t \in Txs, k \in Carriers : Tells(t, p, k)' /\ p \in Parts
      BY ReadOffLater
    <3>2. Tells(t, p, k)
      BY <1>2, <1>8, <1>10, <2>2, <3>1
    <3> QED
      BY <3>1, <3>2, ReadOff
  <2> QED
    BY <2>1, <2>2
<1> QED
  BY <1>2, <1>3, <1>6, <1>11, OneMoreTold

\* Of the transactions only the busy one can change in a step that makes facts
\* durable; and what the carriers of the others show is as before.
LEMMA RestKeeps ==
    ASSUME CInv, StartsAgain, NEW u \in Txs, u \notin Journal \/ ~Busy(u)
    PROVE  /\ KeepsDone(u)
           /\ \A p \in Parts, k \in Carriers : Tells(u, p, k)' <=> Tells(u, p, k)
<1>1. Journal' \subseteq Txs /\ \A t \in Txs : Len(chain'[t]) \in 0..6 /\ (t \in Journal' <=> Len(chain'[t]) >= 1)
  BY Lengths DEF Journal, StartsAgain
<1>2. CASE u \notin Journal
  <2>1. Len(chain[u]) = 0 /\ durable[u] \in Nat /\ (durable[u] = 0 \/ durable[u] + 1 = 0)
    BY <1>2, LengthsNow DEF CInv, Types, Synced
  <2>2. Len(chain'[u]) = 0
    BY <2>1 DEF StartsAgain
  <2>3. u \notin Journal'
    BY <1>1, <2>2
  <2> QED
    BY <1>2, <2>3 DEF KeepsDone, Done, Tells
<1>3. CASE u \in Journal /\ ~Busy(u)
  <2>1. durable[u] \in {3, 6} /\ Len(chain[u]) \in {3, 6} /\ durable[u] = Len(chain[u])
    <3>1. durable[u] \in {3, 6} /\ Len(chain[u]) \in {3, 6}
      BY <1>3 DEF Busy
    <3>2. durable[u] = Len(chain[u]) \/ durable[u] + 1 = Len(chain[u])
      BY DEF CInv, Synced
    <3>3. \A d \in {3, 6}, l \in {3, 6} : d = l \/ d + 1 = l => d = l
      OBVIOUS
    <3> QED
      BY <3>1, <3>2, <3>3, Zenon
  <2>2. Len(chain'[u]) = durable[u] /\ durable'[u] = durable[u]
    BY <2>1 DEF StartsAgain
  <2>3. u \in Journal' /\ chain'[u][1] = chain[u][1]
    <3>1. 1 \in 1..Len(chain'[u]) /\ Len(chain'[u]) >= 1
      BY <2>1, <2>2
    <3> QED
      BY <1>1, <3>1 DEF StartsAgain
  <2>4. KeepsDone(u)
    BY <1>3, <2>2, <2>3 DEF KeepsDone, Done
  <2>5. ASSUME NEW k \in Carriers, u \in row[k] PROVE OnStream(k) /\ OnStream(k)'
    <3>1. Owns(u, k)
      BY <2>5 DEF CInv, Control, NoCarrier
    <3>2. Len(chain[u]) >= 5
      <4>1. Len(chain[u]) >= 4
        BY <3>1 DEF Owns
      <4>2. \A n \in {3, 6} : n >= 4 => n >= 5
        OBVIOUS
      <4> QED
        BY <2>1, <4>1, <4>2, Zenon
    <3>3. Shown(u, k)
      BY <1>3, <3>1, <3>2 DEF CInv, Control, Owns
    <3> QED
      BY <3>3 DEF Shown, OnStream, StartsAgain
  <2>6. row' = row
    BY DEF StartsAgain
  <2> QED
    BY <1>3, <2>3, <2>4, <2>5, <2>6 DEF Tells
<1> QED
  BY <1>2, <1>3

\* A stop takes nothing back.
LEMMA RestartOutcome == ASSUME CInv, StartsAgain PROVE OutcomeStep
<1>0. run' # "up" /\ Journal \subseteq Txs
  BY LengthsNow DEF StartsAgain
<1>1. CASE \A t \in Journal : ~Busy(t)
  <2>1. Stage' = Stage /\ ToldParts' = ToldParts
    <3>1. \A t \in Txs : KeepsDone(t)
      BY <1>1, RestKeeps
    <3>2. KeepsTold
      BY <1>1, RestKeeps DEF KeepsTold
    <3> QED
      BY <3>1, <3>2, StageSame, ToldSame
  <2> QED
    BY <1>0, <2>1, StutterStep, StopStep
<1>2. ASSUME NEW b \in Journal, Busy(b) PROVE OutcomeStep
  <2>1. b \in Txs /\ Len(chain[b]) \in 1..6 /\ durable[b] \in Nat
        /\ (durable[b] = Len(chain[b]) \/ durable[b] + 1 = Len(chain[b]))
    BY LengthsNow DEF CInv, Synced, Types
  <2>2. run # "up"
    <3>1. SUFFICES ASSUME run = "up" PROVE FALSE
      OBVIOUS
    <3>2. Len(chain[b]) = 6 /\ pc = "next"
      BY <3>1 DEF CInv, Accounted, Flow
    <3>3. durable[b] = 6
      BY <2>1, <3>1, <3>2 DEF CInv, Synced
    <3> QED
      BY <1>2, <3>2, <3>3 DEF Busy
  <2>3. \A u \in Txs \ {b} : u \notin Journal \/ ~Busy(u)
    BY <1>2 DEF CInv, Synced
  <2>4. ASSUME NEW u \in Txs \ {b}
        PROVE  KeepsDone(u) /\ \A p \in Parts, k \in Carriers : Tells(u, p, k)' <=> Tells(u, p, k)
    BY <2>3, RestKeeps
  <2>5. /\ \A t \in Txs : Len(chain'[t]) \in 0..6 /\ (t \in Journal' <=> Len(chain'[t]) >= 1)
        /\ Len(chain'[b]) \in {durable[b], Len(chain[b])} /\ row' = row
        /\ \A i \in 1..Len(chain'[b]) : chain'[b][i] = chain[b][i]
        /\ (chain' = chain /\ durable' = durable) \/ durable'[b] = Len(chain'[b])
    BY <2>1, Lengths DEF StartsAgain, Journal
  <2>6. b \in Journal' => chain'[b][1] = chain[b][1]
    BY <2>1, <2>5
  <2>7. b \notin Journal' => durable[b] = 0
    BY <2>1, <2>5
  <2>8. CASE durable[b] = 4 /\ Len(chain[b]) = 4
    <3>0. Len(chain'[b]) = 4
      BY <2>5, <2>8
    <3>1. durable'[b] = 4 /\ b \in Journal'
      <4>1. b \in Journal'
        BY <2>7, <2>8
      <4> QED
        BY <2>5, <2>8, <3>0, <4>1
    <3>2. KeepsDone(b)
      BY <2>6, <2>8, <3>1 DEF KeepsDone, Done
    <3>3. Stage' = Stage
      BY <2>4, <3>2, StageSame
    <3>4. \A p \in Parts, k \in Carriers : Tells(b, p, k) => Tells(b, p, k)'
      <4>1. \A k \in Carriers : OnStream(k) => OnStream(k)'
        BY DEF OnStream, StartsAgain
      <4> QED
        BY <2>5, <2>6, <3>1, <4>1 DEF Tells
    <3>5. \A p \in Parts, k \in Carriers : Tells(b, p, k)' => p = chain[b][1].source[2]
      BY <2>6, <3>1 DEF Tells
    <3>6. ToldParts \subseteq ToldParts'
      <4>1. SUFFICES ASSUME NEW p \in ToldParts PROVE p \in ToldParts'
        OBVIOUS
      <4>2. PICK t \in Txs, k \in Carriers : Tells(t, p, k) /\ p \in Parts
        BY ReadOff
      <4>3. Tells(t, p, k)'
        BY <2>4, <3>4, <4>2
      <4> QED
        BY <4>2, <4>3, ReadOffLater
    <3>7. ToldParts' \subseteq ToldParts \cup {chain[b][1].source[2]}
      <4>1. SUFFICES ASSUME NEW p \in ToldParts', p # chain[b][1].source[2] PROVE p \in ToldParts
        OBVIOUS
      <4>2. PICK t \in Txs, k \in Carriers : Tells(t, p, k)' /\ p \in Parts
        BY ReadOffLater
      <4>3. Tells(t, p, k)
        BY <2>4, <3>5, <4>1, <4>2
      <4> QED
        BY <4>2, <4>3, ReadOff
    <3> QED
      BY <1>0, <2>2, <2>8, <3>3, <3>6, <3>7, OneMoreTold
  <2>9. CASE ~(durable[b] = 4 /\ Len(chain[b]) = 4)
    <3>1. \A p \in Parts, k \in Carriers : Tells(b, p, k)' <=> Tells(b, p, k)
      <4>1. SUFFICES ASSUME NEW k \in Carriers, b \in row[k]
                     PROVE  OnStream(k) /\ OnStream(k)' /\ b \in Journal'
        BY <2>5, <2>6 DEF Tells
      <4>2. Owns(b, k) /\ durable[b] >= 4
        BY <4>1 DEF CInv, Control, NoCarrier
      <4>a. \A d \in Nat, l \in 1..6 :
               d >= 4 /\ (d = l \/ d + 1 = l) /\ ~(d = 4 /\ l = 4) => l >= 5 /\ d # 0
        OBVIOUS
      <4>b. Len(chain[b]) >= 5 /\ durable[b] # 0
        BY <2>1, <2>9, <4>2, <4>a, Zenon
      <4>3. Len(chain[b]) >= 5 /\ b \in Journal'
        BY <2>7, <4>b
      <4>4. Shown(b, k)
        BY <4>2, <4>3 DEF CInv, Control, Owns
      <4> QED
        BY <4>3, <4>4 DEF Shown, OnStream, StartsAgain
    <3>2. KeepsTold
      BY <2>4, <3>1 DEF KeepsTold
    <3>3. CASE durable'[b] = durable[b]
      <4>1. KeepsDone(b)
        BY <2>6, <2>7, <3>3 DEF KeepsDone, Done
      <4>2. Stage' = Stage /\ ToldParts' = ToldParts
        BY <2>4, <3>2, <4>1, StageSame, ToldSame
      <4> QED
        BY <1>0, <2>2, <4>2, StutterStep
    <3>4. CASE durable'[b] # durable[b]
      <4>1. /\ durable'[b] \in 1..6 /\ durable[b] = durable'[b] - 1 /\ durable'[b] <= Len(chain[b])
            /\ Len(chain'[b]) >= 1
        <5>1. durable'[b] = Len(chain[b]) /\ durable'[b] = Len(chain'[b]) /\ durable[b] + 1 = Len(chain[b])
          <6>1. durable'[b] = Len(chain'[b])
            BY <2>5, <3>4
          <6>2. Len(chain'[b]) = durable[b] \/ Len(chain'[b]) = Len(chain[b])
            BY <2>5
          <6> QED
            BY <2>1, <3>4, <6>1, <6>2
        <5>2. \A d \in Nat, l \in 1..6 : d + 1 = l => l - 1 = d /\ l <= l /\ l >= 1
          OBVIOUS
        <5>3. Len(chain[b]) - 1 = durable[b] /\ Len(chain[b]) <= Len(chain[b]) /\ Len(chain[b]) >= 1
          BY <2>1, <5>1, <5>2, Zenon
        <5> QED
          BY <2>1, <5>1, <5>3, Zenon
      <4>2. b \in Journal'
        BY <2>1, <2>5, <4>1
      <4> QED
        BY <1>0, <2>2, <2>4, <2>6, <3>2, <4>1, <4>2, FactRipens
    <3> QED
      BY <3>3, <3>4
  <2> QED
    BY <2>8, <2>9
<1> QED
  BY <1>1, <1>2

\* A start that syncs the journal makes the one unsynced fact durable.
LEMMA LoadOutcome == ASSUME CInv, LoadJournal PROVE OutcomeStep
<1>1. /\ UNCHANGED <<chain, ctlImg, cmanImg, row>> /\ durable' = [t \in Txs |-> Len(chain[t])]
      /\ run # "up" /\ run' # "up"
  BY DEF LoadJournal, controlVars
<1>2. Journal' = Journal /\ Journal \subseteq Txs
  BY <1>1 DEF Journal
<1>3. KeepsTold
  BY <1>1, <1>2 DEF KeepsTold, Tells, OnStream
<1>4. ASSUME NEW t \in Txs, durable[t] = Len(chain[t]) PROVE KeepsDone(t)
  BY <1>1, <1>2, <1>4 DEF KeepsDone, Done
<1>5. CASE \A t \in Txs : durable[t] = Len(chain[t])
  <2>1. Stage' = Stage /\ ToldParts' = ToldParts
    BY <1>3, <1>4, <1>5, StageSame, ToldSame
  <2> QED
    BY <1>1, <2>1, StutterStep
<1>6. ASSUME NEW b \in Txs, durable[b] # Len(chain[b]) PROVE OutcomeStep
  <2>1. \A t \in Txs : /\ durable[t] \in Nat /\ Len(chain[t]) \in 0..6
                       /\ durable[t] = Len(chain[t]) \/ durable[t] + 1 = Len(chain[t])
    BY LengthsNow DEF CInv, Types, Synced
  <2>2. \A d \in Nat, l \in 0..6 : d + 1 = l => /\ d \notin {3, 6} \/ l \notin {3, 6}
                                               /\ l \in 1..6 /\ d = l - 1 /\ l <= l /\ l >= 1
    OBVIOUS
  <2>3. ASSUME NEW t \in Txs, durable[t] # Len(chain[t])
        PROVE  /\ t \in Journal /\ Busy(t) /\ Len(chain[t]) \in 1..6
               /\ durable[t] = Len(chain[t]) - 1 /\ Len(chain[t]) <= Len(chain[t])
    <3>1. durable[t] + 1 = Len(chain[t]) /\ durable[t] \in Nat /\ Len(chain[t]) \in 0..6
      BY <2>1, <2>3
    <3>2. /\ durable[t] \notin {3, 6} \/ Len(chain[t]) \notin {3, 6}
          /\ Len(chain[t]) \in 1..6 /\ durable[t] = Len(chain[t]) - 1
          /\ Len(chain[t]) <= Len(chain[t]) /\ Len(chain[t]) >= 1
      BY <2>2, <3>1, Zenon
    <3> QED
      BY <3>2, LengthsNow DEF Busy
  <2>4. ASSUME NEW u \in Txs \ {b} PROVE KeepsDone(u)
    BY <1>4, <1>6, <2>3 DEF CInv, Synced
  <2>5. durable'[b] = Len(chain[b]) /\ chain' = chain
    BY <1>1
  <2> QED
    BY <1>1, <1>2, <1>3, <1>6, <2>3, <2>4, <2>5, FactRipens
<1> QED
  BY <1>5, <1>6

\* So does the sync of a fact.
LEMMA SyncFactOutcome == ASSUME CInv, SyncFact PROVE OutcomeStep
<1>1. /\ UNCHANGED <<chain, run, ctlImg, cmanImg, row>> /\ durable' = [durable EXCEPT ![cur] = Len(chain[cur])]
      /\ Working /\ FactsFit /\ pc = "factsync" /\ run # "up" /\ run' # "up"
  BY DEF SyncFact, Goto, controlVars, Facts, CInv, Types, Flow, At, Working, Settling, Phases
<1>2. Journal' = Journal /\ Journal \subseteq Txs
  BY <1>1 DEF Journal
<1>3. KeepsTold
  BY <1>1, <1>2 DEF KeepsTold, Tells, OnStream
<1>4. durable'[cur] = Len(chain[cur]) /\ \A u \in Txs \ {cur} : KeepsDone(u)
  <2>1. cur \in Txs /\ durable \in [Txs -> Nat]
    BY DEF CInv, Types
  <2> QED
    BY <1>1, <1>2, <2>1 DEF KeepsDone, Done
<1>5. /\ cur \in Journal /\ Len(chain[cur]) \in 1..6 /\ durable[cur] = Len(chain[cur]) - 1
      /\ Len(chain[cur]) <= Len(chain[cur])
  <2>1. durable[cur] + 1 = Len(chain[cur]) /\ durable[cur] \in Nat /\ Len(chain[cur]) \in 0..6 /\ cur \in Txs
    BY <1>1, LengthsNow DEF CInv, Types, Synced
  <2>2. \A d \in Nat, l \in 0..6 : d + 1 = l => l \in 1..6 /\ d = l - 1 /\ l <= l /\ l >= 1
    OBVIOUS
  <2>3. /\ Len(chain[cur]) \in 1..6 /\ durable[cur] = Len(chain[cur]) - 1
        /\ Len(chain[cur]) <= Len(chain[cur]) /\ Len(chain[cur]) >= 1
    BY <2>1, <2>2, Zenon
  <2> QED
    BY <2>1, <2>3, LengthsNow
<1> QED
  BY <1>1, <1>2, <1>3, <1>4, <1>5, FactRipens

\* A fact that is not synced yet counts for nothing.
LEMMA PublishFactOutcome == ASSUME CInv, PublishFact PROVE OutcomeStep
<1>1. /\ UNCHANGED <<durable, ctlImg, cmanImg, row>> /\ run # "up" /\ run' # "up"
      /\ chain' = chain \/ chain' = [chain EXCEPT ![cur] = Append(chain[cur], NextFact)]
      /\ Working /\ FactsFit /\ pc = "fact"
  BY DEF PublishFact, Goto, Block, controlVars, CInv, Types, Flow, At, Working, Settling, Phases
<1>2. cur \in Txs /\ IsChain(chain[cur]) /\ Len(chain[cur]) \in 0..5 /\ Len(chain[cur]) <= 5
  <2>1. Facts \in 0..5 /\ Facts <= 5
    BY <1>1 DEF FactsFit
  <2>2. Len(chain[cur]) \in 0..5 /\ Len(chain[cur]) <= 5
    BY <2>1 DEF Facts
  <2> QED
    BY <2>2 DEF CInv, Types
<1>3. \A t \in Txs : t # cur => chain'[t] = chain[t]
  BY <1>1 DEF CInv, Types
<1>4. chain'[cur] = chain[cur] \/ chain'[cur] = Append(chain[cur], NextFact)
  BY <1>1, <1>2 DEF CInv, Types
<1>5. /\ Len(Append(chain[cur], NextFact)) = Len(chain[cur]) + 1 /\ IsChain(Append(chain[cur], NextFact))
      /\ \A i \in 1..Len(chain[cur]) : Append(chain[cur], NextFact)[i] = chain[cur][i]
  BY <1>2, AppendChain
<1>6. ASSUME NEW t \in Journal PROVE t \in Journal' /\ chain'[t][1] = chain[t][1]
  <2>1. t \in Txs /\ Len(chain[t]) >= 1 /\ chain[t] # << >>
    BY LengthsNow DEF Journal
  <2>2. CASE t # cur
    BY <1>3, <2>1, <2>2 DEF Journal
  <2>3. CASE t = cur
    <3>1. 1 \in 1..Len(chain[cur])
      BY <1>2, <2>1, <2>3
    <3>2. Append(chain[cur], NextFact) # << >>
      BY <1>2, <1>5, ChainFacts
    <3> QED
      BY <1>4, <1>5, <2>1, <2>3, <3>1, <3>2 DEF Journal
  <2> QED
    BY <2>2, <2>3
<1>7. ASSUME NEW t \in Journal' \ Journal PROVE durable[t] = 0
  <2>1. t \in Txs /\ Len(chain[t]) \in 0..6 /\ ~(Len(chain[t]) >= 1)
    BY LengthsNow DEF Journal
  <2>2. run # "load" /\ durable[t] = Len(chain[t])
    BY <1>1, <2>1 DEF CInv, Synced, Working, Settling
  <2> QED
    BY <2>1, <2>2
<1>8. Stage' = Stage /\ ToldParts' = ToldParts
  BY <1>1, <1>6, <1>7, UnchangedOutcome
<1> QED
  BY <1>1, <1>8, StutterStep

\* Steps on the raw files change nothing that is read off.
LEMMA SameOutcome ==
    ASSUME CInv, UNCHANGED <<chain, durable, ctlImg, cmanImg, row>>
    PROVE  Stage' = Stage /\ ToldParts' = ToldParts
<1>1. Journal' = Journal
  BY DEF Journal
<1> QED
  BY <1>1, UnchangedOutcome

\* The service opens when every transaction of the journal is complete.
LEMMA AdvanceOutcome == ASSUME CInv, Advance PROVE OutcomeStep
<1>1. Stage' = Stage /\ ToldParts' = ToldParts
  BY SameOutcome DEF Advance, journalVars, controlVars
<1>2. run # "up"
  BY DEF Advance
<1>3. CASE run' # "up"
  BY <1>1, <1>2, <1>3, StutterStep
<1>4. CASE run' = "up"
  <2>1. \A t \in Journal : Len(chain[t]) = 6 /\ durable[t] = 6
    <3>1. run = "serving" /\ pending = {} /\ pc = "next"
      BY <1>4 DEF Advance, At
    <3> QED
      BY <3>1, LengthsNow DEF CInv, Accounted, Working, Settling, Synced
  <2>2. \A p \in Parts : SettledFor(p, 3) => SettledFor(p, 6)
    BY <2>1 DEF SettledFor
  <2>3. \A p \in Parts : Stage[p] # "settled"
    BY <2>2 DEF Stage
  <2> QED
    BY <1>1, <1>2, <1>4, <2>3, OpenStep
<1> QED
  BY <1>3, <1>4

\* Recovery implements RecoveryOutcomes (recovery.py:_RecoveryJournal,
\* _replay_owned_control_transaction): what a power loss cannot take back is
\* settled once, told once and done once, and the service opens only when nothing
\* settled is left untold.
THEOREM OutcomesImplemented == Spec => ImplementsOutcomes
<1>1. Init => outcomes!OutcomesInit
  <2>1. SUFFICES ASSUME Init PROVE outcomes!OutcomesInit
    OBVIOUS
  <2>2. Journal = {}
    BY <2>1 DEF Init, Journal
  <2>3. run = "load"
    BY <2>1 DEF Init
  <2> QED
    BY <2>2, <2>3 DEF outcomes!OutcomesInit, SettledFor, ToldParts
<1>2. CInv /\ [Next]_vars => OutcomeStep
  <2>1. SUFFICES ASSUME CInv, [Next]_vars PROVE OutcomeStep
    OBVIOUS
  <2>2. CASE SourceStep
    <3>1. UNCHANGED <<chain, durable, ctlImg, cmanImg, row>> /\ run # "up" /\ run' # "up"
      BY <2>1, <2>2, SourceStepStays DEF Stays, journalVars, controlVars, Working, Settling
    <3> QED
      BY <2>1, <3>1, SameOutcome, StutterStep
  <2>3. CASE CarrierStep
    BY <2>1, <2>3, CarrierOutcome
  <2>4. CASE LoadJournal
    BY <2>1, <2>4, LoadOutcome
  <2>5. CASE NextChain \/ DiscoverManifests \/ DiscoverUnbound \/ NextSource \/ PlanFresh \/ Settled \/ Admit
    <3>1. UNCHANGED <<chain, durable, ctlImg, cmanImg, row>> /\ run # "up" /\ run' # "up"
      BY <2>5 DEF NextChain, DiscoverManifests, DiscoverUnbound, NextSource, PlanFresh, Settled, Admit, At,
         journalVars, controlVars
    <3> QED
      BY <2>1, <3>1, SameOutcome, StutterStep
  <2>6. CASE Advance
    BY <2>1, <2>6, AdvanceOutcome
  <2>7. CASE PublishFact
    BY <2>1, <2>7, PublishFactOutcome
  <2>8. CASE SyncFact
    BY <2>1, <2>8, SyncFactOutcome
  <2>9. CASE Kill
    BY <2>1, <2>9, KillStarts, RestartOutcome
  <2>10. CASE PowerLoss
    BY <2>1, <2>10, PowerLossStarts, RestartOutcome
  <2>11. CASE UNCHANGED <<journalVars, controlVars, run>>
    <3>1. UNCHANGED <<chain, durable, ctlImg, cmanImg, row>> /\ (run' = "up") = (run = "up")
      BY <2>11 DEF journalVars, controlVars
    <3> QED
      BY <2>1, <3>1, SameOutcome, StutterStep
  <2>12. ASSUME NEW p \in Parts, RemoveData(p) PROVE OutcomeStep
    BY <2>11, <2>12 DEF RemoveData
  <2>13. CASE UNCHANGED vars
    BY <2>11, <2>13 DEF vars
  <2>14. CASE TempStep
    <3>1. UNCHANGED <<chain, durable, ctlImg, cmanImg, row>> /\ run # "up" /\ run' # "up"
      BY <2>14, TempStepSettles DEF Settling, journalVars, controlVars
    <3> QED
      BY <2>1, <3>1, SameOutcome, StutterStep
  <2> QED
    BY <2>1, <2>2, <2>3, <2>4, <2>5, <2>6, <2>7, <2>8, <2>9, <2>10, <2>12, <2>13, <2>14
       DEF Next, Process, SourceStep, CarrierStep, TempStep
<1> QED
  BY <1>1, <1>2, CInvAlways, PTL DEF Spec, ImplementsOutcomes, OutcomeStep, outcomes!OutcomesSpec
-----------------------------------------------------------------------------
(* The inductive invariant: the parts *)

\* A plan, from when it is made: that of the transaction at hand may not be in
\* the journal yet.
IntentOf(t) == IF t = cur /\ plan # << >> THEN intent ELSE chain[t][1]
Held == Journal \cup (IF plan # << >> /\ pc # "next" THEN {cur} ELSE {})

RawTypes ==
    /\ src \in SourcePaths
    /\ data \in [Parts -> DataStates] /\ dataImg \in [Parts -> SUBSET DataStates]
    /\ art \in [Artifacts -> ArtifactStates] /\ artImg \in [Artifacts -> SUBSET ArtifactStates]
    /\ bytes = [p \in Parts |-> bytes[p]]
    /\ \A p \in Parts : bytes[p].frames \in Nat /\ bytes[p].tail \in Nat

\* The shapes of a plan
Prefix(i) ==
    /\ i.disposition = "removed" /\ i.state # "publication_coexistence" /\ i.source[1] = "partial"
    /\ Present(i.data) /\ i.data[1] # i.source[2]
    /\ i.data[2].frames \in Nat /\ i.data[2].frames > 0 /\ i.data[2].tail = 0
InPlace(i) ==
    /\ Present(i.data) /\ i.data[1] = i.source[2]
    /\ \/ i.disposition = "retained"
       \/ i.disposition = "removed" /\ i.state = "publication_coexistence" /\ i.source[1] = "partial"
Quarantine(i) ==
    /\ i.disposition = "moved_to_quarantine" /\ i.state # "publication_coexistence"
    /\ ~Present(i.data) /\ ~Present(i.man)
Missing(i) ==
    /\ i.disposition = "legitimately_missing" /\ i.state # "publication_coexistence"
    /\ i.source[1] = "final" /\ ~Present(i.data)
    /\ Present(i.man) /\ i.man[1] = ManifestOf(i.source[2])
Shape(i) ==
    /\ i.source \in SourcePaths /\ PartsOf(i) \subseteq Parts
    /\ Present(i.data) => Present(i.man) /\ i.man[1] = ManifestOf(i.data[1])
    /\ Present(i.quar) => i.quar[1] \in {BadTail(i.source), Whole(i.source)}
    /\ Prefix(i) \/ InPlace(i) \/ Quarantine(i) \/ Missing(i)

AllFrames(p) == bytes[p].frames > 0 /\ bytes[p].tail = 0
MayBeNamed(a) == \E s \in artImg[a] : Named(s)
Unnamed == {"absent", "short", "partial"}

\* What a part may be, now and after a power loss.
PartSound(p) ==
    /\ data[p] \in dataImg[p]
    /\ data[p] \in {"short", "partial"} => dataImg[p] \subseteq Unnamed
    /\ "both" \in dataImg[p] => "absent" \notin dataImg[p]
    /\ AllFrames(p) \/ dataImg[p] \subseteq Unnamed \/ dataImg[p] \subseteq {"absent", "final"}
    /\ MayBeNamed(ManifestOf(p)) =>
          Named(art[ManifestOf(p)]) /\ dataImg[p] \subseteq {"absent", "both", "final"}
    /\ p \notin lease /\ data[p] = "absent" => dataImg[p] = {"absent"}

\* A transaction whose source is one name of a part keeps the other name away.
SourceHeld(i) ==
    LET p == i.source[2] IN
    ~InPlace(i) => IF i.source[1] = "partial"
                   THEN dataImg[p] \subseteq Unnamed /\ ~MayBeNamed(ManifestOf(p))
                   ELSE dataImg[p] \subseteq {"absent", "final"}

\* The recovered part is named for good before its manifest is.
PrefixHeld(i, n) ==
    LET q == i.data[1] IN
    Prefix(i) => /\ data[q] = "absent" => dataImg[q] = {"absent"}
                 /\ n < 6 /\ MayBeNamed(ManifestOf(q)) => dataImg[q] \subseteq {"both", "final"}

Raw ==
    /\ \A p \in Parts : PartSound(p)
    /\ \A a \in Artifacts : art[a] \in artImg[a]
    /\ leaseDisk \subseteq lease
    /\ \A t \in Held : LET i == IntentOf(t) IN Shape(i) /\ SourceHeld(i) /\ PrefixHeld(i, durable[t])
    /\ \A t, u \in Held : t # u => PartsOf(IntentOf(t)) \cap PartsOf(IntentOf(u)) = {}
    /\ \A t \in Journal : Len(chain[t]) >= 2 => PartsOf(chain[t][1]) \subseteq leaseDisk

\* What the steps up to the settlement rely on: leases that are held, or synced,
Leased ==
    /\ plan # << >> => src = intent.source
    /\ Facts <= 2 /\ pc # "lease" => src[2] \in lease
    /\ Facts <= 2 /\ plan # << >> /\ pc \notin {"lease", "leasesync", "lease2"} => PartsOf(intent) \subseteq lease
    /\ pc = "fact" /\ Facts = 1 => leaseDisk = lease
\* and data that has come as far as the step before brought it.
DataReady ==
    /\ pc = "dataname" => Prefix(intent) /\ dataImg[intent.data[1]] = {"partial"} /\ AllFrames(intent.data[1])
    /\ pc \in {"manifest", "manifestname", "manifestsync"} =>
          Present(intent.data) /\ dataImg[intent.data[1]] \subseteq {"both", "final"}
    /\ pc = "settle" /\ Present(intent.data) => Named(data[intent.data[1]])
    /\ plan # << >> /\ InPlace(intent)
       /\ (pc = "data" \/ (pc \in {"lease2", "lease2sync", "fact"} /\ Facts = 0) \/ (pc = "factsync" /\ Facts = 1))
         => Named(data[src[2]])
Progress == Working /\ pc # "next" => Leased /\ DataReady

\* The sources that no transaction has yet
Found ==
    /\ run \in {"manifests", "sources"} =>
        /\ \A s \in found : /\ s \in SourcePaths
                            /\ data[s[2]] # "absent" \/ Named(art[ManifestOf(s[2])])
                            /\ \A t \in Held : s[2] \notin PartsOf(IntentOf(t))
                            /\ pc # "next" => s[2] # src[2]
        /\ \A r, s \in found : r[2] = s[2] => r = s
    /\ Working /\ plan = << >> /\ pc # "next" =>
          /\ run \in {"manifests", "sources"} /\ cur \notin Journal
          /\ \A t \in Held : src[2] \notin PartsOf(IntentOf(t))

RInv == RawTypes /\ Raw /\ Progress /\ Found

\* The writer's manifest temporary that is about to be named, and its data, are on disk.
Naming ==
    run = "naming" =>
        \E p \in Parts : LET m == ManifestOf(p) IN
            /\ p = Min(WriterTemporaries) /\ val[m].by = 0 /\ art[m] = "temp" /\ artImg[m] = {"temp"}
            /\ Named(data[p]) /\ dataImg[p] = {data[p]} /\ bytes[p] = val[m].of /\ m \notin torn

IInv == CInv /\ RInv /\ Naming
-----------------------------------------------------------------------------
(* Steps that keep RInv *)

\* The names of manifests and quarantine files differ.
LEMMA ManifestNames ==
    /\ \A p \in Parts : ManifestOf(p) \in Artifacts /\ ManifestOf(p)[1] = "manifest"
    /\ \A p, q : ManifestOf(p) = ManifestOf(q) => p = q
    /\ \A p, s : ManifestOf(p) # BadTail(s) /\ ManifestOf(p) # Whole(s)
    /\ \A s \in SourcePaths : BadTail(s) \in Artifacts /\ Whole(s) \in Artifacts
BY DEF ManifestOf, BadTail, Whole, Artifacts

\* Syncs, stops and new leases: what may be left of a part only shrinks.
Calmer ==
    /\ data' \in [Parts -> DataStates] /\ dataImg' \in [Parts -> SUBSET DataStates]
    /\ art' \in [Artifacts -> ArtifactStates] /\ artImg' \in [Artifacts -> SUBSET ArtifactStates]
    /\ bytes' = bytes
    /\ \A p \in Parts : /\ data'[p] \in dataImg'[p] /\ dataImg'[p] \subseteq dataImg[p]
                        /\ \/ dataImg'[p] = {data'[p]}
                           \/ data'[p] = data[p] /\ (p \in lease => p \in lease')
    /\ \A a \in Artifacts : art'[a] \in artImg'[a]
    /\ \A p \in Parts : LET a == ManifestOf(p) IN
          artImg'[a] \subseteq artImg[a] /\ (artImg'[a] = {art'[a]} \/ art'[a] = art[a])

\* Such a step keeps a part sound ...
LEMMA CalmerPart ==
    ASSUME Calmer, NEW p \in Parts, PartSound(p)
    PROVE  PartSound(p)'
<1>1. /\ data'[p] \in dataImg'[p] /\ dataImg'[p] \subseteq dataImg[p] /\ bytes'[p] = bytes[p]
      /\ (dataImg'[p] = {data'[p]} \/ (data'[p] = data[p] /\ (p \in lease => p \in lease')))
  BY DEF Calmer
<1>2. MayBeNamed(ManifestOf(p))' => MayBeNamed(ManifestOf(p)) /\ Named(art[ManifestOf(p)])'
  BY DEF Calmer, PartSound, MayBeNamed, Named
<1>3. AllFrames(p)' <=> AllFrames(p)
  BY <1>1 DEF AllFrames
<1> QED
  BY <1>1, <1>2, <1>3 DEF PartSound, Unnamed

\* ... and what a plan holds ...
LEMMA CalmerHeld ==
    ASSUME Calmer, NEW i, Shape(i), SourceHeld(i), NEW n, PrefixHeld(i, n), NEW m, m < 6 => n < 6
    PROVE  SourceHeld(i)' /\ PrefixHeld(i, m)'
<1>1. \A p \in Parts : /\ dataImg'[p] \subseteq dataImg[p] /\ data'[p] \in dataImg'[p]
                       /\ dataImg'[p] = {data'[p]} \/ data'[p] = data[p]
                       /\ MayBeNamed(ManifestOf(p))' => MayBeNamed(ManifestOf(p))
  BY DEF Calmer, MayBeNamed
<1>2. i.source[2] \in Parts /\ (Prefix(i) => i.data[1] \in Parts)
  BY DEF Shape, PartsOf, Prefix
<1>3. SourceHeld(i)'
  BY <1>1, <1>2 DEF SourceHeld
<1>4. PrefixHeld(i, m)'
  BY <1>1, <1>2 DEF PrefixHeld
<1> QED
  BY <1>3, <1>4


\* ... and the files of all transactions.
LEMMA CalmerRaw ==
    ASSUME CInv, RInv, Calmer, leaseDisk' \subseteq lease', Held' \subseteq Held,
           \A t \in Held' : IntentOf(t)' = IntentOf(t) /\ (durable'[t] < 6 => durable[t] < 6),
           \A t \in Journal' : Len(chain'[t]) >= 2 => PartsOf(chain'[t][1]) \subseteq leaseDisk'
    PROVE  Raw'
<1>1. \A p \in Parts : PartSound(p)'
  BY CalmerPart DEF RInv, Raw
<1>2. ASSUME NEW t \in Held', NEW i, i = IntentOf(t), NEW n, n = durable[t], NEW m, m = durable'[t]
      PROVE  Shape(i) /\ SourceHeld(i)' /\ PrefixHeld(i, m)'
  <2>1. Shape(i) /\ SourceHeld(i) /\ PrefixHeld(i, n)
    BY <1>2 DEF RInv, Raw
  <2>2. m < 6 => n < 6
    BY <1>2
  <2> QED
    BY <2>1, <2>2, CalmerHeld
<1>3. \A t \in Held' : Shape(IntentOf(t))' /\ SourceHeld(IntentOf(t))' /\ PrefixHeld(IntentOf(t), durable[t])'
  BY <1>2 DEF SourceHeld, PrefixHeld, MayBeNamed
<1>4. \A t, u \in Held' : t # u => PartsOf(IntentOf(t))' \cap PartsOf(IntentOf(u))' = {}
  BY DEF RInv, Raw
<1>5. \A a \in Artifacts : art'[a] \in artImg'[a]
  BY DEF Calmer
<1> QED
  BY <1>1, <1>3, <1>4, <1>5 DEF Raw

\* A step on the files of one part.
Touches(p) ==
    /\ RawTypes'
    /\ \A r \in Parts \ {p} :
          /\ data'[r] = data[r] /\ dataImg'[r] = dataImg[r] /\ bytes'[r] = bytes[r]
          /\ art'[ManifestOf(r)] = art[ManifestOf(r)] /\ artImg'[ManifestOf(r)] = artImg[ManifestOf(r)]
    /\ \A a \in Artifacts : art'[a] \in artImg'[a]
    /\ UNCHANGED <<lease, leaseDisk>>

\* It leaves the other parts sound ...
LEMMA TouchedElsewhere ==
    ASSUME NEW p, Touches(p), NEW r \in Parts, r # p, PartSound(r)
    PROVE  PartSound(r)'
BY DEF Touches, PartSound, AllFrames, MayBeNamed

\* ... and the plans that are not about the part.
LEMMA TouchedHeld ==
    ASSUME NEW p, Touches(p), NEW i, Shape(i), p \notin PartsOf(i), NEW n, SourceHeld(i), PrefixHeld(i, n)
    PROVE  SourceHeld(i)' /\ PrefixHeld(i, n)'
<1>1. i.source[2] \in Parts \ {p} /\ (Prefix(i) => i.data[1] \in Parts \ {p})
  BY DEF Shape, PartsOf, Prefix
<1>2. SourceHeld(i)'
  BY <1>1 DEF Touches, SourceHeld, MayBeNamed
<1>3. PrefixHeld(i, n)'
  BY <1>1 DEF Touches, PrefixHeld, MayBeNamed
<1> QED
  BY <1>2, <1>3

\* The plans stay what they were at a step within a transaction.
LEMMA SamePlans ==
    ASSUME Stays
    PROVE  Held' = Held /\ Journal' = Journal /\ \A t : IntentOf(t)' = IntentOf(t)
BY DEF Stays, Held, Journal, IntentOf, intent, journalVars, workVars

\* A step on a part of the plan at hand keeps what it does not disturb itself.
LEMMA TouchRaw ==
    ASSUME CInv, RInv, Stays, plan # << >>, NEW p, p \in PartsOf(intent), Touches(p), PartSound(p)',
           \A i, n : i = intent /\ n = durable[cur] => SourceHeld(i)' /\ PrefixHeld(i, n)'
    PROVE  Raw'
<1>1. /\ Held' = Held /\ Journal' = Journal /\ \A t : IntentOf(t)' = IntentOf(t)
      /\ cur \in Held /\ IntentOf(cur) = intent /\ durable' = durable /\ chain' = chain
  BY SamePlans DEF Stays, Held, IntentOf, journalVars
<1>2. Shape(intent) /\ p \in Parts
  BY <1>1 DEF RInv, Raw, Shape
<1>3. \A r \in Parts : PartSound(r)'
  BY TouchedElsewhere DEF RInv, Raw
<1>4. ASSUME NEW t \in Held, NEW i, i = IntentOf(t), NEW n, n = durable[t]
      PROVE  Shape(i) /\ SourceHeld(i)' /\ PrefixHeld(i, n)'
  <2>1. Shape(i) /\ SourceHeld(i) /\ PrefixHeld(i, n)
    BY <1>4 DEF RInv, Raw
  <2>2. CASE t = cur
    BY <1>1, <1>4, <2>1, <2>2
  <2>3. CASE t # cur
    <3>1. p \notin PartsOf(i)
      BY <1>1, <1>4, <2>3 DEF RInv, Raw
    <3> QED
      BY <2>1, <3>1, TouchedHeld
  <2> QED
    BY <2>2, <2>3
<1>5. \A t \in Held' : Shape(IntentOf(t))' /\ SourceHeld(IntentOf(t))' /\ PrefixHeld(IntentOf(t), durable[t])'
  BY <1>1, <1>4 DEF SourceHeld, PrefixHeld, MayBeNamed
<1>6. \A t, u \in Held' : t # u => PartsOf(IntentOf(t))' \cap PartsOf(IntentOf(u))' = {}
  BY <1>1 DEF RInv, Raw
<1>7. /\ \A a \in Artifacts : art'[a] \in artImg'[a]
      /\ leaseDisk' \subseteq lease'
      /\ \A t \in Journal' : Len(chain'[t]) >= 2 => PartsOf(chain'[t][1]) \subseteq leaseDisk'
  BY <1>1 DEF Touches, RInv, Raw
<1> QED
  BY <1>3, <1>5, <1>6, <1>7 DEF Raw

\* Syncs and new leases, and steps in the quarantine.
Quiet ==
    /\ Calmer /\ UNCHANGED data
    /\ \A p \in Parts : art'[ManifestOf(p)] = art[ManifestOf(p)]
    /\ lease \subseteq lease' /\ leaseDisk \subseteq leaseDisk' /\ leaseDisk' \subseteq lease'

\* A step that touches no file and no lease is quiet.
LEMMA UnchangedQuiet == ASSUME RInv, UNCHANGED rawVars PROVE Quiet
BY ManifestNames DEF RInv, RawTypes, Raw, PartSound, Quiet, Calmer, rawVars

\* So is one that only syncs directories: it forgets crash images.
LEMMA SyncQuiet == ASSUME RInv, NEW qs, SyncWith(qs) PROVE Quiet
<1>1. /\ \A p \in Parts : data[p] \in DataStates /\ data[p] \in dataImg[p]
      /\ \A a \in Artifacts : art[a] \in ArtifactStates /\ art[a] \in artImg[a] /\ artImg[a] \subseteq ArtifactStates
      /\ data \in [Parts -> DataStates] /\ art \in [Artifacts -> ArtifactStates]
      /\ leaseDisk \subseteq lease
  BY DEF RInv, RawTypes, Raw, PartSound
<1>2. /\ dataImg' = [p \in Parts |-> {data[p]}] /\ data' = data /\ art' = art /\ bytes' = bytes
      /\ artImg' = [a \in Artifacts |-> IF a[1] = "manifest" \/ a \in qs THEN {art[a]} ELSE artImg[a]]
      /\ leaseDisk' = lease /\ lease' = lease
  BY DEF SyncWith
<1>3. /\ dataImg' \in [Parts -> SUBSET DataStates] /\ artImg' \in [Artifacts -> SUBSET ArtifactStates]
      /\ \A p \in Parts : dataImg'[p] = {data[p]}
      /\ \A a \in Artifacts : art'[a] \in artImg'[a] /\ (a[1] = "manifest" => artImg'[a] = {art[a]})
  BY <1>1, <1>2
<1> QED
  BY <1>1, <1>2, <1>3, ManifestNames DEF Quiet, Calmer

\* So is one that takes a lease.
LEMMA LeaseQuiet ==
    ASSUME RInv, NEW p, lease' = lease \cup {p},
           UNCHANGED <<data, dataImg, bytes, art, artImg, val, leaseDisk>>
    PROVE  Quiet
BY ManifestNames DEF RInv, RawTypes, Raw, PartSound, Quiet, Calmer

\* So is one that writes in quarantine only: no part and no manifest changes.
LEMMA QuarantineQuiet ==
    ASSUME RInv, NEW a \in Artifacts, \A p \in Parts : a # ManifestOf(p), NEW s \in ArtifactStates, SetArt(a, s)
    PROVE  Quiet
BY ManifestNames DEF RInv, RawTypes, Raw, PartSound, Quiet, Calmer, SetArt

\* A quiet step keeps what is held of the files.
LEMMA QuietRaw == ASSUME CInv, RInv, Stays, Quiet PROVE RawTypes' /\ Raw'
<1>1. Held' = Held /\ Journal' = Journal /\ \A t : IntentOf(t)' = IntentOf(t)
  BY SamePlans
<1>2. durable' = durable /\ chain' = chain /\ src' = src
  BY DEF Stays, journalVars, workVars
<1>3. \A t \in Journal' : Len(chain'[t]) >= 2 => PartsOf(chain'[t][1]) \subseteq leaseDisk'
  BY <1>1, <1>2 DEF RInv, Raw, Quiet
<1>4. RawTypes'
  BY <1>2 DEF RInv, RawTypes, Quiet, Calmer
<1> QED
  BY <1>1, <1>2, <1>3, <1>4, CalmerRaw DEF Quiet
-----------------------------------------------------------------------------
(* The steps of a source's transaction *)

\* What such a step knows.
LEMMA AtStep ==
    ASSUME CInv, RInv, SourceStep
    PROVE  /\ Stays /\ Working /\ FactsFit /\ Leased /\ DataReady
           /\ Facts \in 0..6 /\ Facts' = Facts /\ intent' = intent /\ src' = src /\ plan' = plan /\ src \in SourcePaths
           /\ plan # << >> => /\ Shape(intent) /\ SourceHeld(intent) /\ PrefixHeld(intent, durable[cur])
                              /\ PartsOf(intent) \subseteq Parts
           /\ \A p \in Parts : PartSound(p)
<1>1. Stays
  BY SourceStepStays
<1>2. Working /\ pc # "next" /\ Facts' = Facts /\ intent' = intent /\ src' = src /\ plan' = plan
  BY <1>1 DEF Stays, Facts, intent, journalVars, workVars
<1>3. FactsFit /\ Leased /\ DataReady
  BY <1>2 DEF CInv, Flow, RInv, Progress
<1>4. plan # << >> => Shape(intent) /\ SourceHeld(intent) /\ PrefixHeld(intent, durable[cur])
  <2>1. ASSUME plan # << >> PROVE cur \in Held /\ IntentOf(cur) = intent
    BY <1>2, <2>1 DEF Held, IntentOf
  <2> QED
    BY <2>1 DEF RInv, Raw
<1> QED
  BY <1>1, <1>2, <1>3, <1>4, LengthsNow DEF RInv, RawTypes, Raw, Shape

\* The sources found stay as they were found when the step keeps to its parts.
LEMMA FoundStays ==
    ASSUME CInv, RInv, Stays,
           \A p \in Parts : (plan = << >> \/ p \notin PartsOf(intent)) =>
               data'[p] = data[p] /\ art'[ManifestOf(p)] = art[ManifestOf(p)]
    PROVE  Found'
<1>1. /\ Held' = Held /\ \A t : IntentOf(t)' = IntentOf(t)
      /\ Journal' = Journal /\ found' = found /\ plan' = plan /\ src' = src /\ cur' = cur
  BY SamePlans DEF Stays, workVars
<1>2. CASE run' = "blocked"
  BY <1>2 DEF Found, Working, Settling
<1>3. CASE run' = run /\ pc' # "next"
  <2>1. ASSUME run \in {"manifests", "sources"}, NEW s \in found
        PROVE  /\ s \in SourcePaths /\ (data'[s[2]] # "absent" \/ Named(art'[ManifestOf(s[2])]))
               /\ \A t \in Held : s[2] \notin PartsOf(IntentOf(t))
               /\ s[2] # src[2]
    <3>1. /\ s \in SourcePaths /\ (data[s[2]] # "absent" \/ Named(art[ManifestOf(s[2])]))
          /\ \A t \in Held : s[2] \notin PartsOf(IntentOf(t)) 
          /\ s[2] # src[2]
      BY <2>1 DEF RInv, Found, Stays
    <3>2. plan = << >> \/ s[2] \notin PartsOf(intent)
      BY <3>1 DEF Held, IntentOf, Stays
    <3>3. s[2] \in Parts
      BY <3>1 DEF SourcePaths
    <3> QED
      BY <3>1, <3>2, <3>3
  <2>2. run \in {"manifests", "sources"} => \A r, s \in found : r[2] = s[2] => r = s
    BY DEF RInv, Found
  <2>3. Working /\ plan = << >> => /\ run \in {"manifests", "sources"} /\ cur \notin Journal
                                   /\ \A t \in Held : src[2] \notin PartsOf(IntentOf(t))
    BY DEF RInv, Found, Stays
  <2> QED
    BY <1>1, <1>3, <2>1, <2>2, <2>3 DEF Found, Working, Settling, Named
<1> QED
  BY <1>2, <1>3 DEF Stays

\* A quiet step keeps the invariant when the next one can rely on its part.
LEMMA QuietRInv ==
    ASSUME CInv, RInv, Stays, Quiet, run' = "blocked" \/ (Leased' /\ DataReady') PROVE RInv'
<1>1. RawTypes' /\ Raw'
  BY QuietRaw
<1>2. Found'
  BY FoundStays DEF Quiet
<1>3. Progress'
  BY DEF Progress, Working, Settling
<1> QED
  BY <1>1, <1>2, <1>3 DEF RInv

\* So does a step on a part of the plan at hand.
LEMMA TouchRInv ==
    ASSUME CInv, RInv, Stays, plan # << >>, NEW p, p \in PartsOf(intent), Touches(p), PartSound(p)',
           \A i, n : i = intent /\ n = durable[cur] => SourceHeld(i)' /\ PrefixHeld(i, n)',
           run' = "blocked" \/ (Leased' /\ DataReady')
    PROVE  RInv'
<1>1. Raw'
  BY TouchRaw
<1>2. Found'
  BY FoundStays DEF Touches
<1>3. Progress'
  BY DEF Progress, Working, Settling
<1> QED
  BY <1>1, <1>2, <1>3 DEF RInv, Touches

\* Taking the lease of the source changes no file.
LEMMA SourceLeaseRInv == ASSUME CInv, RInv, SourceLease PROVE RInv'
<1>1. SourceStep
  BY DEF SourceStep
<1>2. Quiet
  BY UnchangedQuiet, LeaseQuiet, SyncQuiet DEF SourceLease, TakeLease, SyncRaw
<1>3. Leased'
  BY <1>1, <1>2, AtStep DEF SourceLease, TakeLease, SyncRaw, SyncWith, Leased, FactsFit, At, Goto, Quiet, rawVars
<1>4. DataReady'
  BY <1>1, <1>2, AtStep DEF SourceLease, TakeLease, DataReady, FactsFit, At, Goto
<1> QED
  BY <1>1, <1>2, <1>3, <1>4, AtStep, QuietRInv

\* Taking the lease of the recovered part changes no file either.
LEMMA DestinationLeaseRInv == ASSUME CInv, RInv, DestinationLease PROVE RInv'
<1>1. SourceStep
  BY DEF SourceStep
<1>2. Quiet
  BY UnchangedQuiet, LeaseQuiet, SyncQuiet DEF DestinationLease, TakeLease, SyncRaw
<1>3. Leased'
  BY <1>1, <1>2, AtStep
     DEF DestinationLease, TakeLease, SyncRaw, SyncWith, Leased, FactsFit, At, Goto, Quiet, PartsOf, rawVars
<1>4. DataReady'
  BY <1>1, <1>2, AtStep DEF DestinationLease, TakeLease, DataReady, FactsFit, At, Goto, Quiet
<1> QED
  BY <1>1, <1>2, <1>3, <1>4, AtStep, QuietRInv

\* The plans that there are for a source as it is now.
LEMMA PlanKinds ==
    ASSUME src \in SourcePaths, NEW next, PlanNow(next) # << >>
    PROVE  \E i : /\ PlanNow(next) = <<i>>
                  /\ \/ /\ src[1] = "final" /\ ~Named(data[src[2]]) /\ Named(art[ManifestOf(src[2])])
                        /\ proof[src[2]] # "none"
                        /\ i = PlanMissing(cur, src[2], val[ManifestOf(src[2])], proof[src[2]])
                     \/ /\ src[1] = "partial" /\ data[src[2]] = "both"
                        /\ bytes[src[2]].frames # 0 /\ ~(bytes[src[2]].tail > 0)
                        /\ i = PlanCoexistence(cur, src, bytes[src[2]], ManifestFound(src[2]))
                     \/ /\ SourcePresent(src) /\ ~(src[1] = "partial" /\ data[src[2]] = "both")
                        /\ i = PlanSource(cur, src, bytes[src[2]], next)
<1> DEFINE p == src[2]
           b == bytes[p]
           manifest == ManifestFound(p)
<1>1. CASE src[1] = "final" /\ ~Named(data[p])
  <2>1. PlanNow(next) = IF proof[p] = "none" \/ manifest = << >> THEN << >>
                        ELSE <<PlanMissing(cur, p, manifest[1], proof[p])>>
    BY <1>1 DEF PlanNow
  <2>2. manifest # << >> /\ proof[p] # "none" /\ PlanNow(next) = <<PlanMissing(cur, p, manifest[1], proof[p])>>
    BY <2>1
  <2>3. Named(art[ManifestOf(p)]) /\ manifest[1] = val[ManifestOf(p)]
    BY <2>2 DEF ManifestFound
  <2> QED
    BY <1>1, <2>2, <2>3
<1>2. CASE src[1] = "partial" /\ data[p] = "both"
  <2>1. PlanNow(next) = IF b.frames = 0 \/ b.tail > 0 THEN << >>
                        ELSE IF manifest # << >> /\ manifest[1].of # b THEN << >>
                        ELSE <<PlanCoexistence(cur, src, b, manifest)>>
    BY <1>2 DEF PlanNow
  <2> QED
    BY <1>2, <2>1
<1>3. CASE ~(src[1] = "final" /\ ~Named(data[p])) /\ ~(src[1] = "partial" /\ data[p] = "both")
  <2>a. ~SourcePresent(src) => src[1] = "partial"
    BY <1>3 DEF SourcePresent, SourcePaths
  <2>1. PlanNow(next) = IF ~SourcePresent(src) THEN << >> ELSE <<PlanSource(cur, src, b, next)>>
    BY <1>3, <2>a DEF PlanNow
  <2> QED
    BY <1>3, <2>1
<1> QED
  BY <1>1, <1>2, <1>3

\* A plan that keeps the source's part is made of a part that has its final name.
LEMMA PlanInPlace ==
    ASSUME src \in SourcePaths, NEW next, NEW i, PlanNow(next) = <<i>>, InPlace(i)
    PROVE  Named(data[src[2]])
<1>1. src[1] \in {"partial", "final"}
  BY DEF SourcePaths
<1>2. CASE data[src[2]] = "both"
  BY <1>2 DEF Named
<1>3. CASE data[src[2]] # "both"
  <2>1. \/ i = PlanMissing(cur, src[2], val[ManifestOf(src[2])], proof[src[2]])
        \/ SourcePresent(src) /\ i = PlanSource(cur, src, bytes[src[2]], next)
    <3>1. PlanNow(next) # << >>
      OBVIOUS
    <3>2. \A j : <<i>> = <<j>> => i = j
      OBVIOUS
    <3> QED
      BY <1>3, <3>1, <3>2, PlanKinds
  <2>2. i # PlanMissing(cur, src[2], val[ManifestOf(src[2])], proof[src[2]])
    BY DEF InPlace, PlanMissing, Intent, Present
  <2>3. src[1] # "partial"
    BY <2>1, <2>2 DEF InPlace, PlanSource, PlanPrefix, PlanOrphan, PlanWhole, Intent, Present
  <2> QED
    BY <1>1, <2>1, <2>2, <2>3 DEF SourcePresent
<1> QED
  BY <1>2, <1>3

\* A resumed plan is that of the journal.
LEMMA PlanResumedRInv == ASSUME CInv, RInv, PlanResumed PROVE RInv'
<1>1. SourceStep
  BY DEF SourceStep
<1>2. Quiet
  BY UnchangedQuiet DEF PlanResumed
<1>3. /\ pc = "plan" /\ Facts = 1 /\ plan # << >> /\ plan = <<intent>>
      /\ run' = "blocked" \/ (pc' = "data" /\ PlanNow(FrozenSequence(intent)) = plan)
  BY <1>1, AtStep DEF PlanResumed, GotoIf, Goto, Block, At, FactsFit, CInv, Types, intent
<1>4. run' = "blocked" \/ (InPlace(intent) => Named(data[src[2]]))
  <2>1. ASSUME NEW f, f = FrozenSequence(intent), NEW i, i = intent, PlanNow(f) = <<i>>, InPlace(i)
        PROVE  Named(data[src[2]])
    BY <1>1, <2>1, AtStep, PlanInPlace
  <2> QED
    BY <1>3, <2>1
<1>5. run' = "blocked" \/ (Leased' /\ DataReady')
  BY <1>1, <1>2, <1>3, <1>4, AtStep DEF Leased, DataReady, Quiet
<1> QED
  BY <1>1, <1>2, <1>5, AtStep, QuietRInv

\* A plan without a recovered range has no data to publish.
LEMMA SkipDataRInv == ASSUME CInv, RInv, SkipData PROVE RInv'
<1>1. SourceStep
  BY DEF SourceStep
<1>2. Quiet
  BY UnchangedQuiet, SyncQuiet DEF SkipData, SyncRaw
<1>3. plan # << >> /\ pc = "data" /\ Facts = 1
  BY <1>1, AtStep DEF SkipData, FactsFit, At
<1>4. Leased'
  BY <1>1, <1>2, <1>3, AtStep DEF SkipData, Leased, Goto, GotoIf, Block, Quiet
<1>5. CASE NoRange /\ SyncRaw /\ pc' = "manifest"
  <2>1. InPlace(intent)
    BY <1>1, <1>3, <1>5, AtStep DEF NoRange, Shape, Prefix, InPlace, Quarantine, Missing
  <2>2. Present(intent.data) /\ intent.data[1] = src[2] /\ Named(data[src[2]])
    BY <1>1, <1>3, <2>1, AtStep DEF InPlace, Leased, DataReady
  <2>3. src[2] \in Parts /\ dataImg'[src[2]] = {data[src[2]]}
    BY <1>1, <1>5, AtStep DEF SourcePaths, SyncRaw, SyncWith
  <2>4. DataReady'
    BY <1>1, <1>3, <1>5, <2>2, <2>3, AtStep DEF DataReady, Named
  <2> QED
    BY <1>1, <1>2, <1>4, <2>4, AtStep, QuietRInv
<1>6. CASE run' = "blocked" \/ pc' \in {"verify", "quarantine"}
  <2>1. run' = "blocked" \/ DataReady'
    BY <1>6 DEF DataReady
  <2> QED
    BY <1>1, <1>2, <1>4, <2>1, AtStep, QuietRInv
<1> QED
  BY <1>5, <1>6 DEF SkipData, Goto, GotoIf, Block

\* Quarantine is written beside the parts.
LEMMA PublishQuarantineRInv == ASSUME CInv, RInv, PublishQuarantine PROVE RInv'
<1>1. SourceStep
  BY DEF SourceStep
<1>2. plan # << >> /\ pc \in {"quarantine", "quarantinename", "quarantinesync"} /\ Facts = 1
  BY <1>1, AtStep DEF PublishQuarantine, PublishArtifact, WriteArtifact, AcceptArtifact, FactsFit, At
<1>3. Quiet
  <2>1. ASSUME Present(intent.quar)
        PROVE  intent.quar[1] \in Artifacts /\ \A p \in Parts : intent.quar[1] # ManifestOf(p)
    BY <1>1, <1>2, <2>1, AtStep, ManifestNames DEF Shape
  <2>2. CASE Present(intent.quar) /\ \E s \in ArtifactStates : SetArt(intent.quar[1], s)
    <3>1. ASSUME NEW a, a = intent.quar[1], NEW s \in ArtifactStates, SetArt(a, s) PROVE Quiet
      BY <2>1, <2>2, <3>1, QuarantineQuiet
    <3> QED
      BY <2>2, <3>1
  <2>3. CASE UNCHANGED rawVars \/ \E qs : SyncWith(qs)
    BY <2>3, UnchangedQuiet, SyncQuiet
  <2> QED
    BY <2>2, <2>3
       DEF PublishQuarantine, PublishArtifact, WriteArtifact, AcceptArtifact, Published, ArtifactStates
<1>4. run' = "blocked" \/ pc' \in {"quarantine", "quarantinename", "quarantinesync", "verify"}
  BY DEF PublishQuarantine, PublishArtifact, WriteArtifact, AcceptArtifact, Goto, Block
<1>5. run' = "blocked" \/ (Leased' /\ DataReady')
  BY <1>1, <1>2, <1>3, <1>4, AtStep DEF Leased, DataReady, Quiet
<1> QED
  BY <1>1, <1>3, <1>5, AtStep, QuietRInv

\* The check of the artifacts only reads them.
LEMMA VerifyArtifactsRInv == ASSUME CInv, RInv, VerifyArtifacts PROVE RInv'
<1>1. SourceStep
  BY DEF SourceStep
<1>2. Quiet
  BY UnchangedQuiet, SyncQuiet DEF VerifyArtifacts
<1>3. plan # << >> /\ pc = "verify" /\ Facts \in 1..2
  BY <1>1, AtStep DEF VerifyArtifacts, FactsFit, At
<1>4. \/ run' = "blocked"
      \/ /\ Present(intent.data) => Named(data[intent.data[1]])
         /\ pc' = (IF Facts = 1 THEN "fact" ELSE "settle") /\ leaseDisk' = lease /\ lease' = lease
  BY DEF VerifyArtifacts, GotoIf, Goto, Block, DataExact, SyncWith
<1>5. run' = "blocked" \/ (Leased' /\ DataReady')
  BY <1>1, <1>2, <1>3, <1>4, AtStep DEF Leased, DataReady, Quiet
<1> QED
  BY <1>1, <1>2, <1>5, AtStep, QuietRInv

\* So does the check of the chain.
LEMMA RecheckChainRInv == ASSUME CInv, RInv, RecheckChain PROVE RInv'
<1>1. SourceStep
  BY DEF SourceStep
<1>2. Quiet
  BY UnchangedQuiet, SyncQuiet DEF RecheckChain
<1>3. plan # << >> /\ pc = "recheck" /\ Facts \in 3..6
  BY <1>1, AtStep DEF RecheckChain, FactsFit, At
<1>4. run' = "blocked" \/ pc' \in {"settled", "restore", "fact"}
  BY DEF RecheckChain, GotoIf, Goto, Block
<1>5. run' = "blocked" \/ (Leased' /\ DataReady')
  BY <1>1, <1>2, <1>3, <1>4, AtStep DEF Leased, DataReady, Quiet
<1> QED
  BY <1>1, <1>2, <1>5, AtStep, QuietRInv

\* A change to the names of one part touches that part.
LEMMA SetDataTouches ==
    ASSUME RInv, src' = src, NEW p \in Parts, NEW s \in DataStates, SetData(p, s)
    PROVE  /\ Touches(p) /\ data'[p] = s /\ dataImg'[p] = dataImg[p] \cup {s}
           /\ bytes' = bytes /\ art' = art /\ artImg' = artImg /\ lease' = lease
BY DEF RInv, RawTypes, Raw, SetData, Touches

\* So does a change to its manifest.
LEMMA SetManifestTouches ==
    ASSUME RInv, src' = src, NEW p \in Parts, NEW s \in ArtifactStates, SetArt(ManifestOf(p), s)
    PROVE  /\ Touches(p) /\ art'[ManifestOf(p)] = s /\ artImg'[ManifestOf(p)] = artImg[ManifestOf(p)] \cup {s}
           /\ bytes' = bytes /\ data' = data /\ dataImg' = dataImg /\ lease' = lease
<1>1. ManifestOf(p) \in Artifacts /\ \A r \in Parts : r # p => ManifestOf(r) \in Artifacts /\ ManifestOf(r) # ManifestOf(p)
  BY ManifestNames
<1> QED
  BY <1>1 DEF RInv, RawTypes, Raw, SetArt, Touches

\* What a plan holds of the source, or of the recovered part, is not disturbed
\* by a step on the other.
LEMMA TouchedSource ==
    ASSUME NEW p, Touches(p), NEW i, Shape(i), i.source[2] # p, SourceHeld(i)
    PROVE  SourceHeld(i)'
<1>1. i.source[2] \in Parts \ {p}
  BY DEF Shape, PartsOf
<1> QED
  BY <1>1 DEF Touches, SourceHeld, MayBeNamed

\* A touch of another part keeps what the plan holds of its recovered one.
LEMMA TouchedPrefix ==
    ASSUME NEW p, Touches(p), NEW i, Shape(i), Prefix(i) => i.data[1] # p, NEW n, PrefixHeld(i, n)
    PROVE  PrefixHeld(i, n)'
<1>1. Prefix(i) => i.data[1] \in Parts \ {p}
  BY DEF Shape, PartsOf, Prefix
<1> QED
  BY <1>1 DEF Touches, PrefixHeld, MayBeNamed

\* With at most two facts, the sixth is not durable.
LEMMA NotDone ==
    ASSUME CInv, Facts \in 0..2 PROVE durable[cur] < 6
<1>1. /\ durable[cur] \in Nat /\ cur \in Txs
      /\ durable[cur] = Len(chain[cur]) \/ durable[cur] + 1 = Len(chain[cur])
  BY DEF CInv, Types, Synced
<1>2. \A d \in Nat, l \in 0..2 : d = l \/ d + 1 = l => d < 6
  OBVIOUS
<1> QED
  BY <1>1, <1>2, Zenon DEF Facts

\* A step on the recovered part's data: what is left to show of it.
LEMMA RangeTouched ==
    ASSUME CInv, RInv, PublishRange, NEW q, q = intent.data[1], Prefix(intent), Touches(q), PartSound(q)',
           data'[q] = "absent" => dataImg'[q] = {"absent"},
           MayBeNamed(ManifestOf(q))' => dataImg'[q] \subseteq {"both", "final"},
           Leased', DataReady'
    PROVE  RInv'
<1>1. SourceStep /\ plan # << >>
  BY DEF SourceStep, PublishRange
<1>2. q \in PartsOf(intent) /\ intent.source[2] # q
  BY DEF PartsOf, Prefix
<1>3. ASSUME NEW i, i = intent, NEW n, n = durable[cur] PROVE SourceHeld(i)' /\ PrefixHeld(i, n)'
  <2>1. Shape(i) /\ SourceHeld(i) /\ i.source[2] # q
    BY <1>1, <1>2, <1>3, AtStep
  <2>2. PrefixHeld(i, n)'
    BY <1>3 DEF PrefixHeld
  <2> QED
    BY <2>1, <2>2, TouchedSource
<1> QED
  BY <1>1, <1>2, <1>3, AtStep, TouchRInv

\* Publishing the recovered range gives the frames their part, and nobody else holds it.
LEMMA PublishRangeRInv == ASSUME CInv, RInv, PublishRange PROVE RInv'
<1>a. PICK q : q = intent.data[1]
  OBVIOUS
<1>1. SourceStep /\ plan # << >>
  BY DEF SourceStep, PublishRange
<1>2. Prefix(intent)
  BY <1>1, AtStep DEF PublishRange, NoRange, Shape, InPlace, Quarantine, Missing
<1>3. pc \in {"data", "dataname", "datasync"} /\ Facts = 1
  BY <1>1, AtStep DEF PublishRange, PrepareRange, PublishStream, AcceptRange, FactsFit, At
<1>4. /\ q \in Parts /\ q # src[2] /\ PartSound(q) /\ q \in lease /\ Present(intent.data) /\ ~InPlace(intent)
      /\ PartsOf(intent) \subseteq lease
      /\ data[q] = "absent" => dataImg[q] = {"absent"}
      /\ MayBeNamed(ManifestOf(q)) => dataImg[q] \subseteq {"both", "final"}
  <2>1. Present(intent.data) /\ q \in PartsOf(intent) /\ q # src[2] /\ ~InPlace(intent)
    BY <1>a, <1>1, <1>2, AtStep DEF Prefix, InPlace, PartsOf, Leased
  <2>2. PartsOf(intent) \subseteq lease /\ PartsOf(intent) \subseteq Parts
    BY <1>1, <1>3, AtStep DEF Leased
  <2>3. PrefixHeld(intent, durable[cur]) /\ durable[cur] < 6
    BY <1>1, <1>3, AtStep, NotDone
  <2> QED
    BY <1>a, <1>1, <1>2, <2>1, <2>2, <2>3, AtStep DEF PrefixHeld
<1>5. /\ data[q] \in dataImg[q] /\ Present(intent.data) /\ src' = src /\ intent' = intent /\ plan' = plan /\ Facts' = Facts
      /\ src \in SourcePaths /\ Leased
  BY <1>1, <1>4, AtStep DEF PartSound
<1>6. CASE At("data") /\ data[q] = "absent" /\ SetData(q, "short") /\ Goto("data")
  <2>1. /\ Touches(q) /\ data'[q] = "short" /\ dataImg'[q] = {"absent", "short"} /\ lease' = lease
        /\ artImg' = artImg /\ pc' = "data"
    BY <1>4, <1>5, <1>6, SetDataTouches DEF DataStates, Goto
  <2>2. ~MayBeNamed(ManifestOf(q)) /\ ~MayBeNamed(ManifestOf(q))'
    BY <1>4, <1>6, <2>1 DEF MayBeNamed
  <2>3. PartSound(q)'
    BY <1>4, <2>1, <2>2 DEF PartSound, Unnamed
  <2>4. Leased' /\ DataReady'
    BY <1>3, <1>4, <1>5, <2>1 DEF Leased, DataReady, Touches
  <2> QED
    BY <1>2, <2>1, <2>2, <2>3, <2>4, <1>a, RangeTouched
<1>7. CASE /\ At("data") /\ data[q] \in {"short", "partial"}
           /\ data' = [data EXCEPT ![q] = "partial"]
           /\ dataImg' = [dataImg EXCEPT ![q] = {"partial"}]
           /\ bytes' = [bytes EXCEPT ![q] = intent.data[2]]
           /\ Goto("dataname") /\ UNCHANGED <<art, artImg, val, lease, leaseDisk>>
  <2>1. /\ intent.data[2].frames \in Nat /\ intent.data[2].frames > 0 /\ intent.data[2].tail = 0
    BY <1>2 DEF Prefix
  <2>2. /\ Touches(q) /\ data'[q] = "partial" /\ dataImg'[q] = {"partial"} /\ bytes'[q] = intent.data[2]
    BY <1>4, <1>5, <1>7, <2>1 DEF RInv, RawTypes, Raw, Touches, DataStates
  <2>3. ~MayBeNamed(ManifestOf(q)) /\ ~MayBeNamed(ManifestOf(q))'
    BY <1>4, <1>5, <1>7 DEF MayBeNamed
  <2>4. PartSound(q)' /\ AllFrames(q)'
    BY <2>1, <2>2, <2>3, <1>4, <1>7 DEF PartSound, Unnamed, AllFrames
  <2>5. Leased' /\ DataReady'
    BY <1>a, <1>2, <1>3, <1>4, <1>5, <1>7, <2>2, <2>4 DEF Leased, DataReady, Goto, AllFrames
  <2> QED
    BY <1>2, <2>2, <2>3, <2>4, <2>5, <1>a, RangeTouched
<1>8. CASE At("dataname") /\ Goto("datasync") /\ \E linked \in Hardlinks : SetData(q, Published(linked))
  <2>1. PICK s \in {"both", "final"} : SetData(q, s)
    BY <1>8 DEF Published
  <2>2. dataImg[q] = {"partial"} /\ AllFrames(q)
    BY <1>a, <1>1, <1>8, AtStep DEF DataReady, At
  <2>3. /\ Touches(q) /\ data'[q] = s /\ dataImg'[q] = {"partial", s} /\ lease' = lease
        /\ artImg' = artImg /\ bytes' = bytes /\ pc' = "datasync"
    BY <1>4, <1>5, <1>8, <2>1, <2>2, SetDataTouches DEF DataStates, Goto
  <2>4. ~MayBeNamed(ManifestOf(q)) /\ ~MayBeNamed(ManifestOf(q))' /\ AllFrames(q)'
    BY <1>4, <2>2, <2>3 DEF MayBeNamed, AllFrames
  <2>5. PartSound(q)'
    BY <2>3, <2>4 DEF PartSound
  <2>6. Leased' /\ DataReady'
    BY <1>3, <1>4, <1>5, <2>3 DEF Leased, DataReady
  <2> QED
    BY <1>2, <2>3, <2>4, <2>5, <2>6, <1>a, RangeTouched
<1>9. CASE At("datasync") /\ SyncRaw /\ Goto("data")
  <2>1. Quiet /\ pc' = "data"
    BY <1>9, SyncQuiet DEF SyncRaw, Goto
  <2>2. Leased' /\ DataReady'
    BY <1>3, <1>4, <1>5, <2>1 DEF Leased, DataReady, Quiet
  <2> QED
    BY <1>1, <2>1, <2>2, AtStep, QuietRInv
<1>10. CASE Block /\ UNCHANGED rawVars
  BY <1>1, <1>10, UnchangedQuiet, AtStep, QuietRInv DEF Block
<1>11. CASE At("data") /\ data[q] = "both" /\ SetData(q, "final") /\ Goto("data")
  <2>1. /\ Touches(q) /\ data'[q] = "final" /\ dataImg'[q] = dataImg[q] \cup {"final"} /\ lease' = lease
        /\ artImg' = artImg /\ art' = art /\ bytes' = bytes /\ pc' = "data"
    BY <1>4, <1>5, <1>11, SetDataTouches DEF DataStates, Goto
  <2>2. AllFrames(q)' /\ "both" \in dataImg[q] /\ (MayBeNamed(ManifestOf(q))' <=> MayBeNamed(ManifestOf(q)))
    BY <1>4, <1>5, <1>11, <2>1 DEF PartSound, AllFrames, MayBeNamed, Unnamed
  <2>3. PartSound(q)' /\ (MayBeNamed(ManifestOf(q))' => dataImg'[q] \subseteq {"both", "final"})
    BY <1>4, <2>1, <2>2 DEF PartSound
  <2>4. Leased' /\ DataReady'
    BY <1>3, <1>4, <1>5, <2>1 DEF Leased, DataReady
  <2> QED
    BY <1>2, <2>1, <2>3, <2>4, <1>a, RangeTouched
<1>12. CASE Named(data[q]) /\ SyncRaw /\ Goto("manifest")
  <2>1. Quiet
    BY <1>12, SyncQuiet DEF SyncRaw
  <2>2. pc' = "manifest" /\ dataImg'[q] = {data[q]}
    BY <1>4, <1>12 DEF SyncRaw, Goto, SyncWith
  <2>3. Leased' /\ DataReady'
    BY <1>a, <1>3, <1>4, <1>5, <1>12, <2>1, <2>2 DEF Leased, DataReady, Quiet, Named
  <2> QED
    BY <1>1, <2>1, <2>3, AtStep, QuietRInv
<1> QED
  BY <1>a, <1>6, <1>7, <1>8, <1>9, <1>10, <1>11, <1>12
     DEF PublishRange, PrepareRange, PublishStream, AcceptRange

\* The manifest follows its data.
LEMMA PublishManifestRInv == ASSUME CInv, RInv, PublishManifest PROVE RInv'
<1>a. PICK q : q = intent.data[1]
  OBVIOUS
<1>1. SourceStep /\ plan # << >>
  BY DEF SourceStep, PublishManifest
<1>2. pc \in {"manifest", "manifestname", "manifestsync"} /\ Facts = 1
  BY <1>1, AtStep DEF PublishManifest, PublishArtifact, WriteArtifact, AcceptArtifact, FactsFit, At
<1>3. /\ Present(intent.data) /\ dataImg[q] \subseteq {"both", "final"} /\ intent.man[1] = ManifestOf(q)
      /\ q \in PartsOf(intent) /\ q \in Parts /\ PartSound(q) /\ PartsOf(intent) \subseteq lease
  BY <1>a, <1>1, <1>2, AtStep DEF DataReady, Shape, PartsOf, Leased
<1>4. src' = src /\ intent' = intent /\ plan' = plan /\ Facts' = Facts /\ Leased
  BY <1>1, AtStep
<1>5. ASSUME NEW s \in {"temp", "both", "final"}, SetArt(ManifestOf(q), s),
             Named(s) \/ ~Named(art[ManifestOf(q)]),
             pc' \in {"manifest", "manifestname", "manifestsync"}
      PROVE  RInv'
  <2>1. /\ Touches(q) /\ art'[ManifestOf(q)] = s /\ artImg'[ManifestOf(q)] = artImg[ManifestOf(q)] \cup {s}
        /\ bytes' = bytes /\ data' = data /\ dataImg' = dataImg /\ lease' = lease
    BY <1>3, <1>4, <1>5, SetManifestTouches DEF ArtifactStates
  <2>2. MayBeNamed(ManifestOf(q))' => Named(art'[ManifestOf(q)])
    BY <1>3, <1>5, <2>1 DEF MayBeNamed, PartSound, Named
  <2>3. PartSound(q)'
    BY <1>3, <2>1, <2>2 DEF PartSound, AllFrames
  <2>4. Leased' /\ DataReady'
    BY <1>a, <1>2, <1>3, <1>4, <1>5, <2>1 DEF Leased, DataReady
  <2>5. ASSUME NEW i, i = intent, NEW n, n = durable[cur] PROVE SourceHeld(i)' /\ PrefixHeld(i, n)'
    <3>1. Shape(i) /\ SourceHeld(i) /\ q = i.data[1] /\ Present(i.data)
      BY <1>a, <1>1, <1>3, <2>5, AtStep
    <3>2. PrefixHeld(i, n)'
      BY <1>3, <2>1, <3>1 DEF PrefixHeld, PartSound
    <3>3. CASE InPlace(i)
      BY <3>2, <3>3 DEF SourceHeld
    <3>4. CASE ~InPlace(i)
      <4>1. i.source[2] # q
        BY <3>1, <3>4 DEF Shape, Prefix, Quarantine, Missing
      <4> QED
        BY <2>1, <3>1, <3>2, <4>1, TouchedSource
    <3> QED
      BY <3>3, <3>4
  <2> QED
    BY <1>1, <1>3, <2>1, <2>3, <2>4, <2>5, AtStep, TouchRInv
<1>6. ASSUME Quiet, dataImg'[q] \subseteq dataImg[q],
             run' = "blocked" \/ pc' \in {"manifest", "manifestname", "manifestsync", "quarantine"}
      PROVE  RInv'
  <2>1. run' = "blocked" \/ (Leased' /\ DataReady')
    BY <1>a, <1>2, <1>3, <1>4, <1>6 DEF Leased, DataReady, Quiet
  <2> QED
    BY <1>1, <1>6, <2>1, AtStep, QuietRInv
<1>7. ASSUME NEW qs, SyncWith(qs) PROVE Quiet /\ dataImg'[q] \subseteq dataImg[q]
  <2>1. Quiet
    BY <1>7, SyncQuiet
  <2> QED
    BY <1>3, <2>1 DEF Quiet, Calmer
<1>8. ASSUME UNCHANGED rawVars PROVE Quiet /\ dataImg'[q] \subseteq dataImg[q]
  BY <1>8, UnchangedQuiet DEF rawVars
<1>9. CASE \E linked \in Hardlinks : SetArt(ManifestOf(q), Published(linked)) /\ pc' = "manifestsync"
  <2>1. PICK s \in {"both", "final"} : SetArt(ManifestOf(q), s)
    BY <1>9 DEF Published
  <2> QED
    BY <1>5, <1>9, <2>1 DEF Named
<1>10. CASE ~Named(art[ManifestOf(q)]) /\ SetArt(ManifestOf(q), "temp") /\ pc' = "manifestname"
  BY <1>5, <1>10
<1>11. CASE SetArt(ManifestOf(q), "final") /\ pc' = "manifest"
  BY <1>5, <1>11 DEF Named
<1>12. CASE /\ UNCHANGED rawVars \/ \E qs : SyncWith(qs)
            /\ run' = "blocked" \/ pc' \in {"manifest", "quarantine"}
  BY <1>6, <1>7, <1>8, <1>12
<1> QED
  BY <1>3, <1>9, <1>10, <1>11, <1>12
     DEF PublishManifest, PublishArtifact, WriteArtifact, AcceptArtifact, Goto, Block

\* The source goes, moves or stays as the plan says, once its frames have their part.
LEMMA SettleSourceRInv == ASSUME CInv, RInv, SettleSource PROVE RInv'
<1>a. PICK p : p = src[2]
  OBVIOUS
<1>1. SourceStep
  BY DEF SourceStep
<1>2. pc \in {"settle", "settlesync"} /\ Facts = 2 /\ plan # << >>
  BY <1>1, AtStep DEF SettleSource, FactsFit, At
<1>3. /\ src = intent.source /\ p \in Parts /\ p \in PartsOf(intent) /\ PartSound(p) /\ p \in lease
      /\ PartsOf(intent) \subseteq lease /\ Shape(intent) /\ SourceHeld(intent)
      /\ src[1] \in {"partial", "final"}
  BY <1>a, <1>1, <1>2, AtStep DEF Leased, Shape, PartsOf, SourcePaths
<1>4. src' = src /\ intent' = intent /\ plan' = plan /\ Facts' = Facts /\ Leased
  BY <1>1, AtStep
<1>5. CASE Quiet /\ (run' = "blocked" \/ pc' = "fact")
  <2>1. run' = "blocked" \/ (Leased' /\ DataReady')
    BY <1>2, <1>4, <1>5 DEF Leased, DataReady, Quiet
  <2> QED
    BY <1>1, <1>5, <2>1, AtStep, QuietRInv
<1>6. CASE /\ At("settle") /\ intent.disposition # "retained" /\ SourcePresent(src)
           /\ SetData(src[2], WithoutSource(src)) /\ Goto("settlesync")
  <2>1. PICK s : s = WithoutSource(src)
    OBVIOUS
  <2>2. /\ data[p] \in dataImg[p] /\ data[p] \in DataStates
        /\ IF src[1] = "partial" THEN Partial(data[p]) ELSE Named(data[p])
        /\ s = IF data[p] = "both" THEN (IF src[1] = "partial" THEN "final" ELSE "partial") ELSE "absent"
    BY <1>a, <1>3, <1>6, <2>1 DEF PartSound, SourcePresent, WithoutSource, RInv, RawTypes
  <2>3. /\ Touches(p) /\ data'[p] = s /\ dataImg'[p] = dataImg[p] \cup {s} /\ lease' = lease
        /\ bytes' = bytes /\ art' = art /\ artImg' = artImg /\ pc' = "settlesync"
    BY <1>a, <1>3, <1>4, <1>6, <2>1, <2>2, SetDataTouches DEF DataStates, Goto
  <2>4. Leased' /\ DataReady'
    BY <1>2, <1>4, <2>3 DEF Leased, DataReady
  <2>5. /\ MayBeNamed(ManifestOf(p))' <=> MayBeNamed(ManifestOf(p))
        /\ AllFrames(p)' <=> AllFrames(p)
    BY <2>3 DEF MayBeNamed, AllFrames
  <2>6. CASE InPlace(intent)
    <3>1. src[1] = "partial" /\ data[p] = "both" /\ s = "final"
      BY <1>a, <1>1, <1>3, <1>6, <2>2, <2>6, AtStep DEF InPlace, DataReady, At, Named, Partial
    <3>2. PartSound(p)'
      BY <1>3, <2>2, <2>3, <2>5, <3>1 DEF PartSound, Unnamed
    <3>3. ASSUME NEW i, i = intent, NEW n, n = durable[cur] PROVE SourceHeld(i)' /\ PrefixHeld(i, n)'
      BY <2>6, <3>3 DEF SourceHeld, PrefixHeld, InPlace, Prefix
    <3> QED
      BY <1>1, <1>2, <1>3, <2>3, <2>4, <3>2, <3>3, AtStep, TouchRInv
  <2>7. CASE ~InPlace(intent)
    <3>1. IF src[1] = "partial" THEN dataImg[p] \subseteq Unnamed /\ ~MayBeNamed(ManifestOf(p))
          ELSE dataImg[p] \subseteq {"absent", "final"}
      BY <1>a, <1>3, <2>7 DEF SourceHeld
    <3>2. s = "absent"
      BY <2>2, <3>1 DEF Unnamed, Named
    <3>3. PartSound(p)'
      BY <1>3, <2>3, <2>5, <3>1, <3>2 DEF PartSound, Unnamed
    <3>4. ASSUME NEW i, i = intent, NEW n, n = durable[cur] PROVE SourceHeld(i)' /\ PrefixHeld(i, n)'
      <4>1. Shape(i) /\ PrefixHeld(i, n) /\ i.source = src /\ i.source[2] = p /\ ~InPlace(i)
        BY <1>a, <1>1, <1>2, <1>3, <2>7, <3>4, AtStep
      <4>2. SourceHeld(i)'
        BY <2>3, <2>5, <3>1, <3>2, <4>1 DEF SourceHeld, Unnamed
      <4>3. PrefixHeld(i, n)'
        BY <2>3, <4>1, TouchedPrefix DEF Prefix
      <4> QED
        BY <4>2, <4>3
    <3> QED
      BY <1>1, <1>2, <1>3, <2>3, <2>4, <3>3, <3>4, AtStep, TouchRInv
  <2> QED
    BY <2>6, <2>7
<1>7. ASSUME UNCHANGED rawVars \/ SyncRaw PROVE Quiet
  BY <1>7, UnchangedQuiet, SyncQuiet DEF SyncRaw
<1> QED
  BY <1>5, <1>6, <1>7 DEF SettleSource, Goto, GotoIf, Block
-----------------------------------------------------------------------------
(* Between the transactions *)

\* A step of which the plans known afterwards are those of the journal.
LEMMA JournalPlans ==
    ASSUME CInv, CInv', chain' = chain, Held' = Journal
    PROVE  Held' \subseteq Held /\ \A t \in Held' : IntentOf(t)' = IntentOf(t) /\ IntentOf(t) = chain[t][1]
<1>1. Journal' = Journal
  BY DEF Journal
<1>2. \A t \in Journal : IntentOf(t) = chain[t][1]
  BY DEF CInv, Flow, IntentOf
<1>3. \A t \in Journal : IntentOf(t)' = chain[t][1]
  BY <1>1 DEF CInv, Flow, IntentOf
<1> QED
  BY <1>2, <1>3 DEF Held

\* A step that lets go of a plan not in the journal keeps what the others hold.
LEMMA JournalRaw ==
    ASSUME CInv, RInv, CInv', chain' = chain, Held' = Journal, UNCHANGED rawVars, src' \in SourcePaths,
           \A t \in Txs : durable'[t] < 6 => durable[t] < 6
    PROVE  RawTypes' /\ Raw'
<1>1. Calmer /\ leaseDisk' \subseteq lease' /\ leaseDisk' = leaseDisk
  BY UnchangedQuiet DEF Quiet, rawVars
<1>2. Held' \subseteq Held /\ \A t \in Held' : IntentOf(t)' = IntentOf(t)
  BY JournalPlans
<1>3. Journal' = Journal /\ Journal \subseteq Txs
  BY DEF Journal
<1>4. \A t \in Journal' : Len(chain'[t]) >= 2 => PartsOf(chain'[t][1]) \subseteq leaseDisk'
  BY <1>1, <1>3 DEF RInv, Raw
<1>5. Raw'
  BY <1>1, <1>2, <1>3, <1>4, CalmerRaw
<1>6. RawTypes'
  BY <1>1 DEF RInv, RawTypes, Calmer
<1> QED
  BY <1>5, <1>6

\* No source that a start finds belongs to a part of a transaction.
LEMMA FoundIsFree ==
    ASSUME CInv, RInv, NEW s \in ManifestOnly \cup Unbound
    PROVE  /\ s \in SourcePaths /\ (data[s[2]] # "absent" \/ Named(art[ManifestOf(s[2])]))
           /\ \A t \in Journal : s[2] \notin PartsOf(chain[t][1])
<1>1. PICK q \in Parts :
         \/ s = <<"final", q>> /\ Named(art[ManifestOf(q)]) /\ <<"final", q>> \notin Owned
         \/ s = <<"partial", q>> /\ Partial(data[q]) /\ <<"partial", q>> \notin Owned
         \/ s = <<"final", q>> /\ data[q] = "final" /\ <<"final", q>> \notin Owned
  BY DEF ManifestOnly, Unbound
<1>2. s[2] = q /\ s \in SourcePaths
  BY <1>1 DEF SourcePaths
<1>3. ASSUME NEW t \in Journal, NEW i, i = chain[t][1], q \in PartsOf(i) PROVE FALSE
  <2>1. Claims(chain[t]) \subseteq Owned
    BY DEF Owned
  <2>2. i.source \in Owned /\ (Present(i.data) => {<<"final", i.data[1]>>, <<"partial", i.data[1]>>} \subseteq Owned)
    BY <1>3, <2>1 DEF Claims
  <2>3. q = i.source[2] /\ ~InPlace(i)
    BY <1>1, <1>3, <2>2 DEF PartsOf, InPlace
  <2>4. Shape(i) /\ SourceHeld(i)
    BY <1>3 DEF RInv, Raw, Held, CInv, Flow, IntentOf
  <2>5. i.source = <<"partial", q>> \/ i.source = <<"final", q>>
    BY <2>3, <2>4 DEF Shape, SourcePaths
  <2>6. data[q] \in dataImg[q] /\ art[ManifestOf(q)] \in artImg[ManifestOf(q)]
    BY ManifestNames DEF RInv, Raw, PartSound
  <2>7. CASE i.source = <<"partial", q>>
    <3>1. dataImg[q] \subseteq Unnamed /\ ~MayBeNamed(ManifestOf(q))
      BY <2>3, <2>4, <2>7 DEF SourceHeld
    <3> QED
      BY <1>1, <2>2, <2>6, <2>7, <3>1 DEF MayBeNamed, Unnamed
  <2>8. CASE i.source = <<"final", q>>
    <3>1. dataImg[q] \subseteq {"absent", "final"}
      BY <2>3, <2>4, <2>8 DEF SourceHeld
    <3> QED
      BY <1>1, <2>2, <2>6, <2>8, <3>1 DEF Partial
  <2> QED
    BY <2>5, <2>7, <2>8
<1> QED
  BY <1>1, <1>2, <1>3 DEF Partial

\* Nor are two of them of one part.
LEMMA FoundOnce ==
    ASSUME NEW S \in {ManifestOnly, Unbound}, NEW r \in S, NEW s \in S, r[2] = s[2]
    PROVE  r = s
<1>1. CASE S = ManifestOnly
  BY <1>1 DEF ManifestOnly
<1>2. CASE S = Unbound
  <2>1. ASSUME NEW x \in Unbound
        PROVE  (x = <<"partial", x[2]>> /\ Partial(data[x[2]])) \/ (x = <<"final", x[2]>> /\ ~Partial(data[x[2]]))
    <3>1. PICK q \in Parts : \/ x = <<"partial", q>> /\ Partial(data[q])
                             \/ x = <<"final", q>> /\ data[q] = "final"
      BY DEF Unbound
    <3>2. x[2] = q
      BY <3>1
    <3> QED
      BY <3>1, <3>2 DEF Partial
  <2> QED
    BY <1>2, <2>1
<1> QED
  BY <1>1, <1>2

\* Loading the journal finds the plans that a stop left.
LEMMA LoadJournalRInv == ASSUME CInv, RInv, LoadJournal, CInv' PROVE RInv'
<1>1. /\ pc = "next" /\ pc' = "next" /\ chain' = chain /\ UNCHANGED rawVars /\ src' = src
      /\ run' \in {"chains", "blocked"}
  BY DEF LoadJournal, CInv, Flow
<1>2. Held' = Journal
  BY <1>1 DEF Held, Journal
<1>3. ASSUME NEW t \in Txs, durable'[t] < 6 PROVE durable[t] < 6
  <2>1. /\ durable'[t] = Len(chain[t]) /\ durable[t] \in Nat /\ Len(chain[t]) \in 0..6
        /\ durable[t] = Len(chain[t]) \/ durable[t] + 1 = Len(chain[t])
    BY LengthsNow DEF LoadJournal, CInv, Types, Synced
  <2>2. \A d \in Nat, l \in 0..6 : (d = l \/ d + 1 = l) /\ l < 6 => d < 6
    OBVIOUS
  <2> QED
    BY <1>3, <2>1, <2>2, Zenon
<1>4. RawTypes' /\ Raw'
  BY <1>1, <1>2, <1>3, JournalRaw DEF RInv, RawTypes
<1> QED
  BY <1>1, <1>4 DEF RInv, Progress, Found

\* A source found is no part of a plan of the journal.
LEMMA DiscoverRInv ==
    ASSUME CInv, RInv, CInv', pc = "next", UNCHANGED <<rawVars, journalVars, pc, src>>,
           \/ run' = "blocked"
           \/ \E S \in {ManifestOnly, Unbound} : found' = S
    PROVE  RInv'
<1>1. Held' = Journal /\ chain' = chain /\ durable' = durable
  BY DEF Held, Journal, journalVars
<1>2. RawTypes' /\ Raw'
  BY <1>1, JournalRaw DEF RInv, RawTypes
<1>3. Progress'
  BY DEF Progress
<1>4. \A t \in Held' : IntentOf(t)' = chain[t][1]
  BY <1>1, JournalPlans
<1>5. CASE run' = "blocked"
  BY <1>2, <1>3, <1>5 DEF RInv, Found, Working, Settling
<1>6. ASSUME NEW S \in {ManifestOnly, Unbound}, found' = S PROVE Found'
  <2>1. \A s \in found' : /\ s \in SourcePaths /\ (data[s[2]] # "absent" \/ Named(art[ManifestOf(s[2])]))
                          /\ \A t \in Journal : s[2] \notin PartsOf(chain[t][1])
    BY <1>6, FoundIsFree
  <2>2. \A r, s \in found' : r[2] = s[2] => r = s
    BY <1>6, FoundOnce
  <2>3. data' = data /\ art' = art
    BY DEF rawVars
  <2> QED
    BY <1>1, <1>4, <2>1, <2>2, <2>3 DEF Found, Named
<1> QED
  BY <1>2, <1>3, <1>5, <1>6 DEF RInv

\* The next transaction to replay is one of the journal.
LEMMA NextChainRInv == ASSUME CInv, RInv, NextChain, CInv' PROVE RInv'
<1>1. pc = "next" /\ chain' = chain /\ durable' = durable /\ UNCHANGED rawVars /\ run = "chains"
  BY DEF NextChain, At, journalVars
<1>2. CASE todo = {}
  <2>1. run' = "temporaries" /\ pc' = "next" /\ src' = src
    BY <1>1, <1>2 DEF NextChain
  <2>2. Held' = Journal
    BY <1>1, <2>1 DEF Held, Journal
  <2>3. RawTypes' /\ Raw'
    BY <1>1, <2>1, <2>2, JournalRaw DEF RInv, RawTypes
  <2> QED
    BY <2>1, <2>3 DEF RInv, Progress, Found
<1>3. CASE todo # {}
  <2>1. PICK t : t = Min(todo)
    OBVIOUS
  <2>2. todo \subseteq Nat /\ todo \subseteq Journal
    BY RecoveryAssumption DEF CInv, Types, Accounted, Txs
  <2>3. t \in Journal
    BY <1>3, <2>1, <2>2, SmallestNumber
  <2>4. /\ cur' = t /\ plan' = <<chain[t][1]>> /\ src' = chain[t][1].source /\ run' = run
        /\ pc' = IF Len(chain[t]) < 3 THEN "lease" ELSE "recheck"
    BY <1>3, <2>1 DEF NextChain
  <2>5. Held' = Journal /\ plan' # << >> /\ intent' = chain[t][1]
    BY <1>1, <2>3, <2>4 DEF Held, Journal, intent
  <2>6. src' \in SourcePaths
    <3>1. t \in Held /\ IntentOf(t) = chain[t][1]
      BY <2>3 DEF Held, IntentOf, CInv, Flow
    <3> QED
      BY <2>4, <3>1 DEF RInv, Raw, Shape
  <2>7. RawTypes' /\ Raw'
    BY <1>1, <2>5, <2>6, JournalRaw
  <2>8. Facts' = Len(chain[t]) /\ Len(chain[t]) \in 0..6
    BY <1>1, <2>3, <2>4, LengthsNow DEF Facts
  <2>9. Leased' /\ DataReady'
    BY <2>4, <2>5, <2>8 DEF Leased, DataReady
  <2> QED
    BY <1>1, <2>4, <2>5, <2>7, <2>9 DEF RInv, Progress, Found
<1> QED
  BY <1>2, <1>3

\* The next source is one of those found.
LEMMA NextIsFound == ASSUME RInv, NextSource PROVE src' \in found
<1> DEFINE N == {f[2] : f \in found}
<1>1. N # {} /\ N \subseteq Nat
  <2>1. found # {} /\ run \in {"manifests", "sources"}
    BY DEF NextSource
  <2>2. \A f \in found : f[2] \in Nat
    BY <2>1, RecoveryAssumption DEF RInv, Found, SourcePaths, Parts
  <2> QED
    BY <2>1, <2>2
<1>2. Min(N) \in N
  <2> HIDE DEF N
  <2> QED
    BY <1>1, SmallestNumber
<1>3. \E s \in found : s[2] = Min(N)
  BY <1>2
<1> QED
  BY <1>3 DEF NextSource

\* Its transaction is a fresh one.
LEMMA NextSourceRInv == ASSUME CInv, RInv, NextSource, CInv' PROVE RInv'
<1>1. /\ pc = "next" /\ chain' = chain /\ durable' = durable /\ UNCHANGED rawVars
      /\ run \in {"manifests", "sources"} /\ run' = run /\ plan' = << >> /\ pc' = "lease"
      /\ found' = found \ {src'} /\ cur' = Min(Txs \ Journal)
  BY DEF NextSource, At, journalVars
<1>2. Held' = Journal /\ Held = Journal /\ Journal' = Journal
  BY <1>1 DEF Held, Journal
<1>3. cur' \notin Journal
  <2>1. Txs \ Journal # {} /\ Txs \ Journal \subseteq Nat
    BY RecoveryAssumption DEF NextSource, Journal, Txs
  <2> QED
    BY <1>1, <2>1, SmallestNumber
<1>4. src' \in found
  BY NextIsFound
<1>5. /\ \A s \in found : /\ s \in SourcePaths
                          /\ data[s[2]] # "absent" \/ Named(art[ManifestOf(s[2])])
                          /\ \A t \in Journal : s[2] \notin PartsOf(IntentOf(t))
      /\ \A r, s \in found : r[2] = s[2] => r = s
  BY <1>1, <1>2 DEF RInv, Found
<1>6. RawTypes' /\ Raw'
  BY <1>1, <1>2, <1>4, <1>5, JournalRaw
<1>7. Progress'
  BY <1>1 DEF Progress, Leased, DataReady
<1>8. \A t \in Journal : IntentOf(t)' = IntentOf(t)
  BY <1>1, <1>2, JournalPlans
<1>9. Found'
  <2>1. data' = data /\ art' = art
    BY <1>1 DEF rawVars
  <2>2. \A s \in found' : s \in found /\ s[2] # src'[2]
    BY <1>1, <1>4, <1>5
  <2> QED
    BY <1>1, <1>2, <1>3, <1>4, <1>5, <1>8, <2>1, <2>2 DEF Found, Named
<1> QED
  BY <1>6, <1>7, <1>9 DEF RInv

\* A settled transaction leaves the hands of the start.
LEMMA SettledRInv == ASSUME CInv, RInv, Settled, CInv' PROVE RInv'
<1>1. /\ pc' = "next" /\ UNCHANGED <<rawVars, chain, durable, run, src, found, plan, cur>>
  BY DEF Settled, journalVars
<1>2. Held' = Journal /\ Journal \subseteq Held /\ \A t : IntentOf(t)' = IntentOf(t)
  BY <1>1 DEF Held, Journal, IntentOf, intent
<1>3. RawTypes' /\ Raw'
  BY <1>1, <1>2, JournalRaw DEF RInv, RawTypes
<1>4. Found'
  BY <1>1, <1>2 DEF RInv, Found, rawVars
<1> QED
  BY <1>1, <1>3, <1>4 DEF RInv, Progress

\* Admission of an event changes no file.
LEMMA AdmitRInv == ASSUME CInv, RInv, Admit, CInv' PROVE RInv'
<1>1. /\ pc = "next" /\ pc' = "fact" /\ UNCHANGED <<rawVars, chain, durable, run, found>> /\ run = "serving"
      /\ plan' = <<chain[cur'][1]>> /\ src' = chain[cur'][1].source /\ cur' = Min(pending)
  BY DEF Admit, journalVars, At
<1>2. cur' \in Journal /\ Len(chain[cur']) = 3
  <2>1. pending \subseteq Nat /\ pending # {}
    BY RecoveryAssumption DEF CInv, Types, Txs, Admit
  <2>2. cur' \in pending
    BY <1>1, <2>1, SmallestNumber
  <2> QED
    BY <1>1, <2>2 DEF CInv, Accounted
<1>3. Held' = Journal /\ intent' = chain[cur'][1] /\ Facts' = 3
  BY <1>1, <1>2 DEF Held, Journal, intent, Facts
<1>4. src' \in SourcePaths
  <2>1. \A t \in Journal : t \in Held /\ IntentOf(t) = chain[t][1]
    BY DEF Held, IntentOf, CInv, Flow
  <2> QED
    BY <1>1, <1>2, <2>1 DEF RInv, Raw, Shape
<1>5. RawTypes' /\ Raw'
  BY <1>1, <1>3, <1>4, JournalRaw
<1>6. Leased' /\ DataReady'
  BY <1>1, <1>3 DEF Leased, DataReady
<1> QED
  BY <1>1, <1>5, <1>6 DEF RInv, Progress, Found

\* The next phase of a start changes no file.
LEMMA AdvanceRInv == ASSUME CInv, RInv, Advance, CInv' PROVE RInv'
<1>1. /\ pc = "next" /\ pc' = "next" /\ UNCHANGED <<rawVars, chain, durable, src>>
      /\ run' \in {"serving", "up"}
  BY DEF Advance, At, workVars, journalVars
<1>2. Held' = Journal
  BY <1>1 DEF Held, Journal
<1>3. RawTypes' /\ Raw'
  BY <1>1, <1>2, JournalRaw DEF RInv, RawTypes
<1> QED
  BY <1>1, <1>3 DEF RInv, Progress, Found

\* The number of a recovered part is one that nothing has used.
LEMMA NextIsFree ==
    ASSUME CInv, RInv, PlanFresh
    PROVE  /\ NextSequence # src[2] /\ ~MayBeNamed(ManifestOf(NextSequence)) /\ dataImg[NextSequence] = {"absent"}
           /\ \A t \in Journal : NextSequence \notin PartsOf(chain[t][1])
           /\ data[NextSequence] = "absent" /\ ~Named(art[ManifestOf(NextSequence)])
<1> DEFINE used == {p \in Parts : data[p] # "absent" \/ Named(art[ManifestOf(p)]) \/ p \in lease}
<1>a. PICK n : n = NextSequence
  OBVIOUS
<1>1. /\ Working /\ pc = "plan" /\ plan = << >> /\ Facts = 0 /\ n \in Parts
      /\ Leased /\ run \in {"manifests", "sources"} /\ cur \notin Journal /\ src \in SourcePaths
  <2>1. Working /\ pc = "plan" /\ Facts = 0 /\ n \in Parts
    BY <1>a DEF PlanFresh, At, CInv, Types, Flow, Phases, Working, Settling
  <2>2. plan = << >> /\ Leased
    BY <2>1 DEF CInv, Flow, FactsFit, RInv, Progress
  <2> QED
    BY <2>1, <2>2 DEF RInv, Found, RawTypes
<1>2. src[2] \in used
  BY <1>1 DEF Leased, SourcePaths
<1>3. n \notin used
  <2>1. Max(used) \in used /\ \A y \in used : Max(used) >= y
    <3>1. used \subseteq 0..MaxPart /\ used # {} /\ MaxPart \in Nat
      BY <1>2, RecoveryAssumption DEF Parts
    <3> HIDE DEF used
    <3> QED
      BY <3>1, GreatestNumber
  <2>2. n = 1 + Max(used)
    BY <1>a DEF NextSequence
  <2>3. Max(used) \in Nat
    BY <2>1, RecoveryAssumption DEF Parts
  <2> HIDE DEF used
  <2> QED
    BY <2>1, <2>2, <2>3
<1>4. n \notin lease /\ data[n] = "absent" /\ ~Named(art[ManifestOf(n)])
  BY <1>1, <1>3
<1>5. PartSound(n)
  BY <1>1 DEF RInv, Raw
<1>6. ~MayBeNamed(ManifestOf(n)) /\ dataImg[n] = {"absent"}
  BY <1>4, <1>5 DEF PartSound
<1>7. ASSUME NEW t \in Journal PROVE PartsOf(chain[t][1]) \subseteq lease
  <2>1. Len(chain[t]) \in {3, 6}
    BY <1>1 DEF CInv, Accounted
  <2> QED
    BY <2>1 DEF RInv, Raw
<1> QED
  BY <1>a, <1>2, <1>3, <1>4, <1>6, <1>7

\* A plan for a source that no transaction has, into a part that nothing has used.
LEMMA PlanSound ==
    ASSUME RawTypes, NEW next \in Parts, next # src[2], PartSound(src[2]), NEW i, PlanNow(next) = <<i>>,
           art[ManifestOf(src[2])] \in artImg[ManifestOf(src[2])]
    PROVE  /\ i.source = src /\ Shape(i) /\ SourceHeld(i)
           /\ PartsOf(i) \subseteq {src[2], next} /\ (Prefix(i) => i.data[1] = next)
<1>a. PICK p : p = src[2]
  OBVIOUS
<1>b. PICK b : b = bytes[p]
  OBVIOUS
<1>1. /\ src = <<src[1], p>> /\ src[1] \in {"partial", "final"} /\ p \in Parts /\ src \in SourcePaths
      /\ b.frames \in Nat /\ b.tail \in Nat /\ data[p] \in DataStates
  BY <1>a, <1>b DEF RawTypes, SourcePaths
<1>2. \/ /\ src[1] = "final" /\ ~Named(data[p]) /\ Named(art[ManifestOf(p)])
         /\ i = PlanMissing(cur, p, val[ManifestOf(p)], proof[p])
      \/ /\ src[1] = "partial" /\ data[p] = "both"
         /\ \E m : i = PlanCoexistence(cur, src, b, m)
      \/ /\ SourcePresent(src) /\ ~(src[1] = "partial" /\ data[p] = "both")
         /\ i = PlanSource(cur, src, b, next)
  <2>1. PlanNow(next) # << >>
    OBVIOUS
  <2>2. \A j : <<i>> = <<j>> => i = j
    OBVIOUS
  <2> QED
    BY <1>a, <1>b, <1>1, <2>1, <2>2, PlanKinds
<1>3. CASE /\ src[1] = "final" /\ ~Named(data[p]) /\ Named(art[ManifestOf(p)])
           /\ i = PlanMissing(cur, p, val[ManifestOf(p)], proof[p])
  <2>1. /\ i.source = src /\ i.data = << >> /\ i.quar = << >> /\ i.disposition = "legitimately_missing"
        /\ i.man = <<ManifestOf(p), val[ManifestOf(p)]>> /\ i.state \in CleanupStates
    BY <1>1, <1>3 DEF PlanMissing, Intent, CleanupStates
  <2>2. i.man[1] = ManifestOf(p) /\ i.man # << >>
    BY <2>1
  <2>3. Shape(i) /\ PartsOf(i) \subseteq {src[2], next} /\ ~Prefix(i) /\ ~InPlace(i)
    BY <1>a, <1>1, <1>3, <2>1, <2>2 DEF Shape, PartsOf, Missing, Prefix, InPlace, Present, CleanupStates
  <2>4. dataImg[p] \subseteq {"absent", "final"}
    BY <1>a, <1>1, <1>3 DEF PartSound, MayBeNamed, Named
  <2> QED
    BY <1>a, <1>3, <2>1, <2>3, <2>4 DEF SourceHeld
<1>4. CASE src[1] = "partial" /\ data[p] = "both" /\ \E m : i = PlanCoexistence(cur, src, b, m)
  <2>1. /\ i.source = src /\ i.data = <<p, b>> /\ i.quar = << >> /\ i.disposition = "removed"
        /\ i.state = "publication_coexistence" /\ \E c : i.man = <<ManifestOf(p), c>>
    BY <1>a, <1>4 DEF PlanCoexistence, Intent
  <2>2. i.man[1] = ManifestOf(p) /\ i.man # << >> /\ i.data # << >> /\ i.data[1] = p
    BY <2>1
  <2>3. Shape(i) /\ PartsOf(i) \subseteq {src[2], next} /\ ~Prefix(i) /\ InPlace(i)
    BY <1>a, <1>1, <1>4, <2>1, <2>2 DEF Shape, PartsOf, Prefix, InPlace, Present
  <2> QED
    BY <2>1, <2>3 DEF SourceHeld
<1>5. CASE /\ SourcePresent(src) /\ ~(src[1] = "partial" /\ data[p] = "both")
           /\ i = PlanSource(cur, src, b, next)
  <2>1. src[1] = "partial" => dataImg[p] \subseteq Unnamed /\ ~MayBeNamed(ManifestOf(p))
    BY <1>a, <1>5 DEF SourcePresent, Partial, PartSound, Unnamed
  <2>2. CASE src[1] = "partial" /\ b.frames > 0
    <3>1. i = PlanPrefix(cur, src, b, next)
      BY <1>5, <2>2 DEF PlanSource
    <3>2. /\ i.source = src /\ i.data = <<next, Bytes(b.frames, 0)>> /\ i.disposition = "removed"
          /\ i.state \in {"partial_complete", "partial_truncated"} /\ \E c : i.man = <<ManifestOf(next), c>>
          /\ i.quar = << >> \/ \E c : i.quar = <<BadTail(src), c>>
      BY <3>1 DEF PlanPrefix, Intent
    <3>3. /\ i.man[1] = ManifestOf(next) /\ i.man # << >> /\ i.data # << >> /\ i.data[1] = next
          /\ i.quar # << >> => i.quar[1] = BadTail(src)
          /\ i.data[2].frames = b.frames /\ i.data[2].tail = 0
      BY <3>2 DEF Bytes
    <3>4. Prefix(i)
      BY <1>a, <1>1, <2>2, <3>2, <3>3 DEF Prefix, Present
    <3>5. Shape(i) /\ PartsOf(i) \subseteq {src[2], next}
      BY <1>a, <1>1, <3>2, <3>3, <3>4 DEF Shape, PartsOf, Present
    <3> QED
      BY <1>a, <2>1, <2>2, <3>2, <3>3, <3>5 DEF SourceHeld
  <2>3. CASE src[1] = "final" /\ b.frames > 0 /\ b.tail = 0
    <3>1. i = PlanOrphan(cur, src, b)
      BY <1>5, <2>3 DEF PlanSource
    <3>2. /\ i.source = src /\ i.data = <<p, b>> /\ i.disposition = "retained"
          /\ i.quar = << >> /\ \E c : i.man = <<ManifestOf(p), c>>
      BY <1>a, <3>1 DEF PlanOrphan, Intent
    <3>3. i.man[1] = ManifestOf(p) /\ i.man # << >> /\ i.data # << >> /\ i.data[1] = p
      BY <3>2
    <3>4. Shape(i) /\ PartsOf(i) \subseteq {src[2], next} /\ ~Prefix(i) /\ InPlace(i)
      BY <1>a, <1>1, <3>2, <3>3 DEF Shape, PartsOf, Prefix, InPlace, Present
    <3> QED
      BY <3>2, <3>4 DEF SourceHeld
  <2>4. CASE ~(src[1] = "partial" /\ b.frames > 0) /\ ~(src[1] = "final" /\ b.frames > 0 /\ b.tail = 0)
    <3>1. i = PlanWhole(cur, src, b)
      BY <1>5, <2>4 DEF PlanSource
    <3>2. /\ i.source = src /\ i.data = << >> /\ i.man = << >> /\ i.disposition = "moved_to_quarantine"
          /\ i.state \in {"partial_truncated", "orphan_closed_data"} /\ i.quar = <<Whole(src), b>>
      BY <3>1 DEF PlanWhole, Intent
    <3>3. i.quar[1] = Whole(src)
      BY <3>2
    <3>4. Shape(i) /\ PartsOf(i) \subseteq {src[2], next} /\ ~Prefix(i) /\ ~InPlace(i)
      BY <1>a, <1>1, <3>2, <3>3 DEF Shape, PartsOf, Quarantine, Prefix, InPlace, Present
    <3>5. src[1] = "final" => dataImg[p] \subseteq {"absent", "final"}
      <4>1. src[1] = "final" => ~AllFrames(p) /\ Named(data[p])
        BY <1>a, <1>b, <1>1, <1>5, <2>4 DEF AllFrames, SourcePresent
      <4> QED
        BY <1>a, <4>1 DEF PartSound, Unnamed, Named
    <3> QED
      BY <1>a, <1>1, <2>1, <3>2, <3>4, <3>5 DEF SourceHeld
  <2> QED
    BY <1>1, <2>2, <2>3, <2>4
<1> QED
  BY <1>2, <1>3, <1>4, <1>5

\* A fresh plan holds a source found, and the next free number.
LEMMA PlanFreshRInv == ASSUME CInv, RInv, PlanFresh, CInv' PROVE RInv'
<1>a. PICK next : next = NextSequence
  OBVIOUS
<1>1. /\ UNCHANGED <<rawVars, chain, durable, cur, src, found>> /\ next \in Parts
      /\ pc = "plan" /\ Facts = 0 /\ run \notin {"up", "blocked"}
  BY <1>a DEF PlanFresh, journalVars, At
<1>2. Working /\ plan = << >> /\ Leased /\ cur \in Txs /\ cur \notin Journal /\ run \in {"manifests", "sources"}
  <2>1. Working
    BY <1>1 DEF CInv, Types, Flow, Phases, Working, Settling
  <2>2. plan = << >> /\ Leased /\ cur \in Txs
    BY <1>1, <2>1 DEF CInv, Flow, FactsFit, Types, RInv, Progress
  <2> QED
    BY <1>1, <2>1, <2>2 DEF RInv, Found
<1>3. Journal' = Journal /\ Held = Journal
  BY <1>1, <1>2 DEF Journal, Held
<1>4. CASE PlanNow(next) = << >>
  <2>1. run' = "blocked" /\ plan' = plan
    BY <1>a, <1>4 DEF PlanFresh
  <2>2. Held' = Journal
    BY <1>2, <1>3, <2>1 DEF Held
  <2>3. RawTypes' /\ Raw'
    BY <1>1, <2>2, JournalRaw DEF RInv, RawTypes
  <2> QED
    BY <2>1, <2>3 DEF RInv, Progress, Found, Working, Settling
<1>5. CASE PlanNow(next) # << >>
  <2>1. /\ next # src[2] /\ ~MayBeNamed(ManifestOf(next)) /\ dataImg[next] = {"absent"}
        /\ \A t \in Journal : next \notin PartsOf(chain[t][1])
        /\ data[next] = "absent" /\ ~Named(art[ManifestOf(next)])
    BY <1>a, NextIsFree
  <2>2. PICK i : PlanNow(next) = <<i>>
    BY <1>5, PlanKinds DEF RInv, RawTypes
  <2>3. plan' = <<i>> /\ pc' = "lease2" /\ run' = run /\ plan' # << >> /\ intent' = i
    BY <1>a, <1>5, <2>2 DEF PlanFresh, intent
  <2>4. src[2] \in Parts /\ PartSound(src[2]) /\ art[ManifestOf(src[2])] \in artImg[ManifestOf(src[2])]
    BY ManifestNames DEF RInv, RawTypes, Raw, SourcePaths
  <2>5. /\ i.source = src /\ Shape(i) /\ SourceHeld(i)
        /\ PartsOf(i) \subseteq {src[2], next} /\ (Prefix(i) => i.data[1] = next)
    BY <1>1, <2>1, <2>2, <2>4, PlanSound DEF RInv
  <2>6. \A t \in Journal : PartsOf(IntentOf(t)) \cap PartsOf(i) = {} /\ IntentOf(t)' = IntentOf(t)
    <3>1. \A t \in Journal : IntentOf(t) = chain[t][1] /\ src[2] \notin PartsOf(IntentOf(t))
      BY <1>1, <1>2, <1>3 DEF IntentOf, RInv, Found
    <3>2. \A t \in Journal : IntentOf(t)' = chain[t][1]
      BY <1>1, <1>2 DEF IntentOf
    <3> QED
      BY <2>1, <2>5, <3>1, <3>2
  <2>7. Held' = Journal \cup {cur} /\ \A t : t = cur => IntentOf(t)' = i
    BY <1>1, <1>3, <2>3 DEF Held, IntentOf
  <2>8. Raw'
    <3>1. Calmer /\ leaseDisk' \subseteq lease' /\ leaseDisk' = leaseDisk
      BY <1>1, UnchangedQuiet DEF Quiet, rawVars
    <3>2. \A p \in Parts : PartSound(p)'
      BY <3>1, CalmerPart DEF RInv, Raw
    <3>3. ASSUME NEW t \in Held', NEW j, j = IntentOf(t)', NEW n, n = durable[t]
          PROVE  Shape(j) /\ SourceHeld(j)' /\ PrefixHeld(j, n)'
      <4>1. CASE t = cur
        <5>1. j = i /\ PrefixHeld(j, n)
          BY <2>1, <2>5, <2>7, <3>3, <4>1 DEF PrefixHeld
        <5> QED
          BY <2>5, <3>1, <5>1, CalmerHeld
      <4>2. CASE t # cur
        <5>1. Shape(j) /\ SourceHeld(j) /\ PrefixHeld(j, n)
          BY <1>3, <2>6, <2>7, <3>3, <4>2 DEF RInv, Raw
        <5> QED
          BY <3>1, <5>1, CalmerHeld
      <4> QED
        BY <4>1, <4>2
    <3>4. \A t \in Held' : Shape(IntentOf(t))' /\ SourceHeld(IntentOf(t))' /\ PrefixHeld(IntentOf(t), durable[t])'
      BY <1>1, <3>3 DEF SourceHeld, PrefixHeld, MayBeNamed
    <3>5. \A t, u \in Held' : t # u => PartsOf(IntentOf(t))' \cap PartsOf(IntentOf(u))' = {}
      <4>1. \A t, u \in Journal : t # u => PartsOf(IntentOf(t)) \cap PartsOf(IntentOf(u)) = {}
        BY <1>3 DEF RInv, Raw
      <4> QED
        BY <1>2, <2>6, <2>7, <4>1
    <3>6. /\ \A a \in Artifacts : art'[a] \in artImg'[a]
          /\ \A t \in Journal' : Len(chain'[t]) >= 2 => PartsOf(chain'[t][1]) \subseteq leaseDisk'
      BY <1>1, <1>3, <3>1 DEF RInv, Raw, Calmer
    <3> QED
      BY <3>1, <3>2, <3>4, <3>5, <3>6 DEF Raw
  <2>9. RawTypes'
    BY <1>1 DEF RInv, RawTypes, rawVars
  <2>10. InPlace(i) => Named(data[src[2]])
    BY <2>2, PlanInPlace DEF RInv, RawTypes
  <2>11. Leased' /\ DataReady'
    <3>1. Facts' = 0 /\ src[2] \in lease /\ src' = src /\ lease' = lease /\ data' = data
      BY <1>1, <1>2 DEF Facts, Leased, rawVars
    <3> QED
      BY <2>3, <2>5, <2>10, <3>1 DEF Leased, DataReady
  <2>12. Found'
    <3>1. \A s \in found : /\ s \in SourcePaths
                           /\ data[s[2]] # "absent" \/ Named(art[ManifestOf(s[2])])
                           /\ \A t \in Journal : s[2] \notin PartsOf(IntentOf(t))
                           /\ s[2] # src[2]
      BY <1>1, <1>2, <1>3 DEF RInv, Found
    <3>2. \A s \in found : s[2] \notin PartsOf(i)
      BY <2>1, <2>5, <3>1
    <3>3. \A r, s \in found : r[2] = s[2] => r = s
      BY <1>2 DEF RInv, Found
    <3>4. data' = data /\ art' = art /\ src' = src /\ found' = found
      BY <1>1 DEF rawVars
    <3> QED
      BY <2>3, <2>6, <2>7, <3>1, <3>2, <3>3, <3>4 DEF Found, Named
  <2> QED
    BY <2>8, <2>9, <2>11, <2>12 DEF RInv, Progress
<1> QED
  BY <1>4, <1>5

\* The steps between two transactions change no file.
LEMMA BetweenRInv == ASSUME CInv, RInv, Between PROVE RInv'
<1>1. CInv'
  BY BetweenCInv
<1>2. CASE DiscoverUnbound
  <2>1. pc = "next" /\ UNCHANGED <<rawVars, journalVars, pc, src>> /\ (run' = "blocked" \/ found' = Unbound)
    BY <1>2 DEF DiscoverUnbound, At
  <2> QED
    BY <1>1, <2>1, DiscoverRInv
<1>3. CASE DiscoverManifests
  <2>1. pc = "next" /\ UNCHANGED <<rawVars, journalVars, pc, src>> /\ (run' = "blocked" \/ found' = ManifestOnly)
    BY <1>3 DEF DiscoverManifests, At
  <2> QED
    BY <1>1, <2>1, DiscoverRInv
<1> QED
  BY <1>1, <1>2, <1>3, LoadJournalRInv, NextChainRInv, NextSourceRInv, PlanFreshRInv, SettledRInv, AdmitRInv, AdvanceRInv
     DEF Between

\* The next temporary is that of a part.
LEMMA NextTemporary ==
    ASSUME WriterTemporaries # {}
    PROVE  Min(WriterTemporaries) \in WriterTemporaries /\ WriterTemporaries \subseteq Parts
<1>1. WriterTemporaries \subseteq Nat /\ WriterTemporaries \subseteq Parts
  BY RecoveryAssumption DEF WriterTemporaries, Parts
<1> QED
  BY <1>1, SmallestNumber

\* A manifest gets its final name, or stays with that alone, beside data that has its own.
LEMMA NameRInv ==
    ASSUME CInv, RInv, CInv', Settling, pc = "next", run' = "syncing",
           UNCHANGED <<journalVars, pc, cur, workVars>>, NEW p \in Parts, NEW s \in {"both", "final"},
           SetArt(ManifestOf(p), s),
           \/ MayBeNamed(ManifestOf(p))
           \/ Named(data[p]) /\ dataImg[p] = {data[p]}
    PROVE  RInv'
<1>1. /\ UNCHANGED <<chain, durable, src, plan, cur, found>> /\ pc' = "next"
  BY DEF journalVars, workVars
<1>2. /\ Touches(p) /\ art'[ManifestOf(p)] = s /\ artImg'[ManifestOf(p)] = artImg[ManifestOf(p)] \cup {s}
      /\ bytes' = bytes /\ data' = data /\ dataImg' = dataImg /\ lease' = lease
  BY <1>1, SetManifestTouches DEF ArtifactStates
<1>3. /\ Held' = Journal /\ Held = Journal /\ Journal' = Journal /\ \A t : IntentOf(t)' = IntentOf(t)
  BY <1>1 DEF Held, Journal, IntentOf, intent
<1>4. PartSound(p) /\ dataImg[p] \subseteq {"absent", "both", "final"}
  BY DEF RInv, Raw, PartSound, Named
<1>5. PartSound(p)'
  <2>1. MayBeNamed(ManifestOf(p))' /\ Named(art'[ManifestOf(p)])
    BY <1>2 DEF MayBeNamed, Named
  <2> QED
    BY <1>2, <1>4, <2>1 DEF PartSound, AllFrames
<1>6. \A r \in Parts : PartSound(r)'
  BY <1>2, <1>5, TouchedElsewhere DEF RInv, Raw
<1>7. ASSUME NEW t \in Held, NEW i, i = IntentOf(t), NEW n, n = durable[t]
      PROVE  Shape(i) /\ SourceHeld(i)' /\ PrefixHeld(i, n)'
  <2>1. Shape(i) /\ SourceHeld(i) /\ PrefixHeld(i, n)
    BY <1>7 DEF RInv, Raw
  <2>2. SourceHeld(i)'
    <3>1. CASE i.source[2] = p
      <4>1. ~InPlace(i) => i.source[1] # "partial"
        BY <2>1, <3>1, <1>4 DEF SourceHeld, Named, Unnamed, PartSound
      <4> QED
        BY <1>2, <2>1, <3>1, <4>1 DEF SourceHeld
    <3>2. CASE i.source[2] # p
      BY <1>2, <2>1, <3>2, TouchedSource
    <3> QED
      BY <3>1, <3>2
  <2>3. PrefixHeld(i, n)'
    <3>1. CASE Prefix(i) /\ i.data[1] = p
      BY <1>2, <2>1, <3>1 DEF PrefixHeld, Named
    <3>2. CASE ~(Prefix(i) /\ i.data[1] = p)
      BY <1>2, <2>1, <3>2, TouchedPrefix
    <3> QED
      BY <3>1, <3>2
  <2> QED
    BY <2>1, <2>2, <2>3
<1>8. \A t \in Held' : Shape(IntentOf(t))' /\ SourceHeld(IntentOf(t))' /\ PrefixHeld(IntentOf(t), durable[t])'
  BY <1>1, <1>3, <1>7 DEF SourceHeld, PrefixHeld, MayBeNamed
<1>9. \A t, u \in Held' : t # u => PartsOf(IntentOf(t))' \cap PartsOf(IntentOf(u))' = {}
  BY <1>3 DEF RInv, Raw
<1>10. /\ \A a \in Artifacts : art'[a] \in artImg'[a]
       /\ leaseDisk' \subseteq lease'
       /\ \A t \in Journal' : Len(chain'[t]) >= 2 => PartsOf(chain'[t][1]) \subseteq leaseDisk'
  BY <1>1, <1>2, <1>3 DEF Touches, RInv, Raw
<1>11. Raw'
  BY <1>6, <1>8, <1>9, <1>10 DEF Raw
<1> QED
  BY <1>1, <1>2, <1>11 DEF RInv, Touches, Progress, Found

\* A sync between the transactions keeps all there is.
LEMMA SyncRInv ==
    ASSUME CInv, RInv, CInv', pc = "next", UNCHANGED <<journalVars, pc, cur, workVars>>,
           run' \notin {"manifests", "sources"}, SyncRaw
    PROVE  RInv'
<1>1. /\ UNCHANGED <<chain, durable, src, plan, cur, found>> /\ pc' = "next"
  BY DEF journalVars, workVars
<1>2. Quiet
  BY SyncQuiet DEF SyncRaw
<1>3. /\ Held' = Journal /\ Held = Journal /\ Journal' = Journal /\ \A t : IntentOf(t)' = IntentOf(t)
  BY <1>1 DEF Held, Journal, IntentOf, intent
<1>4. \A t \in Journal' : Len(chain'[t]) >= 2 => PartsOf(chain'[t][1]) \subseteq leaseDisk'
  BY <1>1, <1>2, <1>3 DEF RInv, Raw, Quiet
<1>5. Raw'
  BY <1>1, <1>2, <1>3, <1>4, CalmerRaw DEF Quiet
<1>6. RawTypes'
  BY <1>1, <1>2 DEF RInv, RawTypes, Quiet, Calmer
<1> QED
  BY <1>1, <1>5, <1>6 DEF RInv, Progress, Found

\* The writer's manifest temporaries are settled beside data that is named.
LEMMA TempStepRInv == ASSUME CInv, RInv, Naming, TempStep PROVE RInv'
<1>1. /\ CInv' /\ Settling /\ pc = "next" /\ UNCHANGED <<journalVars, pc, cur, workVars>>
      /\ run' \in {"temporaries", "naming", "syncing", "blocked"} /\ UNCHANGED <<src>>
  BY TempStepSettles, TempStepCInv DEF workVars
<1>2. CASE run' = "blocked" /\ UNCHANGED rawVars
  BY <1>1, <1>2, DiscoverRInv
<1>3. CASE SyncRaw
  BY <1>1, <1>3, SyncRInv
<1>4. ASSUME SettleTemporary, SetArt(ManifestOf(Min(WriterTemporaries)), "final"), run' = "syncing",
             art[ManifestOf(Min(WriterTemporaries))] # "temp"
      PROVE  RInv'
  <2>1. PICK p \in Parts : p = Min(WriterTemporaries) /\ p \in WriterTemporaries
    BY <1>4, NextTemporary DEF SettleTemporary
  <2>2. MayBeNamed(ManifestOf(p))
    BY <1>4, <2>1, ManifestNames DEF WriterTemporaries, MayBeNamed, Named, RInv, Raw
  <2> QED
    BY <1>1, <1>4, <2>1, <2>2, NameRInv
<1>5. CASE PublishTemporary
  <2>1. PICK p \in Parts : p = Min(WriterTemporaries) /\ Named(data[p]) /\ dataImg[p] = {data[p]}
    BY <1>5 DEF PublishTemporary, Naming
  <2>2. PICK s \in {"both", "final"} : SetArt(ManifestOf(p), s)
    BY <1>5, <2>1 DEF PublishTemporary, Published
  <2> QED
    BY <1>1, <1>5, <2>1, <2>2, NameRInv DEF PublishTemporary
<1> QED
  BY <1>2, <1>3, <1>4, <1>5 DEF TempStep, SettleTemporary, SyncTemporary

\* Only SettleTemporary gets there, by a sync.
LEMMA NamingStays == ASSUME CInv, RInv, Naming, [Next]_vars PROVE Naming'
<1>1. CASE SettleTemporary
  <2>1. SUFFICES ASSUME run' = "naming" PROVE Naming'
    BY DEF Naming
  <2>2. PICK p \in Parts : p = Min(WriterTemporaries) /\ p \in WriterTemporaries
    BY <1>1, NextTemporary DEF SettleTemporary
  <2>3. Loads(p) /\ art[ManifestOf(p)] = "temp" /\ SyncRaw /\ torn' = torn
    BY <1>1, <2>1, <2>2 DEF SettleTemporary, controlVars
  <2>4. /\ UNCHANGED <<data, bytes, art, val>> /\ dataImg'[p] = {data[p]} /\ artImg'[ManifestOf(p)] = {"temp"}
        /\ ManifestOf(p) \notin torn' /\ Named(data[p]) /\ bytes[p] = val[ManifestOf(p)].of
    BY <2>3, ManifestNames DEF SyncRaw, SyncWith, Loads, DataExact
  <2>5. WriterTemporaries' = WriterTemporaries
    BY <2>4 DEF WriterTemporaries
  <2> QED
    BY <2>2, <2>3, <2>4, <2>5 DEF Naming, WriterTemporaries, Named
<1>2. CASE UNCHANGED vars
  <2>1. UNCHANGED <<run, data, dataImg, bytes, art, artImg, val, torn>>
    BY <1>2 DEF vars, rawVars, controlVars
  <2>2. WriterTemporaries' = WriterTemporaries
    BY <2>1 DEF WriterTemporaries
  <2> QED
    BY <2>1, <2>2 DEF Naming, Named
<1>3. CASE SourceStep \/ CarrierStep \/ PublishFact \/ SyncFact
  <2>1. pc # "next" /\ (run' = run \/ run' = "blocked")
    BY <1>3, SourceStepStays, CarrierStepStays
       DEF Stays, CarrierStays, PublishFact, SyncFact, At, Goto, Block
  <2>2. run # "naming"
    BY <2>1 DEF CInv, Flow, Settling
  <2> QED
    BY <2>1, <2>2 DEF Naming
<1>4. CASE Between
  <2>1. run # "naming" \/ pc # "next"
    BY <1>4 DEF Between, LoadJournal, NextChain, DiscoverManifests, DiscoverUnbound, NextSource, PlanFresh,
                Settled, Admit, Advance, At
  <2>2. run # "naming"
    BY <2>1 DEF CInv, Flow, Settling
  <2>3. run' # "naming"
    BY <1>4, <2>2 DEF Between, LoadJournal, NextChain, DiscoverManifests, DiscoverUnbound, NextSource, PlanFresh,
                      Settled, Admit, Advance
  <2> QED
    BY <2>3 DEF Naming
<1>5. CASE PublishTemporary \/ SyncTemporary \/ Kill \/ PowerLoss \/ \E p \in Parts : RemoveData(p)
  BY <1>5 DEF PublishTemporary, SyncTemporary, Kill, PowerLoss, Begin, RemoveData, Naming
<1> QED
  BY <1>1, <1>2, <1>3, <1>4, <1>5 DEF Next, Process, SourceStep, CarrierStep, Between
-----------------------------------------------------------------------------
(* Facts, carriers, stops and the retention job *)

\* A step that leaves the raw files alone and keeps to its plan.
LEMMA SamePlanRInv ==
    ASSUME CInv, RInv, UNCHANGED <<rawVars, cur, src, plan, found>>, pc # "next", plan # << >>, Held' = Held,
           \A t \in Held : IntentOf(t)' = IntentOf(t) /\ (durable'[t] < 6 => durable[t] < 6),
           \A t \in Journal' : Len(chain'[t]) >= 2 => PartsOf(chain'[t][1]) \subseteq leaseDisk,
           run' = "blocked" \/ (run' = run /\ pc' # "next" /\ Leased' /\ DataReady')
    PROVE  RInv'
<1>1. Calmer /\ leaseDisk' \subseteq lease' /\ leaseDisk' = leaseDisk /\ data' = data /\ art' = art
  BY UnchangedQuiet DEF Quiet, rawVars
<1>2. Raw'
  BY <1>1, CalmerRaw
<1>3. RawTypes'
  BY <1>1 DEF RInv, RawTypes, Calmer
<1>4. Progress'
  BY DEF Progress, Working, Settling
<1>5. Found'
  BY <1>1 DEF RInv, Found, Working, Settling, Named
<1> QED
  BY <1>2, <1>3, <1>4, <1>5 DEF RInv

\* A fact published keeps the plan; the second one comes after the lease is synced.
LEMMA PublishFactRInv == ASSUME CInv, RInv, PublishFact PROVE RInv'
<1>1. /\ UNCHANGED <<rawVars, durable, cur, src, plan, found>> /\ pc = "fact"
      /\ run \notin {"up", "blocked"}
      /\ \/ chain' = chain /\ run' = "blocked" /\ pc' = pc
         \/ /\ chain' = [chain EXCEPT ![cur] = Append(chain[cur], NextFact)]
            /\ run' = run /\ pc' = "factsync"
  BY DEF PublishFact, At, Block, Goto, workVars
<1>2. Working /\ plan # << >> /\ Facts \in 0..5 /\ Leased /\ DataReady /\ cur \in Txs
  <2>1. Working
    BY <1>1 DEF CInv, Types, Flow, Phases, Working, Settling
  <2> QED
    BY <1>1, <2>1 DEF CInv, Flow, FactsFit, RInv, Progress, Types
<1>3. CASE chain' = chain /\ run' = "blocked" /\ pc' = pc
  <2>1. Held' = Held /\ Journal' = Journal /\ \A t : IntentOf(t)' = IntentOf(t)
    BY <1>1, <1>3 DEF Held, Journal, IntentOf, intent
  <2>2. \A t \in Journal' : Len(chain'[t]) >= 2 => PartsOf(chain'[t][1]) \subseteq leaseDisk
    BY <1>3, <2>1 DEF RInv, Raw
  <2> QED
    BY <1>1, <1>2, <1>3, <2>1, <2>2, SamePlanRInv
<1>4. CASE /\ chain' = [chain EXCEPT ![cur] = Append(chain[cur], NextFact)]
           /\ run' = run /\ pc' = "factsync"
  <2>1. /\ \A t \in Txs : t # cur => chain'[t] = chain[t]
        /\ chain'[cur] = Append(chain[cur], NextFact)
    BY <1>2, <1>4 DEF CInv, Types
  <2>2. /\ IsChain(chain'[cur]) /\ Len(chain'[cur]) = Len(chain[cur]) + 1
        /\ \A k \in 1..Len(chain[cur]) : chain'[cur][k] = chain[cur][k]
    <3>1. IsChain(chain[cur]) /\ Len(chain[cur]) \in 0..5
      BY <1>2 DEF CInv, Types, Facts
    <3>2. \A l \in 0..5 : l <= 5
      OBVIOUS
    <3>3. Len(chain[cur]) <= 5
      BY <3>1, <3>2, Zenon
    <3> QED
      BY <2>1, <3>1, <3>3, AppendChain
  <2>4. Held' = Held /\ \A t \in Held : IntentOf(t)' = IntentOf(t)
    <3>1. Journal' = Journal \cup {cur}
      <4>1. chain'[cur] # << >>
        BY <2>2, ChainFacts, LengthsNow
      <4> QED
        BY <1>2, <2>1, <4>1 DEF Journal
    <3>2. Held' = Held /\ Held \subseteq Txs
      BY <1>1, <1>2, <1>4, <3>1 DEF Held, Journal
    <3> QED
      BY <1>1, <1>2, <2>1, <3>2 DEF IntentOf, intent
  <2>5. ASSUME NEW t \in Journal', Len(chain'[t]) >= 2 PROVE PartsOf(chain'[t][1]) \subseteq leaseDisk
    <3>1. t \in Txs
      BY DEF Journal
    <3>2. CASE t # cur
      <4>1. t \in Journal /\ chain'[t] = chain[t]
        BY <2>1, <3>1, <3>2 DEF Journal
      <4> QED
        BY <2>5, <4>1 DEF RInv, Raw
    <3>3. CASE t = cur
      <4>1. Len(chain[cur]) \in 0..6 /\ (cur \in Journal <=> Len(chain[cur]) >= 1) /\ Len(chain[cur]) = Facts
        BY <1>2, LengthsNow DEF Facts
      <4>2. Len(chain[cur]) >= 1
        BY <2>2, <2>5, <3>3, <4>1
      <4>3. cur \in Journal /\ chain'[cur][1] = chain[cur][1] /\ chain[cur][1] = intent
        BY <1>2, <2>2, <4>1, <4>2 DEF CInv, Flow
      <4>4. CASE Facts = 1
        BY <1>1, <1>2, <3>3, <4>3, <4>4 DEF Leased
      <4>5. CASE Facts # 1
        BY <3>3, <4>1, <4>2, <4>3, <4>5 DEF RInv, Raw
      <4> QED
        BY <4>4, <4>5
    <3> QED
      BY <3>2, <3>3
  <2>6. Leased' /\ DataReady'
    <3>1. Facts' = Facts + 1
      BY <1>1, <2>2 DEF Facts
    <3>2. intent' = intent /\ plan' = plan /\ src' = src /\ lease' = lease /\ data' = data
      BY <1>1 DEF intent, rawVars
    <3> QED
      BY <1>1, <1>2, <1>4, <3>1, <3>2 DEF Leased, DataReady
  <2> QED
    BY <1>1, <1>2, <1>4, <2>4, <2>5, <2>6, SamePlanRInv
<1> QED
  BY <1>1, <1>3, <1>4

\* A fact synced keeps the plan.
LEMMA SyncFactRInv == ASSUME CInv, RInv, SyncFact PROVE RInv'
<1>1. /\ UNCHANGED <<rawVars, chain, cur, src, plan, found, run>> /\ pc = "factsync"
      /\ run \notin {"up", "blocked"} /\ durable' = [durable EXCEPT ![cur] = Facts]
      /\ pc' = (CASE Facts = 1 -> "data" [] Facts = 2 -> "verify"
                  [] Facts = 3 -> IF run = "chains" THEN "recheck" ELSE "settled"
                  [] Facts = 4 -> "carrier" [] Facts = 5 -> "fact" [] Facts = 6 -> "settled")
  BY DEF SyncFact, At, Goto, workVars
<1>2. Working /\ plan # << >> /\ Facts \in 1..6 /\ Leased /\ DataReady /\ cur \in Txs
  <2>1. Working
    BY <1>1 DEF CInv, Types, Flow, Phases, Working, Settling
  <2> QED
    BY <1>1, <2>1 DEF CInv, Flow, FactsFit, RInv, Progress, Types
<1>3. /\ Facts = 1 => pc' = "data"
      /\ Facts = 2 => pc' = "verify"
      /\ Facts \in 3..6 => pc' \in {"recheck", "settled", "carrier", "fact"}
  BY <1>1
<1>4. pc' # "next" /\ Facts' = Facts /\ intent' = intent
  BY <1>1, <1>2, <1>3 DEF Facts, intent
<1>5. Held' = Held /\ Journal' = Journal /\ \A t : IntentOf(t)' = IntentOf(t)
  BY <1>1, <1>4 DEF Held, Journal, IntentOf
<1>6. ASSUME NEW t \in Held, durable'[t] < 6 PROVE durable[t] < 6
  <2>1. t \in Txs /\ durable \in [Txs -> Nat]
    BY <1>2 DEF Held, Journal, CInv, Types
  <2>2. durable[cur] + 1 = Facts /\ durable[cur] \in Nat
    BY <1>1, <1>2 DEF CInv, Synced, Facts, Types
  <2>3. durable[cur] < 6
    BY <1>2, <2>2
  <2> QED
    BY <1>1, <1>6, <2>1, <2>3
<1>7. \A t \in Journal' : Len(chain'[t]) >= 2 => PartsOf(chain'[t][1]) \subseteq leaseDisk
  BY <1>1, <1>5 DEF RInv, Raw
<1>8. Leased' /\ DataReady'
  <2>1. plan' = plan /\ src' = src /\ lease' = lease /\ data' = data
    BY <1>1 DEF rawVars
  <2> QED
    BY <1>1, <1>2, <1>3, <1>4, <2>1 DEF Leased, DataReady
<1> QED
  BY <1>1, <1>2, <1>4, <1>5, <1>6, <1>7, <1>8, SamePlanRInv

\* The control stream changes no part.
LEMMA CarrierStepRInv == ASSUME CInv, RInv, CarrierStep PROVE RInv'
<1>1. CarrierStays
  BY CarrierStepStays
<1>2. /\ UNCHANGED <<chain, durable, cur, src, plan, found>> /\ pc \in {"carrier", "restore", "restoresync"} /\ Working
      /\ \/ run' = "blocked" /\ pc' = pc
         \/ run' = run /\ pc' \in {"carrier", "restore", "restoresync", "fact"}
  BY <1>1 DEF CarrierStays, journalVars, workVars
<1>3. UNCHANGED rawVars
  BY DEF CarrierStep, WriteCarrier, Acknowledge, RestoreData, SettleCoexistence, SettleNormalManifest,
         RestoreManifest, RestoreSync, AcceptCarrier
<1>4. Facts = 4 /\ plan # << >> /\ Leased
  BY <1>2 DEF CInv, Flow, FactsFit, RInv, Progress
<1>5. /\ Held' = Held /\ Journal' = Journal /\ \A t : IntentOf(t)' = IntentOf(t)
      /\ Facts' = 4 /\ intent' = intent
  BY <1>2, <1>4 DEF Held, Journal, IntentOf, intent, Facts
<1>6. \A t \in Journal' : Len(chain'[t]) >= 2 => PartsOf(chain'[t][1]) \subseteq leaseDisk
  BY <1>2, <1>5 DEF RInv, Raw
<1>7. run' = "blocked" \/ (run' = run /\ pc' # "next" /\ Leased' /\ DataReady')
  BY <1>2, <1>4, <1>5 DEF Leased, DataReady
<1> QED
  BY <1>2, <1>3, <1>4, <1>5, <1>6, <1>7, SamePlanRInv

\* A stop leaves of the raw files what their syncs allow.
LEMMA StopRInv ==
    ASSUME CInv, RInv, StartsAgain, Calmer, src' = <<"final", 0>>,
           leaseDisk \subseteq leaseDisk', leaseDisk' \subseteq lease'
    PROVE  RInv'
<1>1. Held' = Journal' /\ \A t \in Journal' : IntentOf(t)' = chain'[t][1]
  BY DEF StartsAgain, Held, IntentOf
<1>2. ASSUME NEW t \in Txs
      PROVE  /\ t \in Journal' => t \in Journal /\ chain'[t][1] = chain[t][1]
             /\ Len(chain'[t]) >= 2 => Len(chain[t]) >= 2
             /\ durable'[t] < 6 => durable[t] < 6
  <2>1. /\ IsChain(chain'[t]) /\ Len(chain'[t]) \in {durable[t], Len(chain[t])}
        /\ \A i \in 1..Len(chain'[t]) : chain'[t][i] = chain[t][i]
        /\ durable'[t] \in {durable[t], Len(chain'[t])}
    BY DEF StartsAgain
  <2>2. /\ durable[t] \in Nat /\ Len(chain[t]) \in 0..6 /\ Len(chain'[t]) \in 0..6
        /\ durable[t] = Len(chain[t]) \/ durable[t] + 1 = Len(chain[t])
        /\ t \in Journal <=> Len(chain[t]) >= 1
        /\ t \in Journal' <=> Len(chain'[t]) >= 1
    BY <2>1, LengthsNow, ChainFacts DEF CInv, Types, Synced, Journal
  <2>3. \A d \in Nat, l \in 0..6, k \in 0..6 : \A e \in {d, k} :
           (d = l \/ d + 1 = l) /\ k \in {d, l} =>
              (k >= 1 => l >= 1) /\ (k >= 2 => l >= 2) /\ (e < 6 => d < 6)
    OBVIOUS
  <2>4. /\ Len(chain'[t]) >= 1 => Len(chain[t]) >= 1
        /\ Len(chain'[t]) >= 2 => Len(chain[t]) >= 2
        /\ durable'[t] < 6 => durable[t] < 6
    BY <2>1, <2>2, <2>3, Zenon
  <2>5. Len(chain'[t]) >= 1 => chain'[t][1] = chain[t][1]
    BY <2>1, <2>2
  <2> QED
    BY <2>2, <2>4, <2>5
<1>3. Journal' \subseteq Txs
  BY DEF Journal
<1>4. \A t \in Held' : t \in Held /\ IntentOf(t)' = IntentOf(t) /\ (durable'[t] < 6 => durable[t] < 6)
  <2>1. \A t \in Journal : IntentOf(t) = chain[t][1] /\ t \in Held
    BY DEF CInv, Flow, IntentOf, Held
  <2> QED
    BY <1>1, <1>2, <1>3, <2>1
<1>5. \A t \in Journal' : Len(chain'[t]) >= 2 => PartsOf(chain'[t][1]) \subseteq leaseDisk'
  BY <1>2, <1>3 DEF RInv, Raw
<1>6. Raw'
  BY <1>4, <1>5, CalmerRaw
<1>7. RawTypes'
  <2>1. src' \in SourcePaths
    BY RecoveryAssumption DEF SourcePaths, Parts
  <2> QED
    BY <2>1 DEF RInv, RawTypes, Calmer
<1> QED
  BY <1>6, <1>7 DEF RInv, Progress, Found, StartsAgain

\* A kill leaves the files as they are.
LEMMA KillRInv == ASSUME CInv, RInv, Kill PROVE RInv'
<1>1. UNCHANGED rawVars /\ src' = <<"final", 0>>
  BY DEF Kill, Begin, rawVars
<1> QED
  BY <1>1, KillStarts, UnchangedQuiet, StopRInv DEF Quiet

\* A power loss leaves one of the images of each file.
LEMMA PowerLossRInv == ASSUME CInv, RInv, PowerLoss PROVE RInv'
<1>1. data' \in [Parts -> DataStates] /\ \A p \in Parts : data'[p] \in dataImg[p]
  <2>1. data' \in Left(data, dataImg)
    BY DEF PowerLoss
  <2> QED
    BY <2>1, LeftFacts DEF RInv, RawTypes, Raw, PartSound
<1>2. art' \in [Artifacts -> ArtifactStates] /\ \A a \in Artifacts : art'[a] \in artImg[a]
  <2>1. art' \in Left(art, artImg)
    BY DEF PowerLoss
  <2> QED
    BY <2>1, LeftFacts DEF RInv, RawTypes, Raw
<1>3. /\ dataImg' = [p \in Parts |-> {data'[p]}] /\ artImg' = [a \in Artifacts |-> {art'[a]}]
      /\ bytes' = bytes /\ src' = <<"final", 0>>
      /\ leaseDisk \subseteq leaseDisk' /\ leaseDisk' \subseteq lease'
  BY DEF PowerLoss, Begin
<1>4. Calmer
  BY <1>1, <1>2, <1>3, ManifestNames DEF Calmer
<1> QED
  BY <1>3, <1>4, PowerLossStarts, StopRInv

\* Data removed from outside leaves its manifest.
LEMMA RemoveDataRInv == ASSUME CInv, RInv, NEW p \in Parts, RemoveData(p) PROVE RInv'
<1>1. /\ run = "up" /\ run' = run /\ pc' = pc /\ UNCHANGED <<chain, durable, cur, src, plan, bytes, art, artImg, lease, leaseDisk>>
      /\ data' = [data EXCEPT ![p] = "absent"] /\ dataImg' = [dataImg EXCEPT ![p] = {"absent"}]
  BY DEF RemoveData, journalVars, workVars
<1>2. pc = "next" /\ Held = Journal /\ Held' = Held /\ Journal' = Journal /\ \A t : IntentOf(t)' = IntentOf(t)
  BY <1>1 DEF CInv, Flow, Held, Journal, IntentOf, intent
<1>3. Touches(p) /\ data'[p] = "absent" /\ dataImg'[p] = {"absent"}
  BY <1>1 DEF RInv, RawTypes, Raw, Touches, DataStates
<1>4. \A r \in Parts : PartSound(r)'
  <2>1. PartSound(p)
    BY DEF RInv, Raw
  <2>2. MayBeNamed(ManifestOf(p))' <=> MayBeNamed(ManifestOf(p))
    BY <1>1 DEF MayBeNamed
  <2>3. PartSound(p)'
    BY <1>1, <1>3, <2>1, <2>2 DEF PartSound, Unnamed
  <2> QED
    BY <1>3, <2>3, TouchedElsewhere DEF RInv, Raw
<1>5. ASSUME NEW t \in Held, NEW i, i = IntentOf(t), NEW n, n = durable[t]
      PROVE  Shape(i) /\ SourceHeld(i)' /\ PrefixHeld(i, n)'
  <2>1. Shape(i) /\ SourceHeld(i) /\ PrefixHeld(i, n)
    BY <1>5 DEF RInv, Raw
  <2>2. n = 6
    <3>1. t \in Txs /\ Len(chain[t]) = 6
      BY <1>1, <1>2 DEF CInv, Accounted, Journal
    <3> QED
      BY <1>1, <1>2, <1>5, <3>1 DEF CInv, Synced
  <2>3. \A a : MayBeNamed(a)' <=> MayBeNamed(a)
    BY <1>1 DEF MayBeNamed
  <2>4. SourceHeld(i)'
    <3>1. CASE i.source[2] = p
      BY <1>3, <2>1, <2>3, <3>1 DEF SourceHeld, Unnamed
    <3>2. CASE i.source[2] # p
      BY <1>3, <2>1, <3>2, TouchedSource
    <3> QED
      BY <3>1, <3>2
  <2>5. PrefixHeld(i, n)'
    <3>1. CASE Prefix(i) /\ i.data[1] = p
      BY <1>3, <2>2, <3>1 DEF PrefixHeld
    <3>2. CASE ~(Prefix(i) /\ i.data[1] = p)
      BY <1>3, <2>1, <3>2, TouchedPrefix
    <3> QED
      BY <3>1, <3>2
  <2> QED
    BY <2>1, <2>4, <2>5
<1>6. \A t \in Held' : Shape(IntentOf(t))' /\ SourceHeld(IntentOf(t))' /\ PrefixHeld(IntentOf(t), durable[t])'
  BY <1>1, <1>2, <1>5 DEF SourceHeld, PrefixHeld, MayBeNamed
<1>7. Raw'
  BY <1>1, <1>2, <1>3, <1>4, <1>6 DEF RInv, Raw, Touches
<1> QED
  BY <1>1, <1>2, <1>3, <1>7 DEF RInv, Touches, Progress, Found

\* The files as a writer left them
LeftBy(left, manifest) ==
    /\ left \in Leftovers
    /\ data = [p \in Parts |-> IF p \in Sources THEN left[p].names ELSE "absent"]
    /\ dataImg = [p \in Parts |-> IF p \in Sources THEN left[p].images ELSE {"absent"}]
    /\ bytes = [p \in Parts |-> IF p \in Sources THEN left[p].bytes ELSE Bytes(0, 0)]
    /\ manifest = [p \in Parts |-> IF p \in Sources THEN left[p].manifest
                                   ELSE Manifest("absent", {"absent"}, "synced")]
    /\ \A a \in Artifacts : a[1] = "manifest" => a[3] \in Parts
    /\ art = [a \in Artifacts |-> IF a[1] = "manifest" THEN manifest[a[3]].names ELSE "absent"]
    /\ artImg = [a \in Artifacts |-> IF a[1] = "manifest" THEN manifest[a[3]].images ELSE {"absent"}]

\* Init, with the parts' manifests as one function
LEMMA LeftAsFound == ASSUME Init PROVE \E left, manifest : LeftBy(left, manifest)
<1> DEFINE none == Manifest("absent", {"absent"}, "synced")
           Found_(left) == [p \in Parts |-> IF p \in Sources THEN left[p].manifest ELSE none]
<1>1. \A a \in Artifacts : a[1] = "manifest" => a[3] \in Parts
  BY DEF Artifacts, ManifestOf, BadTail, Whole
<1>2. PICK left \in Leftovers :
         /\ data = [p \in Parts |-> IF p \in Sources THEN left[p].names ELSE "absent"]
         /\ dataImg = [p \in Parts |-> IF p \in Sources THEN left[p].images ELSE {"absent"}]
         /\ bytes = [p \in Parts |-> IF p \in Sources THEN left[p].bytes ELSE Bytes(0, 0)]
         /\ art = [a \in Artifacts |->
                      IF a[1] = "manifest" THEN (IF a[3] \in Sources THEN left[a[3]].manifest ELSE none).names
                      ELSE "absent"]
         /\ artImg = [a \in Artifacts |->
                      IF a[1] = "manifest" THEN (IF a[3] \in Sources THEN left[a[3]].manifest ELSE none).images
                      ELSE {"absent"}]
  BY DEF Init
<1>3. \A a \in Artifacts : a[1] = "manifest" =>
          Found_(left)[a[3]] = IF a[3] \in Sources THEN left[a[3]].manifest ELSE none
  BY <1>1
<1>4. /\ art = [a \in Artifacts |-> IF a[1] = "manifest" THEN Found_(left)[a[3]].names ELSE "absent"]
      /\ artImg = [a \in Artifacts |-> IF a[1] = "manifest" THEN Found_(left)[a[3]].images ELSE {"absent"}]
  <2> HIDE DEF Found_, none
  <2> QED
    BY <1>2, <1>3
<1>5. LeftBy(left, Found_(left))
  BY <1>1, <1>2, <1>4 DEF LeftBy
<1> QED
  BY <1>5

\* What Publication leaves satisfies all of it.
LEMMA RInitially == ASSUME Init PROVE RInv
<1>1. PICK left, manifest : LeftBy(left, manifest)
  BY LeftAsFound
<1>0. left \in Leftovers
  BY <1>1 DEF LeftBy
<1>2. /\ lease = {} /\ leaseDisk = {} /\ chain = [t \in Txs |-> << >>]
      /\ run = "load" /\ pc = "next" /\ src = <<"final", 0>> /\ plan = << >>
  BY DEF Init
<1>a. ASSUME NEW p \in Parts
      PROVE  /\ manifest[p].names \in manifest[p].images /\ manifest[p].images \subseteq ArtifactStates
             /\ manifest[p].names \in ArtifactStates
             /\ (\E s \in manifest[p].images : Named(s)) =>
                   p \in Sources /\ Named(manifest[p].names) /\ left[p].images \subseteq {"absent", "both", "final"}
  <2>1. CASE p \notin Sources
    BY <1>1, <2>1 DEF Manifest, ArtifactStates, Named, LeftBy
  <2>2. CASE p \in Sources
    <3>1. manifest[p] = left[p].manifest
      BY <1>1, <2>2 DEF LeftBy
    <3> QED
      BY <1>0, <2>2, <3>1, LeftoverAssumption DEF ArtifactStates, Named
  <2> QED
    BY <2>1, <2>2
<1>3. RawTypes
  <2>1. src \in SourcePaths
    BY <1>2, RecoveryAssumption DEF SourcePaths, Parts
  <2>2. /\ data \in [Parts -> DataStates] /\ dataImg \in [Parts -> SUBSET DataStates]
        /\ \A p \in Parts : bytes[p].frames \in Nat /\ bytes[p].tail \in Nat
    <3>1. \A p \in Sources : /\ left[p].names \in DataStates /\ left[p].images \subseteq DataStates
                              /\ left[p].bytes.frames \in Nat /\ left[p].bytes.tail \in Nat
      BY <1>0, LeftoverAssumption DEF DataStates
    <3> QED
      BY <1>1, <3>1 DEF DataStates, Bytes, LeftBy
  <2>3. art \in [Artifacts -> ArtifactStates] /\ artImg \in [Artifacts -> SUBSET ArtifactStates]
    BY <1>1, <1>a DEF ArtifactStates, LeftBy
  <2> QED
    BY <1>1, <2>1, <2>2, <2>3 DEF RawTypes, LeftBy
<1>4. ASSUME NEW p \in Parts PROVE PartSound(p)
  <2>1. ManifestOf(p) \in Artifacts /\ ManifestOf(p)[3] = p /\ ManifestOf(p)[1] = "manifest"
    BY ManifestNames DEF ManifestOf
  <2>2. art[ManifestOf(p)] = manifest[p].names /\ artImg[ManifestOf(p)] = manifest[p].images
    BY <1>1, <2>1 DEF LeftBy
  <2>3. MayBeNamed(ManifestOf(p)) => /\ Named(art[ManifestOf(p)]) /\ p \in Sources
                                    /\ left[p].images \subseteq {"absent", "both", "final"}
    BY <1>a, <2>2 DEF MayBeNamed
  <2>4. CASE p \notin Sources
    BY <1>1, <2>3, <2>4 DEF PartSound, Unnamed, LeftBy
  <2>5. CASE p \in Sources
    <3>1. data[p] = left[p].names /\ dataImg[p] = left[p].images /\ bytes[p] = left[p].bytes
      BY <1>1, <2>5 DEF LeftBy
    <3> QED
      BY <1>0, <2>3, <2>5, <3>1, LeftoverAssumption DEF PartSound, Unnamed, AllFrames
  <2> QED
    BY <2>4, <2>5
<1>5. Held = {} /\ Journal = {}
  BY <1>2 DEF Held, Journal
<1>6. Raw
  <2>1. \A a \in Artifacts : art[a] \in artImg[a]
    BY <1>1, <1>a DEF LeftBy
  <2> QED
    BY <1>2, <1>4, <1>5, <2>1 DEF Raw
<1> QED
  BY <1>2, <1>3, <1>6 DEF RInv, Progress, Found, Working, Settling

\* Journal, control stream and raw files agree at every step of every start.
THEOREM IInvAlways == Spec => []IInv
<1>1. Init => IInv
  BY CInitially, RInitially DEF IInv, Naming, Init
<1>2. IInv /\ CInv' /\ [Next]_vars => IInv'
  <2>1. SUFFICES ASSUME CInv, RInv, Naming, CInv', [Next]_vars PROVE RInv'
    BY NamingStays DEF IInv
  <2>2. CASE SourceStep
    BY <2>1, <2>2, SourceLeaseRInv, DestinationLeaseRInv, PlanResumedRInv, SkipDataRInv, PublishRangeRInv,
       PublishManifestRInv, PublishQuarantineRInv, VerifyArtifactsRInv, SettleSourceRInv, RecheckChainRInv
       DEF SourceStep
  <2>3. CASE CarrierStep
    BY <2>1, <2>3, CarrierStepRInv
  <2>4. CASE Between
    BY <2>1, <2>4, BetweenRInv
  <2>5. CASE PublishFact
    BY <2>1, <2>5, PublishFactRInv
  <2>6. CASE SyncFact
    BY <2>1, <2>6, SyncFactRInv
  <2>7. CASE Kill
    BY <2>1, <2>7, KillRInv
  <2>8. CASE PowerLoss
    BY <2>1, <2>8, PowerLossRInv
  <2>9. ASSUME NEW p \in Parts, RemoveData(p) PROVE RInv'
    BY <2>1, <2>9, RemoveDataRInv
  <2>10. CASE UNCHANGED vars
    <3>1. UNCHANGED <<rawVars, chain, durable, run, pc, cur, src, plan, found>>
      BY <2>10 DEF vars, journalVars, workVars
    <3>2. /\ Held' = Held /\ Journal' = Journal /\ \A t : IntentOf(t)' = IntentOf(t)
          /\ Facts' = Facts /\ intent' = intent
      BY <3>1 DEF Held, Journal, IntentOf, intent, Facts
    <3>3. Calmer /\ leaseDisk' \subseteq lease' /\ leaseDisk' = leaseDisk
      BY <2>1, <3>1, UnchangedQuiet DEF Quiet, rawVars
    <3>4. \A t \in Journal' : Len(chain'[t]) >= 2 => PartsOf(chain'[t][1]) \subseteq leaseDisk'
      BY <2>1, <3>1, <3>2, <3>3 DEF RInv, Raw
    <3>5. RawTypes' /\ Raw'
      BY <2>1, <3>1, <3>2, <3>3, <3>4, CalmerRaw DEF RInv, RawTypes, rawVars
    <3>6. Progress'
      BY <2>1, <3>1, <3>2 DEF RInv, Progress, Working, Settling, Leased, DataReady, AllFrames, rawVars
    <3>7. Found'
      BY <2>1, <3>1, <3>2 DEF RInv, Found, Working, Settling, rawVars
    <3> QED
      BY <3>5, <3>6, <3>7 DEF RInv
  <2>11. CASE TempStep
    BY <2>1, <2>11, TempStepRInv
  <2> QED
    BY <2>1, <2>2, <2>3, <2>4, <2>5, <2>6, <2>7, <2>8, <2>9, <2>10, <2>11
       DEF Next, Process, SourceStep, CarrierStep, Between, TempStep
<1> QED
  BY <1>1, <1>2, CInvAlways, PTL DEF Spec

\* A transaction claims files of its own parts, and its carrier.
LEMMA ClaimOf ==
    ASSUME CInv, RInv, NEW t \in Journal, NEW c \in Claims(chain[t])
    PROVE  \/ c[1] # "control" /\ c[2] \in PartsOf(chain[t][1])
           \/ c[1] = "control" /\ Owns(t, c[2])
<1>a. PICK i : i = chain[t][1]
  OBVIOUS
<1>1. Shape(i)
  BY <1>a DEF RInv, Raw, Held, IntentOf, CInv, Flow
<1>2. i.source[1] \in {"partial", "final"} /\ i.source[2] \in PartsOf(i)
  BY <1>1 DEF Shape, SourcePaths, PartsOf
<1>3. Present(i.data) => i.data[1] \in PartsOf(i)
  BY DEF PartsOf
<1>4. Present(i.man) => i.man[1][3] \in PartsOf(i)
  BY <1>1, <1>2, <1>3 DEF Shape, Prefix, InPlace, Quarantine, Missing, ManifestOf
<1>5. \/ c = i.source
      \/ Present(i.data) /\ c \in {<<"final", i.data[1]>>, <<"partial", i.data[1]>>}
      \/ Present(i.man) /\ c = <<"manifest", i.man[1][3]>>
      \/ c = <<"quarantine", i.source[2]>>
      \/ Len(chain[t]) >= 4 /\ c = <<"control", chain[t][4].carrier>>
  BY <1>a DEF Claims
<1> QED
  BY <1>a, <1>2, <1>3, <1>4, <1>5 DEF Owns

\* No two plans share a part, and no two transactions a carrier.
LEMMA OneOwner == ASSUME IInv PROVE OneOwnerEach
<1>1. CInv /\ RInv
  BY DEF IInv
<1>2. ASSUME NEW t \in Journal, NEW u \in Journal, t # u, NEW c \in Claims(chain[t]), c \in Claims(chain[u])
      PROVE  FALSE
  <2>1. PartsOf(chain[t][1]) \cap PartsOf(chain[u][1]) = {}
    <3>1. \A v \in Journal : v \in Held /\ IntentOf(v) = chain[v][1]
      BY <1>1 DEF Held, IntentOf, CInv, Flow
    <3> QED
      BY <1>1, <1>2, <3>1 DEF RInv, Raw
  <2>2. ~(Owns(t, c[2]) /\ Owns(u, c[2]))
    <3>1. Owns(t, c[2]) => c[2] \in Carriers
      BY <1>1 DEF Owns, CInv, Control
    <3>2. t \in Txs /\ u \in Txs
      BY DEF Journal
    <3> QED
      BY <1>1, <1>2, <3>1, <3>2 DEF CInv, Control
  <2> QED
    BY <1>1, <1>2, <2>1, <2>2, ClaimOf
<1>3. ClaimsDisjoint
  BY <1>2 DEF ClaimsDisjoint
<1>4. ASSUME NEW k \in Carriers, ~(ctl[k] = "absent" /\ cman[k] = "absent")
      PROVE  \E t \in Journal : Len(chain[t]) >= 4 /\ chain[t][4].carrier = k /\ durable[t] >= 4
  BY <1>1, <1>4 DEF CInv, Control, NoCarrier, Owns
<1> QED
  BY <1>3, <1>4 DEF OneOwnerEach

\* Over any number of starts each file has one owner: two transactions never claim
\* the same path, so the preflight of the journal (recovery.py:
\* _preflight_recovery_ownership) never refuses what earlier starts wrote, and a
\* control carrier exists only for the transaction whose durable ownership names it.
THEOREM OneOwnerAlways == Spec => []OneOwnerEach
BY OneOwner, IInvAlways, PTL
-----------------------------------------------------------------------------
(* The inductive invariant: the bytes *)

NamedStates == {"both", "final"}

\* A manifest of the writer has its one final name for good, or no name at all, ...
Sealed(p) ==
    LET m == ManifestOf(p) IN val[m].by = 0 => artImg[m] \in {{"absent"}, {"final"}}

\* ... or the writer was at its names, its data being published.
Temporary(p) ==
    LET m == ManifestOf(p) IN
    /\ dataImg[p] = {"final"} /\ AllFrames(p) /\ val[m] = RecoveryManifest(0, bytes[p])
    /\ art[m] = "absent" => artImg[m] = {"absent"}

\* A part that is in no plan a power loss leaves ...
Free(p) == \A t \in Journal : durable[t] >= 1 => p \notin PartsOf(chain[t][1])

\* ... is as the writer left it.
AsLeft(p) ==
    LET m == ManifestOf(p) IN
    /\ MayBeNamed(m) => val[m] = RecoveryManifest(0, bytes[p]) /\ Size(bytes[p]) > 0
    /\ "short" \notin dataImg[p]
    /\ data[p] = "absent" => dataImg[p] = {"absent"}
    /\ "absent" \in dataImg[p] => MayBeNamed(m) \/ Size(bytes[p]) = 0
    /\ data[p] = "both" => "final" \notin dataImg[p]
    /\ data[p] = "final" => "partial" \notin dataImg[p]
    /\ \A k \in {"partial", "final"} : ~MayBeNamed(BadTail(<<k, p>>)) /\ ~MayBeNamed(Whole(<<k, p>>))

\* A plan is the one that its source and its bytes lead to.
Planned(t, i) ==
    \/ i = PlanSource(t, i.source, i.bytes, FrozenSequence(i))
    \/ /\ i = PlanCoexistence(t, i.source, i.bytes, <<i.man[2]>>)
       /\ i.source[1] = "partial" /\ i.bytes.frames > 0 /\ i.bytes.tail = 0
       /\ i.man[2] \in {RecoveryManifest(t, i.bytes), RecoveryManifest(0, i.bytes)}
    \/ /\ i = PlanMissing(t, i.source[2], i.man[2], i.proof[1])
       /\ i.man[2].by = 0 /\ Size(i.man[2].of) > 0

\* Its files hold what it says once they have their names; a manifest that it found
\* keeps its own.
FilesOf(i) ==
    LET p == i.source[2] IN
    /\ ~Missing(i) => bytes[p] = i.bytes
    /\ Present(i.man) => /\ MayBeNamed(i.man[1]) => val[i.man[1]] = i.man[2]
                         /\ i.man[2].by = 0 => MayBeNamed(i.man[1])
    /\ Present(i.quar) /\ MayBeNamed(i.quar[1]) => val[i.quar[1]] = i.quar[2]
    /\ Missing(i) => i.proof = <<proof[p]>> /\ proof[p] # "none" /\ dataImg[p] \cap NamedStates = {}

\* Its source is there until the artifacts are durable.
Standing(i) ==
    LET p == i.source[2] IN
    /\ Prefix(i) \/ Quarantine(i) => ("absent" \in dataImg[p] => Size(i.bytes) = 0)
    /\ i.disposition = "retained" => dataImg[p] \subseteq NamedStates
    /\ i.state = "publication_coexistence" => dataImg[p] \subseteq {"partial", "both"}

\* The recovered part is empty or has all its bytes until the retention job may have it.
RangeOf(i) ==
    LET q == i.data[1] IN
    Prefix(i) => \/ dataImg[q] \subseteq {"absent", "short"} /\ Size(bytes[q]) = 0
                 \/ dataImg[q] \subseteq {"partial", "both", "final"} /\ bytes[q] = i.data[2]

DataNamed(i) == Present(i.data) => dataImg[i.data[1]] \subseteq NamedStates

SourceGone(i) ==
    i.disposition \in {"removed", "moved_to_quarantine"} =>
        dataImg[i.source[2]] \cap (IF i.source[1] = "partial" THEN {"short", "partial", "both"} ELSE NamedStates) = {}

\* A plan is not about a part whose manifest has its temporary name.
Secured(i) == \A p \in PartsOf(i) : Sealed(p)

\* A plan of which so many facts are durable, and so many are there.
Kept(t, i, durables, facts) ==
    /\ Planned(t, i) /\ FilesOf(i) /\ Secured(i)
    /\ durables <= 1 => Standing(i)
    /\ durables < 6 => RangeOf(i)
    /\ facts >= 2 => Missing(i) \/ Preserved(i)
    /\ facts >= 2 /\ durables < 6 => DataNamed(i)
    /\ facts >= 3 => SourceGone(i)

KRaw ==
    /\ val = [a \in Artifacts |-> val[a]]
    /\ \A p \in Parts : Sealed(p) \/ Temporary(p)
    /\ \A p \in Parts : Free(p) => AsLeft(p)
    /\ \A t \in Held : Kept(t, IntentOf(t), durable[t], Len(chain[t]))

\* What the steps rely on: content written before it is named, and what was checked
\* and synced before the fact that says so.
Written ==
    /\ pc = "manifestname" => val[intent.man[1]] = intent.man[2] /\ intent.man[2].by # 0
    /\ pc = "quarantinename" => val[intent.quar[1]] = intent.quar[2]
    /\ pc = "fact" /\ Facts = 1 => (Missing(intent) \/ Preserved(intent)) /\ DataNamed(intent)
    /\ pc = "settlesync" => ~SourcePresent(src)
    /\ pc = "fact" /\ Facts = 2 => SourceGone(intent)

\* A source found is a partial name, a final one without a manifest, or a manifest
\* without data.
AsFound(s) ==
    LET p == s[2] IN
    IF s[1] = "partial" THEN Partial(data[p])
    ELSE (data[p] = "final" /\ ~Named(art[ManifestOf(p)])) \/ (~Named(data[p]) /\ Named(art[ManifestOf(p)]))
Sighted ==
    /\ run \in {"manifests", "sources"} => WriterTemporaries = {} /\ \A s \in found : AsFound(s)
    /\ Working /\ plan = << >> /\ pc # "next" => AsFound(src)

KInv == KRaw /\ (Working /\ pc # "next" => Written) /\ Sighted
-----------------------------------------------------------------------------
(* Steps that keep the bytes *)

\* Every manifest and quarantine file is one part's.
LEMMA ArtifactParts ==
    /\ \A p \in Parts : ManifestOf(p) \in Artifacts /\ ManifestOf(p)[3] = p
    /\ \A s \in SourcePaths : BadTail(s) \in Artifacts /\ BadTail(s)[3] = s[2] /\ Whole(s) \in Artifacts /\ Whole(s)[3] = s[2]
    /\ \A p \in Parts, k \in {"partial", "final"} : <<k, p>> \in SourcePaths /\ <<k, p>>[2] = p
BY ManifestNames DEF ManifestOf, BadTail, Whole, SourcePaths

\* The files of a plan are those of its parts.
LEMMA PlanFiles ==
    ASSUME NEW i, Shape(i)
    PROVE  /\ i.source[2] \in PartsOf(i) /\ i.source[2] \in Parts /\ i.source \in SourcePaths
           /\ Present(i.data) => i.data[1] \in PartsOf(i) /\ i.data[1] \in Parts /\ Present(i.man) /\ i.man[1] = ManifestOf(i.data[1])
           /\ Present(i.man) => \E p \in PartsOf(i) : p \in Parts /\ i.man[1] = ManifestOf(p)
           /\ Present(i.man) => i.man[1] \in Artifacts /\ i.man[1][3] \in PartsOf(i)
           /\ Present(i.quar) => i.quar[1] \in Artifacts /\ i.quar[1][3] = i.source[2] /\ \A p : i.quar[1] # ManifestOf(p)
<1>1. i.source[2] \in PartsOf(i) /\ i.source[2] \in Parts /\ i.source \in SourcePaths
  BY DEF Shape, PartsOf
<1>2. Present(i.data) => i.data[1] \in PartsOf(i) /\ i.data[1] \in Parts /\ Present(i.man) /\ i.man[1] = ManifestOf(i.data[1])
  BY DEF Shape, PartsOf
<1>3. Present(i.man) => \E p \in PartsOf(i) : p \in Parts /\ i.man[1] = ManifestOf(p)
  BY <1>1, <1>2 DEF Shape, Prefix, InPlace, Quarantine, Missing
<1>4. Present(i.quar) => i.quar[1] \in Artifacts /\ i.quar[1][3] = i.source[2] /\ \A p : i.quar[1] # ManifestOf(p)
  BY <1>1, ArtifactParts, ManifestNames DEF Shape
<1> QED
  BY <1>1, <1>2, <1>3, <1>4, ArtifactParts

\* A step that leaves of a part no more than was there.
CalmAt(p) ==
    /\ bytes'[p] = bytes[p] /\ proof'[p] = proof[p]
    /\ data'[p] \in dataImg'[p] /\ dataImg'[p] \subseteq dataImg[p]
    /\ dataImg'[p] = {data'[p]} \/ data'[p] = data[p]
    /\ \A a \in Artifacts : a[3] = p => /\ val'[a] = val[a] /\ artImg'[a] \subseteq artImg[a] /\ artImg'[a] # {}
                                        /\ art'[a] = art[a] \/ artImg'[a] = {art'[a]}

\* It keeps the manifest of the writer sealed ...
LEMMA CalmSealed ==
    ASSUME NEW p \in Parts, Sealed(p), CalmAt(p) PROVE Sealed(p)'
<1>1. ManifestOf(p) \in Artifacts /\ ManifestOf(p)[3] = p
  BY ArtifactParts
<1> QED
  BY <1>1 DEF Sealed, CalmAt

\* ... or on its way ...
LEMMA CalmTemporary ==
    ASSUME NEW p \in Parts, Temporary(p), CalmAt(p) PROVE Temporary(p)'
<1>1. ManifestOf(p) \in Artifacts /\ ManifestOf(p)[3] = p
  BY ArtifactParts
<1>2. bytes'[p] = bytes[p] /\ dataImg'[p] = {"final"}
  BY DEF Temporary, CalmAt
<1>3. /\ val'[ManifestOf(p)] = val[ManifestOf(p)]
      /\ art'[ManifestOf(p)] = "absent" => artImg'[ManifestOf(p)] = {"absent"}
  BY <1>1 DEF Temporary, CalmAt
<1> QED
  BY <1>2, <1>3 DEF Temporary, AllFrames

\* ... and named ...
LEMMA CalmNamed ==
    ASSUME NEW p \in Parts, Sealed(p), CalmAt(p), val[ManifestOf(p)].by = 0
    PROVE  MayBeNamed(ManifestOf(p)) => MayBeNamed(ManifestOf(p))'
<1>1. ManifestOf(p) \in Artifacts /\ ManifestOf(p)[3] = p
  BY ArtifactParts
<1>2. artImg'[ManifestOf(p)] \subseteq artImg[ManifestOf(p)] /\ artImg'[ManifestOf(p)] # {}
  BY <1>1 DEF CalmAt
<1> QED
  BY <1>2 DEF Sealed, MayBeNamed, Named, NamedStates

\* ... the part as the writer left it ...
LEMMA CalmLeft ==
    ASSUME NEW p \in Parts, Sealed(p) \/ Temporary(p), AsLeft(p), CalmAt(p) PROVE AsLeft(p)'
<1>a. PICK m : m = ManifestOf(p)
  OBVIOUS
<1>1. m \in Artifacts /\ m[3] = p
  BY <1>a, ArtifactParts
<1>2. MayBeNamed(m)' => MayBeNamed(m)
  BY <1>1 DEF CalmAt, MayBeNamed
<1>3. val'[m] = val[m] /\ bytes'[p] = bytes[p]
  BY <1>1 DEF CalmAt
<1>4. MayBeNamed(m) => val[m].by = 0
  BY <1>a DEF AsLeft, RecoveryManifest
<1>5. "absent" \in dataImg[p] /\ MayBeNamed(m) => MayBeNamed(m)'
  BY <1>a, <1>4, CalmNamed DEF Temporary
<1>6. ASSUME NEW k \in {"partial", "final"} PROVE ~MayBeNamed(BadTail(<<k, p>>))' /\ ~MayBeNamed(Whole(<<k, p>>))'
  <2>1. /\ BadTail(<<k, p>>) \in Artifacts /\ BadTail(<<k, p>>)[3] = p
        /\ Whole(<<k, p>>) \in Artifacts /\ Whole(<<k, p>>)[3] = p
    BY ArtifactParts
  <2>2. ~MayBeNamed(BadTail(<<k, p>>)) /\ ~MayBeNamed(Whole(<<k, p>>))
    BY DEF AsLeft
  <2> QED
    BY <2>1, <2>2 DEF CalmAt, MayBeNamed
<1>7. /\ data'[p] \in dataImg'[p] /\ dataImg'[p] \subseteq dataImg[p]
      /\ dataImg'[p] = {data'[p]} \/ data'[p] = data[p]
  BY DEF CalmAt
<1>8. /\ MayBeNamed(m) => val[m] = RecoveryManifest(0, bytes[p]) /\ Size(bytes[p]) > 0
      /\ "short" \notin dataImg[p]
      /\ data[p] = "absent" => dataImg[p] = {"absent"}
      /\ "absent" \in dataImg[p] => MayBeNamed(m) \/ Size(bytes[p]) = 0
      /\ data[p] = "both" => "final" \notin dataImg[p]
      /\ data[p] = "final" => "partial" \notin dataImg[p]
  BY <1>a DEF AsLeft
<1>9. /\ MayBeNamed(m)' => val'[m] = RecoveryManifest(0, bytes'[p]) /\ Size(bytes'[p]) > 0
      /\ "short" \notin dataImg'[p]
      /\ data'[p] = "absent" => dataImg'[p] = {"absent"}
      /\ "absent" \in dataImg'[p] => MayBeNamed(m)' \/ Size(bytes'[p]) = 0
      /\ data'[p] = "both" => "final" \notin dataImg'[p]
      /\ data'[p] = "final" => "partial" \notin dataImg'[p]
  BY <1>2, <1>3, <1>5, <1>7, <1>8
<1> QED
  BY <1>a, <1>6, <1>9 DEF AsLeft

\* ... and what is kept for a plan.
LEMMA CalmKept ==
    ASSUME NEW i, Shape(i), \A p \in PartsOf(i) : CalmAt(p),
           NEW t, NEW n \in Nat, NEW l \in Nat, Kept(t, i, n, l),
           NEW m \in Nat, n <= m, NEW k \in Nat, k >= 2 => l >= 2, k >= 3 => l >= 3
    PROVE  Kept(t, i, m, k)'
<1>a. PICK p : p = i.source[2]
  OBVIOUS
<1>1. p \in Parts /\ p \in PartsOf(i)
  BY <1>a, PlanFiles
<1>2. /\ bytes'[p] = bytes[p] /\ proof'[p] = proof[p] /\ dataImg'[p] \subseteq dataImg[p]
      /\ Present(i.data) => /\ bytes'[i.data[1]] = bytes[i.data[1]] /\ proof'[i.data[1]] = proof[i.data[1]]
                            /\ dataImg'[i.data[1]] \subseteq dataImg[i.data[1]]
  BY <1>1, PlanFiles DEF CalmAt
<1>3. Present(i.man) => /\ val'[i.man[1]] = val[i.man[1]] /\ artImg'[i.man[1]] \subseteq artImg[i.man[1]]
  BY PlanFiles DEF CalmAt
<1>4. Present(i.quar) => /\ val'[i.quar[1]] = val[i.quar[1]] /\ artImg'[i.quar[1]] \subseteq artImg[i.quar[1]]
  BY PlanFiles DEF CalmAt
<1>5. Planned(t, i)' <=> Planned(t, i)
  BY DEF Planned
<1>6. FilesOf(i)'
  <2>1. FilesOf(i)
    BY DEF Kept
  <2>2. ASSUME Present(i.man), i.man[2].by = 0 PROVE MayBeNamed(i.man[1])'
    <3>1. MayBeNamed(i.man[1]) /\ val[i.man[1]] = i.man[2]
      BY <2>1, <2>2 DEF FilesOf
    <3> QED
      BY <2>2, <3>1, PlanFiles, CalmNamed DEF Kept, Secured
  <2>3. Present(i.man) => (MayBeNamed(i.man[1])' => MayBeNamed(i.man[1]))
    BY <1>3 DEF MayBeNamed
  <2>4. Present(i.quar) => (MayBeNamed(i.quar[1])' => MayBeNamed(i.quar[1]))
    BY <1>4 DEF MayBeNamed
  <2> QED
    BY <1>a, <1>2, <1>3, <1>4, <2>1, <2>2, <2>3, <2>4 DEF FilesOf
<1>7. m <= 1 => Standing(i)'
  BY <1>a, <1>2 DEF Kept, Standing
<1>8. m < 6 => RangeOf(i)'
  BY <1>2 DEF Kept, RangeOf, Prefix
<1>9. k >= 2 => Missing(i) \/ Preserved(i)'
  BY <1>2, <1>3, <1>4, PlanFiles DEF Kept, Preserved
<1>10. k >= 2 /\ m < 6 => DataNamed(i)'
  BY <1>2 DEF Kept, DataNamed
<1>11. k >= 3 => SourceGone(i)'
  BY <1>a, <1>2 DEF Kept, SourceGone
<1>12. Secured(i)'
  <2>1. PartsOf(i) \subseteq Parts /\ Secured(i)
    BY DEF Shape, Kept
  <2> QED
    BY <2>1, CalmSealed DEF Secured
<1> QED
  BY <1>5, <1>6, <1>7, <1>8, <1>9, <1>10, <1>11, <1>12 DEF Kept

\* No step takes a durable fact away.
Lasts ==
    \A t \in Journal : durable[t] >= 1 => t \in Journal' /\ durable'[t] >= 1 /\ chain'[t][1] = chain[t][1]

\* The plan is what it was, and has no new facts that it would have to answer for.
Ages(t) ==
    /\ t \in Held /\ IntentOf(t)' = IntentOf(t) /\ durable[t] <= durable'[t]
    /\ Len(chain'[t]) >= 2 => Len(chain[t]) >= 2
    /\ Len(chain'[t]) >= 3 => Len(chain[t]) >= 3

\* Transactions have numbers of facts.
LEMMA HeldFacts ==
    ASSUME CInv
    PROVE  /\ Held \subseteq Txs /\ Journal \subseteq Held /\ \A t \in Txs : durable[t] \in Nat /\ Len(chain[t]) \in Nat
           /\ \A t \in Journal : IntentOf(t) = chain[t][1]
           /\ \A t \in Txs : durable[t] = Len(chain[t]) \/ durable[t] + 1 = Len(chain[t])
<1>1. \A t \in Txs : Len(chain[t]) \in Nat
  BY LengthsNow
<1> QED
  BY <1>1 DEF CInv, Types, Synced, Held, Journal, Flow, IntentOf

\* A step on the files of the parts P keeps the bytes of the others.
LEMMA StepKRaw ==
    ASSUME IInv, IInv', KRaw, NEW P, val' = [a \in Artifacts |-> val'[a]], Lasts,
           \A p \in Parts \ P : CalmAt(p),
           \A p \in Parts \cap P : (Sealed(p) \/ Temporary(p))' /\ (Free(p)' => AsLeft(p)'),
           \A t \in Held' : \/ Kept(t, IntentOf(t), durable[t], Len(chain[t]))'
                            \/ Ages(t) /\ PartsOf(IntentOf(t)) \cap P = {}
    PROVE  KRaw'
<1>1. ASSUME NEW p \in Parts PROVE (Sealed(p) \/ Temporary(p))'
  BY CalmSealed, CalmTemporary DEF KRaw
<1>2. ASSUME NEW p \in Parts, Free(p)' PROVE AsLeft(p)'
  <2>1. Free(p)
    BY <1>2 DEF Free, Lasts
  <2> QED
    BY <1>2, <2>1, CalmLeft DEF KRaw
<1>3. ASSUME NEW t \in Held', Ages(t), PartsOf(IntentOf(t)) \cap P = {}
      PROVE  Kept(t, IntentOf(t), durable[t], Len(chain[t]))'
  <2>1. PICK i : i = IntentOf(t)
    OBVIOUS
  <2>2. PICK n, m, l, k : n = durable[t] /\ m = durable'[t] /\ l = Len(chain[t]) /\ k = Len(chain'[t])
    OBVIOUS
  <2>3. t \in Txs /\ n \in Nat /\ l \in Nat /\ m \in Nat /\ k \in Nat
    <3>1. CInv
      BY DEF IInv
    <3>2. CInv'
      BY DEF IInv
    <3>3. t \in Txs
      BY <1>3, <3>1, HeldFacts DEF Ages
    <3>4. n \in Nat /\ l \in Nat
      BY <2>2, <3>1, <3>3, HeldFacts
    <3>5. m \in Nat /\ k \in Nat
      <4>1. \A c : (\A u \in Txs : IsChain(c[u])) => Len(c[t]) \in 0..6
        BY <3>3, Lengths
      <4>2. durable' \in [Txs -> Nat] /\ \A u \in Txs : IsChain(chain'[u])
        BY <3>2 DEF CInv, Types
      <4> QED
        BY <2>2, <3>3, <4>1, <4>2
    <3> QED
      BY <3>3, <3>4, <3>5
  <2>4. Shape(i)
    BY <1>3, <2>1 DEF Ages, IInv, RInv, Raw
  <2>5. Kept(t, i, n, l)
    BY <1>3, <2>1, <2>2 DEF Ages, KRaw
  <2>6. \A p \in PartsOf(i) : CalmAt(p)
    BY <1>3, <2>1, <2>4 DEF Shape
  <2>7. n <= m /\ (k >= 2 => l >= 2) /\ (k >= 3 => l >= 3)
    BY <1>3, <2>2 DEF Ages
  <2>8. Kept(t, i, m, k)'
    BY <2>3, <2>4, <2>5, <2>6, <2>7, CalmKept
  <2>9. i = IntentOf(t)'
    BY <1>3, <2>1 DEF Ages
  <2> QED
    BY <2>2, <2>8, <2>9 DEF Kept, Planned, FilesOf, Secured, Sealed, Standing, RangeOf, Preserved, DataNamed, SourceGone, MayBeNamed
<1> QED
  BY <1>1, <1>2, <1>3 DEF KRaw

\* The steps that write no file are calm: those that leave all files alone, ...
LEMMA SameCalm ==
    ASSUME IInv, UNCHANGED <<rawVars, proof>> PROVE val' = val /\ \A p \in Parts : CalmAt(p)
BY DEF IInv, RInv, Raw, PartSound, CalmAt, rawVars

\* ... those that take a lease, ...
LEMMA LeaseCalm ==
    ASSUME IInv, UNCHANGED <<data, dataImg, bytes, art, artImg, val, proof>>
    PROVE  val' = val /\ \A p \in Parts : CalmAt(p)
BY DEF IInv, RInv, Raw, PartSound, CalmAt

\* ... and those that sync a directory.
LEMMA SyncCalm ==
    ASSUME IInv, NEW qs, SyncWith(qs), proof' = proof PROVE val' = val /\ \A p \in Parts : CalmAt(p)
<1>1. /\ dataImg' = [p \in Parts |-> {data[p]}] /\ data' = data /\ bytes' = bytes /\ val' = val /\ art' = art
      /\ artImg' = [a \in Artifacts |-> IF a[1] = "manifest" \/ a \in qs THEN {art[a]} ELSE artImg[a]]
  BY DEF SyncWith
<1>2. \A p \in Parts : data[p] \in dataImg[p]
  BY DEF IInv, RInv, Raw, PartSound
<1>3. \A a \in Artifacts : art[a] \in artImg[a]
  BY DEF IInv, RInv, Raw
<1>4. \A a \in Artifacts : artImg'[a] \subseteq artImg[a] /\ artImg'[a] # {}
  BY <1>1, <1>3
<1>5. \A p \in Parts : dataImg'[p] = {data'[p]} /\ data'[p] \in dataImg[p]
  BY <1>1, <1>2
<1> QED
  BY <1>1, <1>4, <1>5 DEF CalmAt

\* A calm step keeps the bytes when the plans only age.
LEMMA CalmKRaw ==
    ASSUME IInv, IInv', KRaw, val' = val, \A p \in Parts : CalmAt(p), Lasts,
           \A t \in Held' : Ages(t) \/ Kept(t, IntentOf(t), durable[t], Len(chain[t]))'
    PROVE  KRaw'
<1>1. val' = [a \in Artifacts |-> val'[a]]
  BY DEF KRaw
<1> QED
  BY <1>1, StepKRaw

\* Within a transaction they do.
LEMMA StaysAges == ASSUME CInv, Stays PROVE Lasts /\ \A t \in Held' : Ages(t)
<1>1. Held' = Held /\ Journal' = Journal /\ \A t : IntentOf(t)' = IntentOf(t)
  BY SamePlans
<1>2. chain' = chain /\ durable' = durable
  BY DEF Stays, journalVars
<1>3. \A t \in Held : durable[t] \in Nat
  BY HeldFacts
<1> QED
  BY <1>1, <1>2, <1>3 DEF Lasts, Ages

\* They do between two transactions.
LEMMA JournalAges ==
    ASSUME CInv, CInv', chain' = chain, Held' = Journal, \A t \in Txs : durable[t] <= durable'[t]
    PROVE  Lasts /\ \A t \in Held' : Ages(t)
<1>1. Held' \subseteq Held /\ \A t \in Held' : IntentOf(t)' = IntentOf(t)
  BY JournalPlans
<1>2. Journal' = Journal /\ Journal \subseteq Txs
  BY DEF Journal
<1>3. \A t \in Txs : durable[t] \in Nat
  BY HeldFacts
<1>4. \A t \in Txs : durable'[t] \in Nat
  BY DEF CInv, Types
<1>5. \A t \in Txs : durable[t] >= 1 => durable'[t] >= 1
  BY <1>3, <1>4
<1>6. Lasts
  BY <1>2, <1>5 DEF Lasts
<1> QED
  BY <1>1, <1>2, <1>6 DEF Ages

\* They do when a start begins.
LEMMA StopAges ==
    ASSUME CInv, StartsAgain PROVE Lasts /\ \A t \in Held' : Ages(t)
<1>1. Held' = Journal' /\ \A t \in Journal' : IntentOf(t)' = chain'[t][1]
  BY DEF StartsAgain, Held, IntentOf
<1>2. ASSUME NEW t \in Txs
      PROVE  /\ t \in Journal' => t \in Journal /\ chain'[t][1] = chain[t][1]
             /\ durable[t] >= 1 => t \in Journal' /\ durable'[t] >= 1
             /\ Len(chain'[t]) >= 2 => Len(chain[t]) >= 2
             /\ Len(chain'[t]) >= 3 => Len(chain[t]) >= 3
             /\ durable[t] <= durable'[t]
  <2>1. /\ IsChain(chain'[t]) /\ Len(chain'[t]) \in {durable[t], Len(chain[t])}
        /\ \A i \in 1..Len(chain'[t]) : chain'[t][i] = chain[t][i]
        /\ durable'[t] \in {durable[t], Len(chain'[t])}
    BY DEF StartsAgain
  <2>2. /\ durable[t] \in Nat /\ Len(chain[t]) \in 0..6 /\ Len(chain'[t]) \in 0..6
        /\ durable[t] = Len(chain[t]) \/ durable[t] + 1 = Len(chain[t])
        /\ t \in Journal <=> Len(chain[t]) >= 1
        /\ t \in Journal' <=> Len(chain'[t]) >= 1
    BY <2>1, LengthsNow, ChainFacts DEF CInv, Types, Synced, Journal
  <2>3. \A d \in Nat, l \in 0..6, k \in 0..6 : \A e \in {d, k} :
           (d = l \/ d + 1 = l) /\ k \in {d, l} =>
              /\ (k >= 1 => l >= 1) /\ (k >= 2 => l >= 2) /\ (k >= 3 => l >= 3)
              /\ (d >= 1 => k >= 1 /\ e >= 1) /\ d <= e
    OBVIOUS
  <2>4. /\ Len(chain'[t]) >= 1 => Len(chain[t]) >= 1
        /\ Len(chain'[t]) >= 2 => Len(chain[t]) >= 2
        /\ Len(chain'[t]) >= 3 => Len(chain[t]) >= 3
        /\ durable[t] >= 1 => Len(chain'[t]) >= 1 /\ durable'[t] >= 1
        /\ durable[t] <= durable'[t]
    BY <2>1, <2>2, <2>3, Zenon
  <2>5. Len(chain'[t]) >= 1 => chain'[t][1] = chain[t][1]
    BY <2>1, <2>2
  <2> QED
    BY <2>2, <2>4, <2>5
<1>3. Journal' \subseteq Txs /\ Journal \subseteq Txs
  BY DEF Journal
<1>4. Lasts
  BY <1>2, <1>3 DEF Lasts
<1>5. \A t \in Journal : IntentOf(t) = chain[t][1] /\ t \in Held
  BY HeldFacts
<1> QED
  BY <1>1, <1>2, <1>3, <1>4, <1>5 DEF Ages

\* Found sources stay as they were found.
LEMMA SightedStays ==
    ASSUME IInv, IInv', Stays, KRaw', Sighted,
           \A p \in Parts : (plan = << >> \/ p \notin PartsOf(intent)) =>
               /\ data'[p] = data[p] /\ art'[ManifestOf(p)] = art[ManifestOf(p)]
               /\ val'[ManifestOf(p)] = val[ManifestOf(p)]
    PROVE  Sighted'
<1>1. /\ found' = found /\ plan' = plan /\ src' = src /\ cur' = cur /\ Working /\ pc # "next" /\ src \in SourcePaths
      /\ run' = run \/ run' = "blocked"
  BY DEF Stays, workVars, IInv, RInv, RawTypes
<1>2. CASE run' = "blocked"
  BY <1>2 DEF Sighted, Working, Settling
<1>3. CASE run' = run
  <2>1. ASSUME run \in {"manifests", "sources"}, NEW s \in found PROVE AsFound(s)'
    <3>1. s \in SourcePaths /\ \A t \in Held : s[2] \notin PartsOf(IntentOf(t))
      BY <2>1 DEF IInv, RInv, Found
    <3>2. plan = << >> \/ s[2] \notin PartsOf(intent)
      BY <1>1, <3>1 DEF Held, IntentOf
    <3>3. s[2] \in Parts
      BY <3>1 DEF SourcePaths
    <3> QED
      BY <2>1, <3>2, <3>3 DEF Sighted, AsFound, Named
  <2>2. plan = << >> => AsFound(src)'
    <3>1. src[2] \in Parts
      BY <1>1 DEF SourcePaths
    <3> QED
      BY <1>1, <3>1 DEF Sighted, AsFound, Named
  <2>3. ASSUME WriterTemporaries = {} PROVE WriterTemporaries' = {}
    <3>1. SUFFICES ASSUME NEW p \in Parts, art'[ManifestOf(p)] \in {"temp", "both"}, val'[ManifestOf(p)].by = 0,
                          plan # << >>, p \in PartsOf(intent)
                   PROVE  FALSE
      BY <2>3 DEF WriterTemporaries
    <3>2. cur \in Held' /\ IntentOf(cur)' = intent
      BY <1>1, <3>1, SamePlans DEF Held, IntentOf
    <3>3. PICK i : i = IntentOf(cur)'
      OBVIOUS
    <3>4. Secured(i)'
      BY <1>1, <3>2, <3>3 DEF KRaw, Kept, Secured, Sealed
    <3>5. Sealed(p)'
      BY <3>1, <3>2, <3>3, <3>4 DEF Secured
    <3>6. art'[ManifestOf(p)] \in artImg'[ManifestOf(p)]
      BY ArtifactParts DEF IInv, RInv, Raw
    <3> QED
      BY <3>1, <3>5, <3>6 DEF Sealed
  <2> QED
    BY <1>1, <1>3, <2>1, <2>2, <2>3 DEF Sighted, AsFound
<1> QED
  BY <1>1, <1>2, <1>3

\* A calm step within a transaction.
LEMMA CalmKInv ==
    ASSUME IInv, IInv', KInv, Stays, val' = val, \A p \in Parts : CalmAt(p), data' = data, art' = art,
           run' = "blocked" \/ Written'
    PROVE  KInv'
<1>1. KRaw'
  BY StaysAges, CalmKRaw DEF IInv, KInv
<1>2. Sighted'
  BY <1>1, SightedStays DEF KInv
<1> QED
  BY <1>1, <1>2 DEF KInv, Working, Settling

\* A step on the files of the plan at hand, once the plan is durable.
LEMMA WriteKInv ==
    ASSUME IInv, IInv', KInv, Stays, plan # << >>, Facts >= 1, val' = [a \in Artifacts |-> val'[a]],
           \A p \in Parts \ PartsOf(intent) :
               CalmAt(p) /\ data'[p] = data[p] /\ art'[ManifestOf(p)] = art[ManifestOf(p)],
           \A i, n : i = intent /\ n = Facts => Kept(cur, i, n, n)',
           run' = "blocked" \/ Written'
    PROVE  KInv'
<1>1. Lasts /\ \A t \in Held' : Ages(t)
  BY StaysAges DEF IInv
<1>2. /\ Held' = Held /\ Journal' = Journal /\ (\A t : IntentOf(t)' = IntentOf(t)) /\ chain' = chain
      /\ durable' = durable /\ Working /\ pc # "next" /\ pc # "factsync" /\ cur' = cur
  BY SamePlans DEF Stays, journalVars
<1>3. cur \in Held /\ IntentOf(cur) = intent /\ cur \in Txs
  BY <1>2 DEF Held, IntentOf, IInv, CInv, Types
<1>4. durable[cur] = Facts /\ Len(chain[cur]) = Facts
  BY <1>2, <1>3 DEF IInv, CInv, Synced, Working, Settling, Facts
<1>5. cur \in Journal /\ chain[cur][1] = intent
  BY <1>3, <1>4, LengthsNow DEF IInv, CInv, Flow
<1>6. \A p \in PartsOf(intent) : ~Free(p)'
  BY <1>2, <1>4, <1>5 DEF Free
<1>7. ASSUME NEW t \in Held' 
      PROVE  \/ Kept(t, IntentOf(t), durable[t], Len(chain[t]))'
             \/ Ages(t) /\ PartsOf(IntentOf(t)) \cap PartsOf(intent) = {}
  <2>1. CASE t # cur
    BY <1>1, <1>2, <1>3, <2>1 DEF IInv, RInv, Raw
  <2>2. CASE t = cur
    <3>1. PICK i, n : i = intent /\ n = Facts
      OBVIOUS
    <3>2. Kept(cur, i, n, n)'
      BY <3>1
    <3>3. i = IntentOf(t)' /\ n = durable'[t] /\ n = Len(chain'[t])
      BY <1>2, <1>3, <1>4, <2>2, <3>1
    <3> QED
      BY <1>2, <2>2, <3>2, <3>3 DEF Kept, Planned, FilesOf, Secured, Sealed, Standing, RangeOf, Preserved, DataNamed, SourceGone, MayBeNamed
  <2> QED
    BY <2>1, <2>2
<1>8. KRaw'
  <2>1. PICK i, n : i = intent /\ n = Facts
    OBVIOUS
  <2>2. Secured(i)'
    BY <2>1 DEF Kept
  <2>3. \A p \in PartsOf(intent) : Sealed(p)'
    BY <2>1, <2>2 DEF Secured
  <2> QED
    BY <1>1, <1>6, <1>7, <2>3, StepKRaw DEF KInv
<1>9. Sighted'
  BY <1>8, SightedStays, ArtifactParts DEF KInv, CalmAt
<1> QED
  BY <1>8, <1>9 DEF KInv, Working, Settling
-----------------------------------------------------------------------------
(* The bytes in a source's transaction *)

\* What such a step knows of its plan.
LEMMA AtPlan ==
    ASSUME IInv, KInv, SourceStep
    PROVE  /\ Stays /\ proof' = proof /\ Written
           /\ plan # << >> => Kept(cur, intent, Facts, Facts)
           /\ durable[cur] = Facts /\ Facts \in 0..6
<1>1. CInv /\ RInv /\ KRaw
  BY DEF IInv, KInv
<1>2. Stays /\ Working /\ pc # "next" /\ pc # "factsync" /\ Facts \in 0..6
  BY <1>1, AtStep DEF Stays
<1>3. cur \in Txs /\ durable[cur] = Facts /\ Len(chain[cur]) = Facts
  BY <1>1, <1>2 DEF CInv, Types, Synced, Working, Settling, Facts
<1>4. plan # << >> => Kept(cur, intent, Facts, Facts)
  <2>1. ASSUME plan # << >> PROVE cur \in Held /\ IntentOf(cur) = intent
    BY <1>2, <2>1 DEF Held, IntentOf
  <2> QED
    BY <1>1, <1>3, <2>1 DEF KRaw
<1>5. proof' = proof
  BY DEF SourceStep, SourceLease, TakeLease, DestinationLease, PlanResumed, SkipData, PublishRange, PrepareRange,
         PublishStream, AcceptRange, PublishManifest, PublishQuarantine, PublishArtifact, WriteArtifact, AcceptArtifact,
         VerifyArtifacts, SettleSource, RecheckChain, Goto, GotoIf, Block
<1> QED
  BY <1>2, <1>3, <1>4, <1>5 DEF KInv

\* Leases are taken without a change to a file.
LEMMA LeasesKInv == ASSUME IInv, IInv', KInv, SourceLease \/ DestinationLease PROVE KInv'
<1>1. SourceStep /\ CInv /\ RInv
  BY DEF SourceStep, IInv
<1>2. Stays /\ proof' = proof /\ Facts \in 0..6 /\ Facts' = Facts
  BY <1>1, AtPlan, AtStep
<1>3. /\ \/ UNCHANGED rawVars \/ UNCHANGED <<data, dataImg, bytes, art, artImg, val>>
         \/ SyncWith({})
      /\ data' = data /\ art' = art
  BY DEF SourceLease, DestinationLease, TakeLease, SyncRaw, SyncWith, rawVars
<1>4. val' = val /\ \A p \in Parts : CalmAt(p)
  BY <1>2, <1>3, SameCalm, LeaseCalm, SyncCalm
<1>5. Written'
  <2>1. pc' \in {"leasesync", "lease2sync", "plan", "lease2", "verify"} \/ (pc' = "fact" /\ Facts = 0)
    BY <1>2 DEF SourceLease, DestinationLease, TakeLease, Goto
  <2> QED
    BY <1>2, <2>1 DEF Written
<1> QED
  BY <1>2, <1>3, <1>4, <1>5, CalmKInv

\* Nor do the checks change one, and a plan without a recovered range has no data to write.
LEMMA ChecksKInv == ASSUME IInv, IInv', KInv, PlanResumed \/ SkipData \/ RecheckChain PROVE KInv'
<1>1. SourceStep /\ CInv /\ RInv
  BY DEF SourceStep, IInv
<1>2. Stays /\ proof' = proof /\ Facts \in 0..6 /\ Facts' = Facts /\ FactsFit
  BY <1>1, AtPlan, AtStep
<1>3. (UNCHANGED rawVars \/ \E qs : SyncWith(qs)) /\ data' = data /\ art' = art
  <2>1. UNCHANGED rawVars \/ \E qs : SyncWith(qs)
    BY DEF PlanResumed, SkipData, RecheckChain, SyncRaw
  <2> QED
    BY <2>1 DEF SyncWith, rawVars
<1>4. val' = val /\ \A p \in Parts : CalmAt(p)
  BY <1>2, <1>3, SameCalm, SyncCalm
<1>5. run' = "blocked" \/ Written'
  <2>1. \/ run' = "blocked"
        \/ pc' \in {"data", "verify", "manifest", "quarantine", "settled", "restore"} \/ (pc' = "fact" /\ Facts = 5)
    BY <1>2 DEF PlanResumed, SkipData, RecheckChain, GotoIf, Goto, Block, FactsFit, At
  <2> QED
    BY <1>2, <2>1 DEF Written
<1> QED
  BY <1>2, <1>3, <1>4, <1>5, CalmKInv

\* The shapes of a plan exclude each other, and fix its files.
LEMMA PlannedKinds ==
    ASSUME NEW t, NEW i, Planned(t, i), Shape(i)
    PROVE  /\ Prefix(i) => /\ i.data[2] = Bytes(i.bytes.frames, 0) /\ i.bytes.frames > 0 /\ ~Missing(i) /\ ~InPlace(i)
                           /\ i.man[2] = RecoveryManifest(t, i.data[2])
                           /\ \/ i.quar = << >> /\ i.bytes.tail = 0
                              \/ i.quar = <<BadTail(i.source), Bytes(0, i.bytes.tail)>> /\ i.bytes.tail # 0
           /\ InPlace(i) => /\ i.data[2] = i.bytes /\ i.quar = << >> /\ ~Missing(i) /\ ~Quarantine(i)
                            /\ i.state = "publication_coexistence" \/ i.man[2] = RecoveryManifest(t, i.bytes)
           /\ Quarantine(i) => i.quar = <<Whole(i.source), i.bytes>> /\ ~Missing(i) /\ ~Prefix(i)
           /\ Missing(i) => /\ i.quar = << >> /\ i.man[2].by = 0 /\ i.bytes = i.man[2].of
                            /\ i.state = (IF i.proof[1] = "intent" THEN "cleanup_intent" ELSE "cleanup_tombstone")
<1>1. CASE i = PlanSource(t, i.source, i.bytes, FrozenSequence(i))
  <2>1. \/ i = PlanPrefix(t, i.source, i.bytes, FrozenSequence(i)) /\ i.bytes.frames > 0
        \/ i = PlanOrphan(t, i.source, i.bytes) \/ i = PlanWhole(t, i.source, i.bytes)
    BY <1>1 DEF PlanSource
  <2>2. CASE i = PlanPrefix(t, i.source, i.bytes, FrozenSequence(i)) /\ i.bytes.frames > 0
    <3>1. PICK b, s, q : b = i.bytes /\ s = i.source /\ q = FrozenSequence(i)
      OBVIOUS
    <3>2. /\ i.disposition = "removed" /\ i.data = <<q, Bytes(b.frames, 0)>>
          /\ i.man = <<ManifestOf(q), RecoveryManifest(t, Bytes(b.frames, 0))>>
          /\ i.quar = IF b.tail = 0 THEN << >> ELSE <<BadTail(s), Bytes(0, b.tail)>>
          /\ i.state # "publication_coexistence"
      BY <2>2, <3>1 DEF PlanPrefix, Intent
    <3> QED
      BY <2>2, <3>1, <3>2 DEF Prefix, InPlace, Quarantine, Missing
  <2>3. CASE i = PlanOrphan(t, i.source, i.bytes)
    <3>1. PICK b, s : b = i.bytes /\ s = i.source
      OBVIOUS
    <3>2. /\ i.disposition = "retained" /\ i.data = <<s[2], b>> /\ i.quar = << >>
          /\ i.man = <<ManifestOf(s[2]), RecoveryManifest(t, b)>>
      BY <2>3, <3>1 DEF PlanOrphan, Intent
    <3> QED
      BY <3>1, <3>2 DEF Prefix, InPlace, Quarantine, Missing
  <2>4. CASE i = PlanWhole(t, i.source, i.bytes)
    <3>1. PICK b, s : b = i.bytes /\ s = i.source
      OBVIOUS
    <3>2. /\ i.disposition = "moved_to_quarantine" /\ i.data = << >> /\ i.quar = <<Whole(s), b>>
      BY <2>4, <3>1 DEF PlanWhole, Intent
    <3> QED
      BY <3>1, <3>2 DEF Prefix, InPlace, Quarantine, Missing
  <2> QED
    BY <2>1, <2>2, <2>3, <2>4
<1>2. CASE i = PlanCoexistence(t, i.source, i.bytes, <<i.man[2]>>)
  <2>1. PICK b, s, m : b = i.bytes /\ s = i.source /\ m = <<i.man[2]>>
    OBVIOUS
  <2>2. /\ i.disposition = "removed" /\ i.data = <<s[2], b>> /\ i.quar = << >> /\ i.state = "publication_coexistence"
    BY <1>2, <2>1 DEF PlanCoexistence, Intent
  <2> QED
    BY <2>1, <2>2 DEF Prefix, InPlace, Quarantine, Missing
<1>3. CASE i = PlanMissing(t, i.source[2], i.man[2], i.proof[1]) /\ i.man[2].by = 0
  <2>1. PICK m, k, p : m = i.man[2] /\ k = i.proof[1] /\ p = i.source[2]
    OBVIOUS
  <2>2. /\ i.disposition = "legitimately_missing" /\ i.data = << >> /\ i.quar = << >> /\ i.bytes = m.of
        /\ i.state = IF k = "intent" THEN "cleanup_intent" ELSE "cleanup_tombstone"
    BY <1>3, <2>1 DEF PlanMissing, Intent
  <2> QED
    BY <1>3, <2>1, <2>2 DEF Prefix, InPlace, Quarantine, Missing
<1> QED
  BY <1>1, <1>2, <1>3 DEF Planned

\* The recovered part and the quarantined rest have as many bytes as the source.
LEMMA SizesAdd ==
    ASSUME NEW t, NEW i, Planned(t, i), Shape(i), ~Missing(i), i.bytes.frames \in Nat, i.bytes.tail \in Nat
    PROVE  (IF Present(i.data) THEN Size(i.data[2]) ELSE 0) + (IF Present(i.quar) THEN Size(i.quar[2]) ELSE 0)
               = Size(i.bytes)
<1>1. Prefix(i) \/ InPlace(i) \/ Quarantine(i)
  BY DEF Shape
<1>2. CASE Prefix(i)
  <2>a. Present(i.data) /\ i.data[2] = Bytes(i.bytes.frames, 0)
    BY <1>2, PlannedKinds DEF Prefix
  <2>b. i.data[2].frames = i.bytes.frames /\ i.data[2].tail = 0
    BY <2>a DEF Bytes
  <2>1. Present(i.data) /\ Size(i.data[2]) = i.bytes.frames
    BY <2>a, <2>b DEF Size
  <2>2. CASE i.quar = << >> /\ i.bytes.tail = 0
    BY <2>1, <2>2 DEF Present, Size
  <2>3. CASE i.quar = <<BadTail(i.source), Bytes(0, i.bytes.tail)>>
    <3>1. Present(i.quar) /\ Size(i.quar[2]) = i.bytes.tail
      BY <2>3 DEF Present, Size, Bytes
    <3> QED
      BY <2>1, <3>1 DEF Size
  <2> QED
    BY <1>2, <2>2, <2>3, PlannedKinds
<1>3. CASE InPlace(i)
  <2>1. Present(i.data) /\ i.data[2] = i.bytes /\ ~Present(i.quar)
    BY <1>3, PlannedKinds DEF InPlace, Present
  <2> QED
    BY <2>1 DEF Size
<1>4. CASE Quarantine(i)
  <2>1. ~Present(i.data) /\ Present(i.quar) /\ i.quar[2] = i.bytes
    BY <1>4, PlannedKinds DEF Quarantine, Present
  <2> QED
    BY <2>1 DEF Size
<1> QED
  BY <1>1, <1>2, <1>3, <1>4

\* What was checked before the second fact is synced when the fact is written.
LEMMA VerifyKInv == ASSUME IInv, IInv', KInv, VerifyArtifacts PROVE KInv'
<1>1. SourceStep /\ CInv /\ RInv
  BY DEF SourceStep, IInv
<1>2. /\ Stays /\ proof' = proof /\ Facts \in 0..6 /\ Facts' = Facts /\ FactsFit /\ intent' = intent
      /\ pc = "verify" /\ plan # << >> /\ Kept(cur, intent, Facts, Facts) /\ Shape(intent)
      /\ Facts \in 1..2
  BY <1>1, AtPlan, AtStep DEF VerifyArtifacts, FactsFit, At
<1>3. /\ UNCHANGED rawVars \/ \E qs : SyncWith(qs)
      /\ data' = data /\ art' = art /\ bytes' = bytes
  <2>1. UNCHANGED rawVars \/ \E qs : SyncWith(qs)
    BY DEF VerifyArtifacts
  <2> QED
    BY <2>1 DEF SyncWith, rawVars
<1>4. val' = val /\ \A p \in Parts : CalmAt(p)
  BY <1>2, <1>3, SameCalm, SyncCalm
<1>5. run' = "blocked" \/ Written'
  <2>1. \/ run' = "blocked"
        \/ /\ SyncWith(Quarantined) /\ HeldExactly(intent.man) /\ HeldExactly(intent.quar)
           /\ Present(intent.data) => DataExact(intent.data)
           /\ pc' = IF Facts = 1 THEN "fact" ELSE "settle"
    BY DEF VerifyArtifacts, GotoIf, Goto, Block
  <2>2. CASE pc' = "settle"
    BY <2>2 DEF Written
  <2>3. CASE /\ SyncWith(Quarantined) /\ HeldExactly(intent.man) /\ HeldExactly(intent.quar)
             /\ Present(intent.data) => DataExact(intent.data)
             /\ pc' = "fact" /\ Facts = 1
    <3>1. PICK i : i = intent
      OBVIOUS
    <3>2. /\ Shape(i) /\ Planned(cur, i) /\ FilesOf(i)
      BY <1>2, <3>1 DEF Kept
    <3>3. Present(i.data) => dataImg'[i.data[1]] = {data[i.data[1]]} /\ Named(data[i.data[1]]) /\ bytes'[i.data[1]] = i.data[2]
      BY <1>3, <2>3, <3>1, <3>2, PlanFiles DEF SyncWith, DataExact
    <3>4. Present(i.man) => artImg'[i.man[1]] = {art[i.man[1]]} /\ Named(art[i.man[1]]) /\ val'[i.man[1]] = i.man[2]
      <4>1. Present(i.man) => i.man[1] \in Artifacts /\ i.man[1][1] = "manifest"
        BY <3>2, PlanFiles DEF ManifestOf
      <4> QED
        BY <1>4, <2>3, <3>1, <4>1 DEF SyncWith, HeldExactly
    <3>5. Present(i.quar) => artImg'[i.quar[1]] = {art[i.quar[1]]} /\ Named(art[i.quar[1]]) /\ val'[i.quar[1]] = i.quar[2]
      <4>1. Present(i.quar) => i.quar[1] \in Artifacts /\ i.quar[1] \in Quarantined
        BY <3>1, <3>2, PlanFiles DEF Quarantined
      <4> QED
        BY <1>4, <2>3, <3>1, <4>1 DEF SyncWith, HeldExactly
    <3>6. DataNamed(i)'
      BY <3>3 DEF DataNamed, Named, NamedStates
    <3>7. ~Missing(i) => Preserved(i)'
      <4>1. SUFFICES ASSUME ~Missing(i) PROVE Preserved(i)'
        OBVIOUS
      <4>2. i.bytes.frames \in Nat /\ i.bytes.tail \in Nat
        BY <1>1, <3>2, <4>1, PlanFiles DEF FilesOf, RInv, RawTypes
      <4>3. (IF Present(i.data) THEN Size(i.data[2]) ELSE 0) + (IF Present(i.quar) THEN Size(i.quar[2]) ELSE 0)
               = Size(i.bytes)
        BY <3>2, <4>1, <4>2, SizesAdd
      <4> QED
        BY <3>2, <3>3, <3>4, <3>5, <4>3, PlanFiles DEF Preserved, Named
    <3> QED
      BY <1>2, <2>3, <3>1, <3>6, <3>7 DEF Written, DataNamed, Preserved, Missing
  <2> QED
    BY <1>2, <2>1, <2>2, <2>3
<1> QED
  BY <1>2, <1>3, <1>4, <1>5, CalmKInv

\* What a plan's part holds of the files that a step on data alone leaves.
LEMMA DataStep ==
    ASSUME IInv, KInv, SourceStep, plan # << >>, val' = val, artImg' = artImg, art' = art,
           NEW p \in PartsOf(intent), 
           \A r \in Parts \ {p} : data'[r] = data[r] /\ dataImg'[r] = dataImg[r] /\ bytes'[r] = bytes[r]
    PROVE  /\ val' = [a \in Artifacts |-> val'[a]]
           /\ \A r \in Parts \ PartsOf(intent) :
                 CalmAt(r) /\ data'[r] = data[r] /\ art'[ManifestOf(r)] = art[ManifestOf(r)]
           /\ \A r \in PartsOf(intent) : Sealed(r)'
           /\ \A a : MayBeNamed(a)' <=> MayBeNamed(a)
<1>1. CInv /\ RInv /\ KRaw /\ proof' = proof
  BY AtPlan DEF IInv, KInv
<1>2. \A r \in Parts : data[r] \in dataImg[r]
  BY <1>1 DEF RInv, Raw, PartSound
<1>3. \A a \in Artifacts : artImg[a] # {}
  BY <1>1 DEF RInv, Raw
<1>4. \A r \in Parts \ {p} : CalmAt(r)
  BY <1>1, <1>2, <1>3 DEF CalmAt
<1>5. PartsOf(intent) \subseteq Parts
  BY <1>1, AtStep
<1>6. \A r \in PartsOf(intent) : Sealed(r)'
  BY <1>1, AtPlan DEF Kept, Secured, Sealed
<1> QED
  BY <1>1, <1>4, <1>6 DEF KRaw, MayBeNamed

\* A step on the recovered part, which is no source.
LEMMA RangeKInv ==
    ASSUME IInv, IInv', KInv, PublishRange, NEW q, q = intent.data[1], Prefix(intent), val' = val, artImg' = artImg, art' = art,
           \A r \in Parts \ {q} : data'[r] = data[r] /\ dataImg'[r] = dataImg[r] /\ bytes'[r] = bytes[r],
           \/ dataImg'[q] \subseteq {"absent", "short"} /\ Size(bytes'[q]) = 0
           \/ dataImg'[q] \subseteq {"partial", "both", "final"} /\ bytes'[q] = intent.data[2]
    PROVE  KInv'
<1>1. SourceStep /\ CInv /\ RInv /\ plan # << >>
  BY DEF SourceStep, IInv, PublishRange
<1>2. /\ Stays /\ proof' = proof /\ Facts' = Facts /\ intent' = intent
      /\ Kept(cur, intent, Facts, Facts) /\ Shape(intent) /\ Facts = 1
  BY <1>1, AtPlan, AtStep DEF PublishRange, PrepareRange, PublishStream, AcceptRange, FactsFit, At
<1>3. q \in PartsOf(intent) /\ q # intent.source[2] /\ intent.source[2] \in Parts
  BY <1>2, PlanFiles DEF Prefix
<1>4. /\ val' = [a \in Artifacts |-> val'[a]]
      /\ \A r \in Parts \ PartsOf(intent) :
            CalmAt(r) /\ data'[r] = data[r] /\ art'[ManifestOf(r)] = art[ManifestOf(r)]
      /\ \A r \in PartsOf(intent) : Sealed(r)'
      /\ \A a : MayBeNamed(a)' <=> MayBeNamed(a)
  BY <1>1, <1>3, DataStep
<1>5. ASSUME NEW i, i = intent, NEW n, n = Facts PROVE Kept(cur, i, n, n)'
  <2>1. /\ Kept(cur, i, n, n) /\ n = 1 /\ cur' = cur
    BY <1>2, <1>5 DEF Stays
  <2>2. FilesOf(i)'
    BY <1>2, <1>3, <1>4, <1>5, <2>1 DEF Kept, FilesOf
  <2>3. Standing(i)'
    BY <1>3, <1>5, <2>1 DEF Kept, Standing
  <2>4. RangeOf(i)'
    BY <1>5 DEF RangeOf
  <2>5. Secured(i)'
    BY <1>4, <1>5 DEF Secured
  <2> QED
    BY <2>1, <2>2, <2>3, <2>4, <2>5 DEF Kept, Planned
<1>6. Written'
  <2>1. pc' \in {"data", "dataname", "datasync", "manifest"} \/ pc' = pc
    BY DEF PublishRange, PrepareRange, PublishStream, AcceptRange, Goto, Block
  <2>2. pc \in {"data", "dataname", "datasync"}
    BY DEF PublishRange, PrepareRange, PublishStream, AcceptRange, At
  <2> QED
    BY <2>1, <2>2 DEF Written
<1> QED
  BY <1>1, <1>2, <1>4, <1>5, <1>6, WriteKInv

\* The recovered part has all its bytes before it has its name.
LEMMA PublishRangeKInv == ASSUME IInv, IInv', KInv, PublishRange PROVE KInv'
<1>a. PICK q : q = intent.data[1]
  OBVIOUS
<1>1. SourceStep /\ CInv /\ RInv /\ plan # << >>
  BY DEF SourceStep, IInv, PublishRange
<1>2. Prefix(intent)
  BY <1>1, AtStep DEF PublishRange, NoRange, Shape, InPlace, Quarantine, Missing
<1>3. /\ Stays /\ proof' = proof /\ Facts = 1 /\ Kept(cur, intent, Facts, Facts) /\ Shape(intent) /\ DataReady
  BY <1>1, AtPlan, AtStep DEF PublishRange, PrepareRange, PublishStream, AcceptRange, FactsFit, At
<1>4. q \in PartsOf(intent) /\ q \in Parts /\ data[q] \in dataImg[q]
  BY <1>a, <1>1, <1>2, <1>3, PlanFiles DEF Prefix, RInv, Raw, PartSound
<1>5. \/ dataImg[q] \subseteq {"absent", "short"} /\ Size(bytes[q]) = 0
      \/ dataImg[q] \subseteq {"partial", "both", "final"} /\ bytes[q] = intent.data[2]
  BY <1>a, <1>2, <1>3 DEF Kept, RangeOf
<1>6. ASSUME NEW s \in DataStates, SetData(q, s),
             \/ s = "short" /\ data[q] = "absent"
             \/ s \in NamedStates /\ data[q] \in {"partial", "both"}
      PROVE  KInv'
  <2>1. /\ val' = val /\ artImg' = artImg /\ art' = art /\ bytes' = bytes /\ dataImg'[q] = dataImg[q] \cup {s}
        /\ \A r \in Parts \ {q} : data'[r] = data[r] /\ dataImg'[r] = dataImg[r] /\ bytes'[r] = bytes[r]
    BY <1>1, <1>4, <1>6 DEF SetData, RInv, RawTypes
  <2>2. \/ dataImg'[q] \subseteq {"absent", "short"} /\ Size(bytes'[q]) = 0
        \/ dataImg'[q] \subseteq {"partial", "both", "final"} /\ bytes'[q] = intent.data[2]
    BY <1>4, <1>5, <1>6, <2>1 DEF NamedStates
  <2> QED
    BY <1>a, <1>2, <2>1, <2>2, RangeKInv
<1>7. CASE At("data") /\ data[q] = "absent" /\ SetData(q, "short") /\ Goto("data")
  BY <1>6, <1>7 DEF DataStates
<1>8. CASE /\ At("data") /\ data[q] \in {"short", "partial"}
           /\ data' = [data EXCEPT ![q] = "partial"]
           /\ dataImg' = [dataImg EXCEPT ![q] = {"partial"}]
           /\ bytes' = [bytes EXCEPT ![q] = intent.data[2]]
           /\ Goto("dataname") /\ UNCHANGED <<art, artImg, val, lease, leaseDisk>>
  <2>1. /\ val' = val /\ artImg' = artImg /\ art' = art /\ dataImg'[q] = {"partial"} /\ bytes'[q] = intent.data[2]
        /\ \A r \in Parts \ {q} : data'[r] = data[r] /\ dataImg'[r] = dataImg[r] /\ bytes'[r] = bytes[r]
    BY <1>1, <1>4, <1>8 DEF RInv, RawTypes
  <2> QED
    BY <1>a, <1>2, <2>1, RangeKInv
<1>9. CASE At("dataname") /\ Goto("datasync") /\ \E linked \in Hardlinks : SetData(q, Published(linked))
  <2>1. PICK s \in {"both", "final"} : SetData(q, s)
    BY <1>9 DEF Published
  <2>2. data[q] = "partial"
    BY <1>a, <1>3, <1>4, <1>9 DEF DataReady, At
  <2> QED
    BY <1>6, <2>1, <2>2 DEF DataStates, NamedStates
<1>10. CASE data[q] = "both" /\ SetData(q, "final")
  BY <1>6, <1>10 DEF DataStates, NamedStates
<1>11. CASE /\ UNCHANGED rawVars \/ SyncRaw
            /\ run' = "blocked" \/ pc' \in {"data", "manifest"}
  <2>1. data' = data /\ art' = art
    BY <1>11 DEF SyncRaw, SyncWith, rawVars
  <2>2. val' = val /\ \A p \in Parts : CalmAt(p)
    BY <1>3, <1>11, SameCalm, SyncCalm DEF SyncRaw
  <2>3. run' = "blocked" \/ Written'
    BY <1>11 DEF Written
  <2> QED
    BY <1>3, <2>1, <2>2, <2>3, CalmKInv
<1> QED
  BY <1>a, <1>7, <1>8, <1>9, <1>10, <1>11
     DEF PublishRange, PrepareRange, PublishStream, AcceptRange, Goto, Block

\* A manifest, or a quarantine file, gets the content that its plan says.
LEMMA ArtKInv ==
    ASSUME IInv, IInv', KInv, PublishManifest \/ PublishQuarantine, NEW a, NEW c,
           \/ Present(intent.man) /\ a = intent.man[1] /\ c = intent.man[2]
           \/ Present(intent.quar) /\ a = intent.quar[1] /\ c = intent.quar[2],
           NEW s \in {"temp", "both", "final"}, SetArt(a, s),
           s = "final" \/ ~Named(art[a]) \/ (Present(intent.man) /\ a = intent.man[1] => c.by # 0),
           val' = [val EXCEPT ![a] = c] \/ (val' = val /\ val[a] = c),
           Written'
    PROVE  KInv'
<1>1. SourceStep /\ CInv /\ RInv /\ KRaw /\ plan # << >>
  BY DEF SourceStep, IInv, KInv, PublishManifest, PublishQuarantine
<1>2. /\ Stays /\ proof' = proof /\ Facts' = Facts /\ intent' = intent
      /\ Kept(cur, intent, Facts, Facts) /\ Shape(intent) /\ Facts = 1
  BY <1>1, AtPlan, AtStep DEF PublishManifest, PublishQuarantine, PublishArtifact, WriteArtifact, AcceptArtifact,
     FactsFit, At
<1>3. a \in Artifacts /\ a[3] \in PartsOf(intent) /\ PartsOf(intent) \subseteq Parts
  BY <1>2, PlanFiles DEF Shape
<1>4. /\ data' = data /\ dataImg' = dataImg /\ bytes' = bytes
      /\ art' = [art EXCEPT ![a] = s] /\ artImg' = [artImg EXCEPT ![a] = @ \cup {s}]
  BY DEF SetArt
<1>5. /\ val' = [x \in Artifacts |-> val'[x]] /\ val'[a] = c
      /\ \A x \in Artifacts \ {a} : val'[x] = val[x]
  BY <1>1, <1>3 DEF KRaw
<1>6. /\ \A x \in Artifacts \ {a} : art'[x] = art[x] /\ artImg'[x] = artImg[x]
      /\ artImg'[a] = artImg[a] \cup {s}
  BY <1>1, <1>3, <1>4 DEF RInv, RawTypes
<1>7. \A x \in Artifacts : artImg[x] # {}
  BY <1>1 DEF RInv, Raw
<1>8. ASSUME NEW r \in Parts \ PartsOf(intent)
      PROVE  CalmAt(r) /\ data'[r] = data[r] /\ art'[ManifestOf(r)] = art[ManifestOf(r)]
  <2>1. \A x \in Artifacts : x[3] = r => x # a
    BY <1>3
  <2>2. data[r] \in dataImg[r]
    BY <1>1 DEF RInv, Raw, PartSound
  <2> QED
    BY <1>2, <1>4, <1>5, <1>6, <1>7, <2>1, <2>2, ArtifactParts DEF CalmAt
<1>9. ASSUME NEW p \in PartsOf(intent) PROVE Sealed(p)'
  <2>1. p \in Parts /\ ManifestOf(p) \in Artifacts /\ Sealed(p)
    BY <1>2, <1>3, ArtifactParts DEF Kept, Secured
  <2>2. CASE ManifestOf(p) # a
    BY <1>5, <1>6, <2>1, <2>2 DEF Sealed
  <2>3. CASE ManifestOf(p) = a
    <3>1. Present(intent.man) /\ a = intent.man[1] /\ c = intent.man[2]
      BY <1>2, <2>3, PlanFiles
    <3>2. SUFFICES ASSUME c.by = 0 PROVE artImg'[a] = {"final"}
      BY <1>5, <2>3 DEF Sealed
    <3>3. MayBeNamed(a) /\ val[a] = c
      BY <1>2, <3>1, <3>2 DEF Kept, FilesOf
    <3>4. Named(art[a])
      BY <1>1, <2>1, <2>3, <3>3 DEF RInv, Raw, PartSound
    <3>5. artImg[a] = {"final"}
      BY <2>1, <2>3, <3>2, <3>3 DEF Sealed, MayBeNamed, Named
    <3> QED
      BY <1>6, <3>1, <3>2, <3>4, <3>5
  <2> QED
    BY <2>2, <2>3
<1>10. ASSUME NEW i, i = intent, NEW n, n = Facts PROVE Kept(cur, i, n, n)'
  <2>1. /\ Kept(cur, i, n, n) /\ n = 1 /\ cur' = cur /\ Shape(i)
    BY <1>2, <1>10 DEF Stays
  <2>2. FilesOf(i)'
    <3>1. ASSUME Present(i.man)
          PROVE  /\ MayBeNamed(i.man[1])' => val'[i.man[1]] = i.man[2]
                 /\ i.man[2].by = 0 => MayBeNamed(i.man[1])'
      <4>1. i.man[1] \in Artifacts /\ FilesOf(i)
        BY <2>1, <3>1, PlanFiles DEF Kept
      <4>2. CASE i.man[1] = a
        <5>a. ~(Present(i.quar) /\ a = i.quar[1])
          BY <2>1, <3>1, <4>2, PlanFiles
        <5>1. c = i.man[2]
          BY <1>10, <4>2, <5>a
        <5> QED
          BY <1>5, <1>6, <3>1, <4>1, <4>2, <5>1 DEF FilesOf, MayBeNamed
      <4>3. CASE i.man[1] # a
        BY <1>5, <1>6, <3>1, <4>1, <4>3 DEF FilesOf, MayBeNamed
      <4> QED
        BY <4>2, <4>3
    <3>2. ASSUME Present(i.quar) PROVE MayBeNamed(i.quar[1])' => val'[i.quar[1]] = i.quar[2]
      <4>1. i.quar[1] \in Artifacts /\ FilesOf(i)
        BY <2>1, <3>2, PlanFiles DEF Kept
      <4>2. CASE i.quar[1] = a
        <5>a. ~(Present(i.man) /\ a = i.man[1])
          BY <2>1, <3>2, <4>2, PlanFiles
        <5>1. c = i.quar[2]
          BY <1>10, <4>2, <5>a
        <5> QED
          BY <1>5, <4>2, <5>1
      <4>3. CASE i.quar[1] # a
        BY <1>5, <1>6, <3>2, <4>1, <4>3 DEF FilesOf, MayBeNamed
      <4> QED
        BY <4>2, <4>3
    <3> QED
      BY <1>2, <1>4, <2>1, <3>1, <3>2 DEF Kept, FilesOf
  <2>3. Standing(i)'
    BY <1>4, <2>1 DEF Kept, Standing
  <2>4. RangeOf(i)'
    BY <1>4, <2>1 DEF Kept, RangeOf
  <2>5. Secured(i)'
    BY <1>9, <1>10 DEF Secured
  <2> QED
    BY <2>1, <2>2, <2>3, <2>4, <2>5 DEF Kept, Planned
<1> QED
  BY <1>1, <1>2, <1>5, <1>8, <1>10, WriteKInv

\* A publication of a manifest or a quarantine file, step by step.
LEMMA PublishKInv ==
    ASSUME IInv, IInv', KInv, PublishManifest \/ PublishQuarantine, NEW a, NEW c, NEW here, NEW name, NEW sync, NEW next,
           \/ /\ Present(intent.man) /\ a = intent.man[1] /\ c = intent.man[2]
              /\ here = "manifest" /\ name = "manifestname" /\ sync = "manifestsync" /\ next = "quarantine"
           \/ /\ Present(intent.quar) /\ a = intent.quar[1] /\ c = intent.quar[2]
              /\ here = "quarantine" /\ name = "quarantinename" /\ sync = "quarantinesync" /\ next = "verify",
           PublishArtifact(a, c, here, name, sync, next)
    PROVE  KInv'
<1>1. SourceStep /\ CInv /\ RInv /\ KRaw
  BY DEF SourceStep, IInv, KInv, PublishManifest, PublishQuarantine
<1>2. Stays /\ proof' = proof /\ intent' = intent /\ Written /\ a \in Artifacts /\ Shape(intent) /\ plan # << >>
  <2>1. plan # << >>
    BY DEF PublishManifest, PublishQuarantine
  <2> QED
    BY <1>1, <2>1, AtPlan, AtStep, PlanFiles
<1>3. CASE ~Named(art[a]) /\ SetArt(a, "temp") /\ val' = [val EXCEPT ![a] = c] /\ Goto(name)
  <2>1. Written'
    <3>1. val'[a] = c /\ pc' = name
      BY <1>1, <1>2, <1>3 DEF KRaw, Goto
    <3>2. Present(intent.man) /\ a = intent.man[1] => c.by # 0
      <4>1. SUFFICES ASSUME Present(intent.man), a = intent.man[1], c.by = 0 PROVE FALSE
        OBVIOUS
      <4>2. FilesOf(intent) /\ c = intent.man[2]
        BY <1>1, <1>2, <4>1, AtPlan, PlanFiles DEF Kept
      <4>3. MayBeNamed(a)
        BY <4>1, <4>2 DEF FilesOf
      <4>4. PICK p \in Parts : a = ManifestOf(p)
        BY <1>2, <4>1, PlanFiles
      <4> QED
        BY <1>1, <1>3, <4>3, <4>4 DEF RInv, Raw, PartSound
    <3> QED
      BY <1>2, <3>1, <3>2 DEF Written
  <2> QED
    BY <1>3, <2>1, ArtKInv
<1>4. CASE At(name) /\ UNCHANGED val /\ Goto(sync) /\ \E linked \in Hardlinks : SetArt(a, Published(linked))
  <2>1. PICK s \in {"both", "final"} : SetArt(a, s)
    BY <1>4 DEF Published
  <2>2. val[a] = c /\ Written' /\ (Present(intent.man) /\ a = intent.man[1] => c.by # 0)
    BY <1>2, <1>4, PlanFiles DEF Written, At, Goto
  <2> QED
    BY <1>4, <2>1, <2>2, ArtKInv
<1>5. CASE val[a] = c /\ SetArt(a, "final") /\ UNCHANGED val /\ Goto(here)
  <2>1. Written'
    BY <1>5 DEF Written, Goto
  <2> QED
    BY <1>5, <2>1, ArtKInv
<1>6. CASE (UNCHANGED rawVars \/ \E qs : SyncWith(qs)) /\ (run' = "blocked" \/ pc' \in {here, next})
  <2>1. data' = data /\ art' = art
    BY <1>6 DEF SyncWith, rawVars
  <2>2. val' = val /\ \A p \in Parts : CalmAt(p)
    BY <1>2, <1>6, SameCalm, SyncCalm
  <2>3. run' = "blocked" \/ Written'
    BY <1>6 DEF Written
  <2> QED
    BY <1>2, <2>1, <2>2, <2>3, CalmKInv
<1>7. CASE WriteArtifact(a, c, here, name, sync)
  BY <1>3, <1>4, <1>6, <1>7 DEF WriteArtifact, Goto
<1>8. CASE AcceptArtifact(a, c, here, next)
  <2>1. CASE val[a] # c \/ a \in torn
    <3>1. Block /\ UNCHANGED rawVars
      BY <1>8, <2>1 DEF AcceptArtifact, Block, rawVars
    <3> QED
      BY <1>6, <3>1 DEF Block
  <2>2. CASE val[a] = c /\ a \notin torn /\ art[a] = "both"
    <3>1. SetArt(a, "final") /\ UNCHANGED val /\ Goto(here)
      BY <1>8, <2>2 DEF AcceptArtifact
    <3> QED
      BY <1>5, <2>2, <3>1
  <2>3. CASE val[a] = c /\ a \notin torn /\ art[a] # "both"
    <3>1. SyncWith({a}) /\ Goto(next)
      BY <1>8, <2>3 DEF AcceptArtifact
    <3> QED
      BY <1>6, <3>1 DEF Goto
  <2> QED
    BY <2>1, <2>2, <2>3
<1> QED
  BY <1>7, <1>8 DEF PublishArtifact

\* The manifest and the quarantine file have their content before their names.
LEMMA PublishArtifactsKInv == ASSUME IInv, IInv', KInv, PublishManifest \/ PublishQuarantine PROVE KInv'
<1>1. SourceStep
  BY DEF SourceStep
<1>2. CASE UNCHANGED rawVars /\ (run' = "blocked" \/ pc' \in {"quarantine", "verify"})
  <2>1. Stays /\ proof' = proof
    BY <1>1, AtPlan
  <2>2. val' = val /\ (\A p \in Parts : CalmAt(p)) /\ data' = data /\ art' = art
    BY <1>2, <2>1, SameCalm DEF rawVars
  <2>3. run' = "blocked" \/ Written'
    BY <1>2 DEF Written
  <2> QED
    BY <2>1, <2>2, <2>3, CalmKInv
<1>3. CASE Present(intent.man) /\ PublishArtifact(intent.man[1], intent.man[2], "manifest", "manifestname", "manifestsync", "quarantine")
  BY <1>3, PublishKInv
<1>4. CASE Present(intent.quar) /\ PublishArtifact(intent.quar[1], intent.quar[2], "quarantine", "quarantinename", "quarantinesync", "verify")
  BY <1>4, PublishKInv
<1> QED
  BY <1>2, <1>3, <1>4 DEF PublishManifest, PublishQuarantine, Goto

\* A source that a sync finds without its name is gone for good.
LEMMA SyncedGone ==
    ASSUME RInv, NEW i, Shape(i), src = i.source, ~SourcePresent(src), SyncRaw, src' = src PROVE SourceGone(i)'
<1>1. i.source[2] \in Parts /\ i.source[1] \in {"partial", "final"}
  BY PlanFiles DEF SourcePaths
<1>2. dataImg'[i.source[2]] = {data[i.source[2]]}
  BY <1>1 DEF SyncRaw, SyncWith
<1> QED
  BY <1>1, <1>2 DEF SourceGone, SourcePresent, Partial, Named, NamedStates

\* The source's name goes when its bytes are kept elsewhere.
LEMMA SettleSourceKInv == ASSUME IInv, IInv', KInv, SettleSource PROVE KInv'
<1>a. PICK p : p = src[2]
  OBVIOUS
<1>1. SourceStep /\ CInv /\ RInv /\ KRaw
  BY DEF SourceStep, IInv, KInv
<1>2. pc \in {"settle", "settlesync"} /\ Facts = 2 /\ plan # << >>
  BY <1>1, AtStep DEF SettleSource, FactsFit, At
<1>3. /\ Stays /\ proof' = proof /\ Facts' = Facts /\ intent' = intent /\ src' = src /\ Written /\ DataReady
      /\ Kept(cur, intent, Facts, Facts) /\ Shape(intent) /\ SourceHeld(intent)
  BY <1>1, <1>2, AtPlan, AtStep
<1>4. /\ src = intent.source /\ p \in Parts /\ p \in PartsOf(intent) /\ src[1] \in {"partial", "final"}
      /\ data[p] \in dataImg[p] /\ data[p] \in DataStates
  BY <1>a, <1>1, <1>2, AtStep DEF Leased, Shape, PartsOf, SourcePaths, PartSound, RInv, RawTypes
<1>5. CASE /\ UNCHANGED rawVars \/ SyncRaw
           /\ run' = "blocked" \/ Written'
  <2>1. data' = data /\ art' = art
    BY <1>5 DEF SyncRaw, SyncWith, rawVars
  <2>2. val' = val /\ \A r \in Parts : CalmAt(r)
    BY <1>3, <1>5, SameCalm, SyncCalm DEF SyncRaw
  <2> QED
    BY <1>3, <1>5, <2>1, <2>2, CalmKInv
<1>6. CASE SyncRaw /\ pc' = "fact" /\ (intent.disposition = "retained" \/ ~SourcePresent(src))
  <2>1. SourceGone(intent)'
    <3>1. PICK i : i = intent
      OBVIOUS
    <3>2. CASE intent.disposition = "retained"
      BY <1>3, <3>2 DEF SourceGone
    <3>3. CASE ~SourcePresent(src)
      <4>1. SourceGone(i)'
        BY <1>1, <1>3, <1>4, <1>6, <3>1, <3>3, SyncedGone
      <4> QED
        BY <1>3, <3>1, <4>1 DEF SourceGone
    <3> QED
      BY <1>6, <3>2, <3>3
  <2>2. Written'
    BY <1>2, <1>3, <1>6, <2>1 DEF Written
  <2> QED
    BY <1>5, <1>6, <2>2
<1>7. CASE /\ At("settle") /\ intent.disposition # "retained" /\ SourcePresent(src)
           /\ SetData(src[2], WithoutSource(src)) /\ Goto("settlesync")
  <2>1. PICK s : s = WithoutSource(src)
    OBVIOUS
  <2>2. /\ IF src[1] = "partial" THEN Partial(data[p]) ELSE Named(data[p])
        /\ s = IF data[p] = "both" THEN (IF src[1] = "partial" THEN "final" ELSE "partial") ELSE "absent"
    BY <1>a, <1>7, <2>1 DEF SourcePresent, WithoutSource
  <2>3. /\ data'[p] = s /\ dataImg'[p] = dataImg[p] \cup {s} /\ val' = val /\ artImg' = artImg /\ art' = art /\ bytes' = bytes
        /\ \A r \in Parts \ {p} : data'[r] = data[r] /\ dataImg'[r] = dataImg[r] /\ bytes'[r] = bytes[r]
        /\ pc' = "settlesync"
    BY <1>a, <1>1, <1>4, <1>7, <2>1 DEF SetData, RInv, RawTypes, Goto
  <2>4. /\ val' = [x \in Artifacts |-> val'[x]]
        /\ \A r \in Parts \ PartsOf(intent) :
              CalmAt(r) /\ data'[r] = data[r] /\ art'[ManifestOf(r)] = art[ManifestOf(r)]
        /\ \A r \in PartsOf(intent) : Sealed(r)'
        /\ \A x : MayBeNamed(x)' <=> MayBeNamed(x)
    BY <1>1, <1>2, <1>4, <2>3, DataStep
  <2>5. Written'
    <3>1. ~SourcePresent(src)'
      BY <1>a, <1>3, <1>4, <2>2, <2>3 DEF SourcePresent, Partial, Named
    <3> QED
      BY <2>3, <3>1 DEF Written
  <2>6. ASSUME NEW i, i = intent, NEW n, n = Facts PROVE Kept(cur, i, n, n)'
    <3>1. Kept(cur, i, n, n) /\ n = 2 /\ cur' = cur /\ Shape(i) /\ i.source = src /\ i.source[2] = p
      BY <1>a, <1>2, <1>3, <1>4, <2>6 DEF Stays
    <3>2. ~Missing(i)
      <4>1. SUFFICES ASSUME Missing(i) PROVE FALSE
        OBVIOUS
      <4>2. dataImg[p] \cap NamedStates = {} /\ src[1] = "final"
        BY <3>1, <4>1 DEF Kept, FilesOf, Missing
      <4> QED
        BY <1>4, <2>2, <4>2 DEF Named, NamedStates
    <3>3. FilesOf(i)'
      BY <1>3, <2>3, <2>4, <3>1, <3>2 DEF Kept, FilesOf
    <3>4. RangeOf(i)'
      <4>1. Prefix(i) => i.data[1] \in Parts \ {p}
        BY <3>1, PlanFiles DEF Prefix
      <4> QED
        BY <2>3, <3>1, <4>1 DEF Kept, RangeOf
    <3>5. DataNamed(i)'
      <4>1. SUFFICES ASSUME Present(i.data) PROVE dataImg'[i.data[1]] \subseteq NamedStates
        BY DEF DataNamed
      <4>2. i.data[1] \in Parts /\ dataImg[i.data[1]] \subseteq NamedStates
        BY <3>1, <4>1, PlanFiles DEF Kept, DataNamed
      <4>3. CASE i.data[1] # p
        BY <2>3, <4>2, <4>3
      <4>4. CASE i.data[1] = p
        <5>1. InPlace(i) /\ i.disposition # "retained"
          BY <1>7, <2>6, <3>1, <4>1, <4>4 DEF Shape, Prefix, Quarantine, Missing
        <5>2. src[1] = "partial" /\ data[p] = "both"
          BY <1>4, <2>2, <3>1, <4>2, <4>4, <5>1 DEF InPlace, Partial, NamedStates
        <5> QED
          BY <2>2, <2>3, <4>2, <4>4, <5>2 DEF NamedStates
      <4> QED
        BY <4>3, <4>4
    <3>6. Preserved(i)'
      <4>1. Preserved(i)
        BY <3>1, <3>2 DEF Kept
      <4>2. Present(i.data) => \A x \in dataImg'[i.data[1]] : Named(x)
        BY <3>5 DEF DataNamed, NamedStates, Named
      <4> QED
        BY <2>3, <4>1, <4>2 DEF Preserved, Named
    <3>7. Secured(i)'
      BY <2>4, <2>6 DEF Secured
    <3> QED
      BY <3>1, <3>3, <3>4, <3>5, <3>6, <3>7 DEF Kept, Planned
  <2> QED
    BY <1>2, <1>3, <2>4, <2>5, <2>6, WriteKInv
<1>8. CASE At("settlesync") /\ SyncRaw /\ Goto("fact")
  BY <1>3, <1>6, <1>8 DEF Written, Goto, At
<1> QED
  BY <1>5, <1>6, <1>7, <1>8 DEF SettleSource, Goto, GotoIf, Block
-----------------------------------------------------------------------------
(* The bytes between the transactions *)

\* Steps that change no file and know the plans of the journal.
LEMMA JournalKRaw ==
    ASSUME IInv, IInv', KInv, UNCHANGED <<rawVars, proof>>, chain' = chain, Held' = Journal,
           \A t \in Txs : durable[t] <= durable'[t]
    PROVE  KRaw'
<1>1. Lasts /\ \A t \in Held' : Ages(t)
  BY JournalAges DEF IInv
<1>2. val' = val /\ \A p \in Parts : CalmAt(p)
  BY SameCalm
<1> QED
  BY <1>1, <1>2, CalmKRaw DEF KInv

\* The same for a step that syncs no fact.
LEMMA SameJournalKRaw ==
    ASSUME IInv, IInv', KInv, UNCHANGED <<rawVars, proof, chain, durable>>, Held' = Journal
    PROVE  KRaw'
<1>1. \A t \in Txs : durable[t] <= durable'[t]
  BY HeldFacts DEF IInv
<1> QED
  BY <1>1, JournalKRaw

\* Loading the journal makes facts durable.
LEMMA LoadJournalKInv == ASSUME IInv, IInv', KInv, LoadJournal PROVE KInv'
<1>1. /\ pc = "next" /\ pc' = "next" /\ chain' = chain /\ UNCHANGED <<rawVars, proof>>
      /\ run' \in {"chains", "blocked"} /\ durable' = [t \in Txs |-> Len(chain[t])]
  BY DEF LoadJournal, IInv, CInv, Flow
<1>2. Held' = Journal
  BY <1>1 DEF Held, Journal
<1>3. ASSUME NEW t \in Txs PROVE durable[t] <= durable'[t]
  <2>1. durable[t] \in Nat /\ Len(chain[t]) \in Nat /\ (durable[t] = Len(chain[t]) \/ durable[t] + 1 = Len(chain[t]))
    BY HeldFacts DEF IInv
  <2> QED
    BY <1>1, <2>1
<1>4. KRaw'
  BY <1>1, <1>2, <1>3, JournalKRaw
<1> QED
  BY <1>1, <1>4 DEF KInv, Sighted

\* What is found is as it is found.
LEMMA FoundAsFound ==
    ASSUME NEW s \in ManifestOnly \cup Unbound PROVE AsFound(s)
<1>1. PICK q \in Parts :
         \/ s = <<"final", q>> /\ Named(art[ManifestOf(q)]) /\ ~Named(data[q])
         \/ s = <<"partial", q>> /\ Partial(data[q])
         \/ s = <<"final", q>> /\ data[q] = "final" /\ ~Named(art[ManifestOf(q)])
  BY DEF ManifestOnly, Unbound
<1>2. s[2] = q
  BY <1>1
<1> QED
  BY <1>1, <1>2 DEF AsFound

\* The next transaction to replay, or the search for sources.
LEMMA NextChainKInv == ASSUME IInv, IInv', KInv, NextChain PROVE KInv'
<1>1. /\ pc = "next" /\ UNCHANGED <<rawVars, proof, chain, durable>> /\ run = "chains"
  BY DEF NextChain, At, journalVars
<1>2. CASE todo = {}
  <2>1. run' = "temporaries" /\ pc' = pc
    BY <1>2 DEF NextChain
  <2>2. Held' = Journal
    BY <1>1, <2>1 DEF Held, Journal
  <2>3. KRaw'
    BY <1>1, <2>2, SameJournalKRaw
  <2> QED
    BY <1>1, <2>1, <2>3 DEF KInv, Sighted
<1>3. CASE todo # {}
  <2>1. PICK t : t = Min(todo)
    OBVIOUS
  <2>2. todo \subseteq Nat /\ todo \subseteq Journal
    BY RecoveryAssumption DEF IInv, CInv, Types, Accounted, Txs
  <2>3. t \in Journal
    BY <1>3, <2>1, <2>2, SmallestNumber
  <2>4. /\ cur' = t /\ plan' = <<chain[t][1]>> /\ run' = run
        /\ pc' \in {"lease", "recheck"}
    BY <1>3, <2>1 DEF NextChain
  <2>5. Held' = Journal /\ plan' # << >>
    BY <1>1, <2>3, <2>4 DEF Held, Journal
  <2>6. KRaw'
    BY <1>1, <2>5, SameJournalKRaw
  <2>7. Written'
    BY <2>4 DEF Written
  <2> QED
    BY <1>1, <2>4, <2>5, <2>6, <2>7 DEF KInv, Sighted
<1> QED
  BY <1>2, <1>3

\* The searches for manifests and for raw files, and the next of those found.
LEMMA SearchKInv == ASSUME IInv, IInv', KInv, DiscoverManifests \/ DiscoverUnbound \/ NextSource PROVE KInv'
<1>1. /\ pc = "next" /\ UNCHANGED <<rawVars, proof, chain, durable>>
      /\ run \in {"temporaries", "manifests", "sources"} /\ (DiscoverManifests \/ run # "temporaries")
      /\ run = "temporaries" => WriterTemporaries = {}
  BY DEF DiscoverManifests, DiscoverUnbound, NextSource, At, journalVars
<1>2. data' = data /\ art' = art /\ WriterTemporaries' = {}
  <2>1. WriterTemporaries = {}
    BY <1>1 DEF KInv, Sighted
  <2> QED
    BY <1>1, <2>1 DEF rawVars, WriterTemporaries
<1>3. CASE DiscoverManifests \/ DiscoverUnbound
  <2>1. pc' = "next" /\ (run' = "blocked" \/ found' = ManifestOnly \/ found' = Unbound)
    BY <1>1, <1>3 DEF DiscoverManifests, DiscoverUnbound
  <2>2. Held' = Journal
    BY <1>1, <2>1 DEF Held, Journal
  <2>3. KRaw'
    BY <1>1, <2>2, SameJournalKRaw
  <2>4. run' = "blocked" \/ \A s \in found' : AsFound(s)'
    BY <1>2, <2>1, FoundAsFound DEF AsFound, Named, Partial
  <2> QED
    BY <1>2, <2>1, <2>3, <2>4 DEF KInv, Sighted
<1>4. CASE NextSource
  <2>1. /\ pc' = "lease" /\ plan' = << >> /\ run' = run /\ found' = found \ {src'}
        /\ run \in {"manifests", "sources"}
    BY <1>4 DEF NextSource
  <2>2. Held' = Journal
    BY <1>1, <2>1 DEF Held, Journal
  <2>3. KRaw'
    BY <1>1, <2>2, SameJournalKRaw
  <2>4. src' \in found
    BY <1>4, NextIsFound DEF IInv
  <2>5. ASSUME NEW s \in found PROVE AsFound(s)'
    BY <1>2, <2>1 DEF KInv, Sighted, AsFound, Named, Partial
  <2>6. Written'
    BY <2>1 DEF Written
  <2>7. AsFound(src)'
    <3>1. PICK s : s = src'
      OBVIOUS
    <3>2. AsFound(s)'
      BY <2>4, <2>5, <3>1
    <3> QED
      BY <3>1, <3>2 DEF AsFound
  <2> QED
    BY <1>2, <2>1, <2>3, <2>5, <2>6, <2>7 DEF KInv, Sighted
<1> QED
  BY <1>3, <1>4

\* The ends of a transaction and of a phase, and the admission of an event.
LEMMA PhasesKInv == ASSUME IInv, IInv', KInv, Settled \/ Admit \/ Advance PROVE KInv'
<1>1. UNCHANGED <<rawVars, proof, chain, durable, found>> /\ data' = data /\ art' = art
  BY DEF Settled, Admit, Advance, journalVars, rawVars, workVars
<1>2. CASE Settled \/ Advance
  <2>1. pc' = "next" /\ (run' = run \/ run' \in {"serving", "up"})
    BY <1>2 DEF Settled, Advance, At
  <2>2. Held' = Journal
    BY <1>1, <2>1 DEF Held, Journal
  <2>3. KRaw'
    BY <1>1, <2>2, SameJournalKRaw
  <2>4. WriterTemporaries' = WriterTemporaries
    BY <1>1 DEF WriterTemporaries, rawVars
  <2> QED
    BY <1>1, <2>1, <2>3, <2>4 DEF KInv, Sighted, AsFound
<1>3. CASE Admit
  <2>1. /\ pc' = "fact" /\ run = "serving" /\ run' = run /\ pc = "next"
        /\ plan' = <<chain[cur'][1]>> /\ cur' = Min(pending)
    BY <1>3 DEF Admit, At
  <2>2. cur' \in Journal /\ Len(chain[cur']) = 3
    <3>1. pending \subseteq Nat /\ pending # {}
      BY <1>3, RecoveryAssumption DEF IInv, CInv, Types, Txs, Admit
    <3>2. cur' \in pending
      BY <2>1, <3>1, SmallestNumber
    <3> QED
      BY <2>1, <3>2 DEF IInv, CInv, Accounted
  <2>3. Held' = Journal /\ Facts' = 3 /\ plan' # << >>
    BY <1>1, <2>1, <2>2 DEF Held, Journal, Facts
  <2>4. KRaw'
    BY <1>1, <2>3, SameJournalKRaw
  <2>5. Written'
    BY <2>1, <2>3 DEF Written
  <2> QED
    BY <2>1, <2>3, <2>4, <2>5 DEF KInv, Sighted
<1> QED
  BY <1>2, <1>3

\* What a source found tells of its part, which no durable plan has.
LEMMA FoundPart ==
    ASSUME IInv, KInv, PlanFresh, NEW p, p = src[2]
    PROVE  /\ p \in Parts /\ src \in SourcePaths /\ src = <<src[1], p>> /\ src[1] \in {"partial", "final"}
           /\ AsLeft(p) /\ AsFound(src) /\ PartSound(p) /\ Sealed(p)
           /\ bytes[p].frames \in Nat /\ bytes[p].tail \in Nat /\ data[p] \in DataStates /\ dataImg[p] \subseteq DataStates
           /\ cur \in Txs /\ cur # 0 /\ Journal = Held /\ plan = << >> /\ cur \notin Journal
           /\ Facts = 0 /\ durable[cur] = 0 /\ Working /\ run \in {"manifests", "sources"}
           /\ ~MayBeNamed(BadTail(src)) /\ ~MayBeNamed(Whole(src))
           /\ Named(art[ManifestOf(p)]) <=> MayBeNamed(ManifestOf(p))
<1>1. CInv /\ RInv /\ KRaw /\ Sighted
  BY DEF IInv, KInv
<1>2. pc = "plan" /\ Facts = 0 /\ run \notin {"up", "blocked"}
  BY DEF PlanFresh, At
<1>3. Working /\ cur \in Txs
  BY <1>1, <1>2 DEF CInv, Types, Flow, Phases, Working, Settling
<1>4. plan = << >>
  BY <1>1, <1>2, <1>3 DEF CInv, Flow, FactsFit
<1>5. run \in {"manifests", "sources"} /\ cur \notin Journal /\ (\A t \in Held : p \notin PartsOf(IntentOf(t))) /\ Held = Journal
  BY <1>1, <1>2, <1>3, <1>4 DEF RInv, Found, Held
<1>6. p \in Parts /\ src \in SourcePaths /\ src = <<src[1], p>> /\ src[1] \in {"partial", "final"}
  BY <1>1 DEF RInv, RawTypes, SourcePaths
<1>7. Free(p)
  BY <1>1, <1>5, HeldFacts DEF Free
<1>8. AsLeft(p) /\ PartSound(p)
  BY <1>1, <1>6, <1>7 DEF KRaw, RInv, Raw
<1>9. durable[cur] = 0
  <2>1. Len(chain[cur]) = 0 /\ durable[cur] \in Nat /\ (durable[cur] = Len(chain[cur]) \/ durable[cur] + 1 = Len(chain[cur]))
    BY <1>1, <1>2, <1>3, HeldFacts DEF Facts
  <2> QED
    BY <2>1
<1>10. cur # 0
  BY <1>3, RecoveryAssumption DEF Txs
<1>11. Named(art[ManifestOf(p)]) <=> MayBeNamed(ManifestOf(p))
  <2>1. art[ManifestOf(p)] \in artImg[ManifestOf(p)]
    BY <1>1, <1>6, ManifestNames DEF RInv, Raw
  <2> QED
    BY <1>8, <2>1 DEF PartSound, MayBeNamed
<1>12. ~MayBeNamed(BadTail(src)) /\ ~MayBeNamed(Whole(src))
  BY <1>6, <1>8 DEF AsLeft
<1>13. AsFound(src)
  BY <1>1, <1>2, <1>3, <1>4 DEF Sighted
<1>14. Sealed(p)
  <2>1. SUFFICES ASSUME Temporary(p), val[ManifestOf(p)].by = 0 PROVE artImg[ManifestOf(p)] = {"absent"}
    BY <1>1, <1>6 DEF KRaw, Sealed
  <2>2. data[p] = "final" /\ art[ManifestOf(p)] \in ArtifactStates
    BY <1>1, <1>6, <1>8, <2>1, ArtifactParts DEF Temporary, PartSound, RInv, RawTypes
  <2>3. ~Named(art[ManifestOf(p)])
    BY <1>6, <1>13, <2>2 DEF AsFound, Partial, Named
  <2>4. p \notin WriterTemporaries
    BY <1>1, <1>5 DEF Sighted
  <2>5. art[ManifestOf(p)] = "absent"
    BY <1>6, <2>1, <2>2, <2>3, <2>4 DEF WriterTemporaries, ArtifactStates, Named
  <2> QED
    BY <2>1, <2>5 DEF Temporary
<1> QED
  BY <1>1, <1>2, <1>3, <1>4, <1>5, <1>6, <1>8, <1>9, <1>10, <1>11, <1>12, <1>13, <1>14 DEF RInv, RawTypes

\* A fresh plan for data that the retention job removed ...
LEMMA MissingKept ==
    ASSUME IInv, KInv, PlanFresh, NEW p, p = src[2], NEW i,
           src[1] = "final", ~Named(data[p]), Named(art[ManifestOf(p)]), proof[p] # "none",
           i = PlanMissing(cur, p, val[ManifestOf(p)], proof[p])
    PROVE  Kept(cur, i, 0, 0)
<1>1. PICK m, w : m = ManifestOf(p) /\ w = val[m]
  OBVIOUS
<1>2. w = RecoveryManifest(0, bytes[p]) /\ w.by = 0 /\ Size(w.of) > 0 /\ MayBeNamed(m)
  <2>1. MayBeNamed(m) /\ AsLeft(p)
    BY <1>1, FoundPart
  <2>2. w = RecoveryManifest(0, bytes[p]) /\ Size(bytes[p]) > 0
    BY <1>1, <2>1 DEF AsLeft
  <2> QED
    BY <2>1, <2>2 DEF RecoveryManifest
<1>3. /\ i.source = <<"final", p>> /\ i.data = << >> /\ i.quar = << >> /\ i.disposition = "legitimately_missing"
      /\ i.man = <<m, w>> /\ i.state \in CleanupStates /\ i.proof = <<proof[p]>> /\ i.bytes = w.of
  BY <1>1 DEF PlanMissing, Intent, CleanupStates
<1>4. i.source[2] = p /\ i.man[1] = m /\ i.man[2] = w /\ i.proof[1] = proof[p] /\ i.source[1] = "final" /\ i.man # << >>
  BY <1>3
<1>5. Planned(cur, i)
  BY <1>1, <1>2, <1>4 DEF Planned
<1>6. Missing(i) /\ ~Prefix(i) /\ ~Quarantine(i) /\ i.state # "publication_coexistence" /\ i.disposition # "retained"
  BY <1>1, <1>3, <1>4 DEF Missing, Prefix, Quarantine, Present, CleanupStates
<1>7. dataImg[p] \cap NamedStates = {}
  <2>1. data[p] \in dataImg[p] /\ dataImg[p] \subseteq {"absent", "both", "final"} /\ (data[p] = "absent" => dataImg[p] = {"absent"})
    BY <1>1, <1>2, FoundPart DEF PartSound, AsLeft
  <2> QED
    BY <2>1 DEF Named, NamedStates
<1>8. FilesOf(i)
  BY <1>1, <1>2, <1>3, <1>4, <1>6, <1>7 DEF FilesOf, Present
<1>9. Standing(i) /\ RangeOf(i)
  BY <1>6 DEF Standing, RangeOf
<1>10. Secured(i)
  BY <1>3, <1>4, FoundPart DEF Secured, PartsOf, Present
<1> QED
  BY <1>5, <1>8, <1>9, <1>10 DEF Kept

\* ... for both names of an interrupted publication ...
LEMMA CoexistenceKept ==
    ASSUME IInv, KInv, PlanFresh, NEW p, p = src[2], NEW i, NEW b, b = bytes[p],
           src[1] = "partial", data[p] = "both", b.frames # 0, ~(b.tail > 0),
           i = PlanCoexistence(cur, src, b, ManifestFound(p))
    PROVE  Kept(cur, i, 0, 0)
<1>1. PICK m, w : m = ManifestOf(p) /\ w = IF MayBeNamed(m) THEN RecoveryManifest(0, b) ELSE RecoveryManifest(cur, b)
  OBVIOUS
<1>2. /\ MayBeNamed(m) => val[m] = w /\ ManifestFound(p) = <<w>>
      /\ ~MayBeNamed(m) => ManifestFound(p) = << >>
      /\ w.by = 0 => MayBeNamed(m)
  BY <1>1, FoundPart DEF AsLeft, RecoveryManifest, ManifestFound
<1>3. (IF ManifestFound(p) = << >> THEN RecoveryManifest(cur, b) ELSE ManifestFound(p)[1]) = w
  BY <1>1, <1>2
<1>4. /\ i.source = src /\ i.data = <<p, b>> /\ i.quar = << >> /\ i.disposition = "removed" /\ i.bytes = b
      /\ i.man = <<m, w>> /\ i.state = "publication_coexistence" /\ i.proof = << >>
  BY <1>1, <1>3 DEF PlanCoexistence, Intent
<1>5. i.source[2] = p /\ i.man[1] = m /\ i.man[2] = w /\ i.man # << >>
  BY <1>4
<1>6. i = PlanCoexistence(cur, src, b, <<w>>)
  BY <1>3 DEF PlanCoexistence
<1>7. b.frames > 0 /\ b.tail = 0
  BY FoundPart
<1>8. Planned(cur, i)
  BY <1>1, <1>4, <1>5, <1>6, <1>7 DEF Planned
<1>9. ~Missing(i) /\ ~Prefix(i) /\ ~Quarantine(i) /\ i.disposition # "retained"
  BY <1>4 DEF Missing, Prefix, Quarantine
<1>10. FilesOf(i)
  BY <1>2, <1>4, <1>5, <1>9 DEF FilesOf, Present
<1>11. dataImg[p] \subseteq {"partial", "both"}
  <2>1. /\ data[p] \in dataImg[p] /\ dataImg[p] \subseteq DataStates /\ "short" \notin dataImg[p]
        /\ "both" \in dataImg[p] => "absent" \notin dataImg[p]
        /\ "final" \notin dataImg[p]
    BY FoundPart DEF PartSound, AsLeft
  <2> QED
    BY <2>1 DEF DataStates
<1>12. Standing(i) /\ RangeOf(i)
  BY <1>5, <1>9, <1>11 DEF Standing, RangeOf
<1>13. Secured(i)
  BY <1>4, <1>5, FoundPart DEF Secured, PartsOf
<1> QED
  BY <1>8, <1>10, <1>12, <1>13 DEF Kept

\* ... and for a raw file.
LEMMA SourceKept ==
    ASSUME IInv, KInv, PlanFresh, NEW p, p = src[2], NEW i, NEW b, b = bytes[p], NEW next, next = NextSequence,
           SourcePresent(src), ~(src[1] = "partial" /\ data[p] = "both"),
           i = PlanSource(cur, src, b, next)
    PROVE  Kept(cur, i, 0, 0)
<1>1. /\ p \in Parts /\ src \in SourcePaths /\ src = <<src[1], p>> /\ src[1] \in {"partial", "final"}
      /\ AsLeft(p) /\ AsFound(src) /\ PartSound(p) /\ Sealed(p)
      /\ b.frames \in Nat /\ b.tail \in Nat /\ data[p] \in DataStates /\ dataImg[p] \subseteq DataStates
      /\ cur # 0 /\ ~MayBeNamed(BadTail(src)) /\ ~MayBeNamed(Whole(src))
      /\ Named(art[ManifestOf(p)]) <=> MayBeNamed(ManifestOf(p))
  BY FoundPart
<1>2. ~MayBeNamed(ManifestOf(p))
  <2>1. CASE src[1] = "partial"
    <3>1. data[p] \in {"short", "partial"}
      BY <2>1 DEF SourcePresent, Partial
    <3> QED
      BY <1>1, <3>1 DEF PartSound
  <2>2. CASE src[1] = "final"
    BY <1>1, <2>2 DEF AsFound, SourcePresent
  <2> QED
    BY <1>1, <2>1, <2>2
<1>3. "absent" \in dataImg[p] => Size(b) = 0
  BY <1>1, <1>2 DEF AsLeft
<1>4. CASE src[1] = "partial" /\ b.frames > 0
  <2>1. i = PlanPrefix(cur, src, b, next)
    BY <1>4 DEF PlanSource
  <2>2. PICK w, e : w = RecoveryManifest(cur, Bytes(b.frames, 0)) /\ e = Bytes(b.frames, 0)
    OBVIOUS
  <2>3. /\ i.source = src /\ i.data = <<next, e>> /\ i.disposition = "removed" /\ i.bytes = b
        /\ i.state \in {"partial_complete", "partial_truncated"} /\ i.man = <<ManifestOf(next), w>>
        /\ i.quar = << >> \/ \E c : i.quar = <<BadTail(src), c>>
    BY <2>1, <2>2 DEF PlanPrefix, Intent
  <2>4. /\ i.man[1] = ManifestOf(next) /\ i.man[2] = w /\ i.man # << >> /\ i.data # << >> /\ i.data[1] = next
        /\ i.quar # << >> => i.quar[1] = BadTail(src)
        /\ i.source[2] = p /\ i.data[2] = e
    BY <2>3
  <2>5. FrozenSequence(i) = next
    BY <1>4, <2>3, <2>4 DEF FrozenSequence, Present
  <2>6. Planned(cur, i)
    BY <2>3, <2>5 DEF Planned
  <2>7. w.by # 0
    BY <1>1, <2>2 DEF RecoveryManifest
  <2>8. /\ ~MayBeNamed(ManifestOf(next)) /\ dataImg[next] = {"absent"} /\ next \in Parts
        /\ \A t \in Journal : next \notin PartsOf(chain[t][1])
    BY NextIsFree DEF IInv, PlanFresh
  <2>9. Size(bytes[next]) = 0
    <3>1. Free(next)
      BY <2>8 DEF Free
    <3>2. AsLeft(next)
      BY <2>8, <3>1 DEF KInv, KRaw
    <3> QED
      BY <2>8, <3>2 DEF AsLeft
  <2>10. ~Missing(i) /\ i.disposition # "retained" /\ i.state # "publication_coexistence"
    BY <2>3 DEF Missing
  <2>11. FilesOf(i)
    BY <1>1, <2>3, <2>4, <2>7, <2>8, <2>10 DEF FilesOf, Present
  <2>12. Standing(i)
    BY <1>3, <2>3, <2>4, <2>10 DEF Standing
  <2>13. RangeOf(i)
    BY <2>4, <2>8, <2>9 DEF RangeOf
  <2>14. Secured(i)
    <3>1. Sealed(next)
      BY <2>8 DEF KInv, KRaw, Temporary
    <3> QED
      BY <1>1, <2>3, <2>4, <3>1 DEF Secured, PartsOf
  <2> QED
    BY <2>6, <2>11, <2>12, <2>13, <2>14 DEF Kept
<1>5. CASE src[1] = "final" /\ b.frames > 0 /\ b.tail = 0
  <2>1. i = PlanOrphan(cur, src, b)
    BY <1>5 DEF PlanSource
  <2>2. PICK w : w = RecoveryManifest(cur, b)
    OBVIOUS
  <2>3. /\ i.source = src /\ i.data = <<p, b>> /\ i.disposition = "retained" /\ i.bytes = b
        /\ i.quar = << >> /\ i.man = <<ManifestOf(p), w>> /\ i.state = "orphan_closed_data"
    BY <2>1, <2>2 DEF PlanOrphan, Intent
  <2>4. i.man[1] = ManifestOf(p) /\ i.man[2] = w /\ i.man # << >> /\ i.source[2] = p
    BY <2>3
  <2>5. Planned(cur, i)
    <3>1. i = PlanSource(cur, src, b, FrozenSequence(i))
      BY <1>5, <2>1 DEF PlanSource
    <3> QED
      BY <2>3, <3>1 DEF Planned
  <2>6. w.by # 0
    BY <1>1, <2>2 DEF RecoveryManifest
  <2>7. ~Missing(i) /\ ~Prefix(i) /\ ~Quarantine(i) /\ i.state # "publication_coexistence"
    BY <2>3 DEF Missing, Prefix, Quarantine
  <2>8. FilesOf(i)
    BY <1>2, <2>3, <2>4, <2>6, <2>7 DEF FilesOf, Present
  <2>9. dataImg[p] \subseteq NamedStates
    <3>1. data[p] = "final"
      BY <1>1, <1>2, <1>5 DEF AsFound, SourcePresent
    <3>2. Size(b) # 0
      BY <1>1, <1>5 DEF Size
    <3>3. "absent" \notin dataImg[p] /\ "short" \notin dataImg[p] /\ "partial" \notin dataImg[p]
      BY <1>1, <1>3, <3>1, <3>2 DEF AsLeft
    <3> QED
      BY <1>1, <3>3 DEF DataStates, NamedStates
  <2>10. Standing(i) /\ RangeOf(i)
    BY <2>4, <2>7, <2>9 DEF Standing, RangeOf
  <2>11. Secured(i)
    BY <1>1, <2>3, <2>4 DEF Secured, PartsOf
  <2> QED
    BY <2>5, <2>8, <2>10, <2>11 DEF Kept
<1>6. CASE ~(src[1] = "partial" /\ b.frames > 0) /\ ~(src[1] = "final" /\ b.frames > 0 /\ b.tail = 0)
  <2>1. i = PlanWhole(cur, src, b)
    BY <1>6 DEF PlanSource
  <2>3. /\ i.source = src /\ i.data = << >> /\ i.man = << >> /\ i.disposition = "moved_to_quarantine" /\ i.bytes = b
        /\ i.state \in {"partial_truncated", "orphan_closed_data"} /\ i.quar = <<Whole(src), b>>
    BY <2>1 DEF PlanWhole, Intent
  <2>4. i.quar[1] = Whole(src) /\ i.source[2] = p
    BY <2>3
  <2>5. Planned(cur, i)
    <3>1. i = PlanSource(cur, src, b, FrozenSequence(i))
      BY <1>6, <2>1 DEF PlanSource
    <3> QED
      BY <2>3, <3>1 DEF Planned
  <2>6. ~Missing(i) /\ ~Prefix(i) /\ i.disposition # "retained" /\ i.state # "publication_coexistence"
    BY <2>3 DEF Missing, Prefix
  <2>7. FilesOf(i)
    BY <1>1, <2>3, <2>4, <2>6 DEF FilesOf, Present
  <2>8. Standing(i) /\ RangeOf(i)
    BY <1>3, <2>3, <2>4, <2>6 DEF Standing, RangeOf
  <2>9. Secured(i)
    BY <1>1, <2>3, <2>4 DEF Secured, PartsOf, Present
  <2> QED
    BY <2>5, <2>7, <2>8, <2>9 DEF Kept
<1> QED
  BY <1>1, <1>4, <1>5, <1>6

\* A fresh plan is right about what there is.
LEMMA PlanFreshKInv == ASSUME IInv, IInv', KInv, PlanFresh PROVE KInv'
<1>a. PICK next, p : next = NextSequence /\ p = src[2]
  OBVIOUS
<1>1. /\ UNCHANGED <<rawVars, proof, chain, durable, cur, src, found>> /\ next \in Parts
      /\ pc = "plan" /\ data' = data /\ art' = art
  BY <1>a DEF PlanFresh, journalVars, At, rawVars
<1>2. /\ cur \in Txs /\ Journal = Held /\ plan = << >> /\ cur \notin Journal
      /\ Facts = 0 /\ durable[cur] = 0 /\ Working /\ run \in {"manifests", "sources"} /\ src \in SourcePaths
  BY <1>a, FoundPart
<1>3. CASE PlanNow(next) = << >>
  <2>1. run' = "blocked" /\ plan' = plan /\ pc' = pc
    BY <1>a, <1>3 DEF PlanFresh
  <2>2. Held' = Journal
    BY <1>1, <1>2, <2>1 DEF Held, Journal
  <2>3. KRaw'
    BY <1>1, <2>2, SameJournalKRaw
  <2> QED
    BY <2>1, <2>3 DEF KInv, Sighted, Working, Settling
<1>4. CASE PlanNow(next) # << >>
  <2>1. PICK i : /\ PlanNow(next) = <<i>>
                 /\ \/ /\ src[1] = "final" /\ ~Named(data[p]) /\ Named(art[ManifestOf(p)])
                       /\ proof[p] # "none"
                       /\ i = PlanMissing(cur, p, val[ManifestOf(p)], proof[p])
                    \/ /\ src[1] = "partial" /\ data[p] = "both"
                       /\ bytes[p].frames # 0 /\ ~(bytes[p].tail > 0)
                       /\ i = PlanCoexistence(cur, src, bytes[p], ManifestFound(p))
                    \/ /\ SourcePresent(src) /\ ~(src[1] = "partial" /\ data[p] = "both")
                       /\ i = PlanSource(cur, src, bytes[p], next)
    BY <1>a, <1>2, <1>4, PlanKinds
  <2>2. Kept(cur, i, 0, 0)
    BY <1>a, <2>1, MissingKept, CoexistenceKept, SourceKept
  <2>3. plan' = <<i>> /\ pc' = "lease2" /\ run' = run /\ plan' # << >> /\ intent' = i
    BY <1>a, <1>4, <2>1 DEF PlanFresh, intent
  <2>4. Held' = Journal \cup {cur} /\ Journal' = Journal /\ \A t : t = cur => IntentOf(t)' = i
    BY <1>1, <1>2, <2>3 DEF Held, Journal, IntentOf
  <2>5. \A t \in Journal : IntentOf(t)' = IntentOf(t) /\ t \in Txs /\ durable[t] \in Nat
    BY <1>1, <1>2, HeldFacts DEF IntentOf, IInv, Journal
  <2>6. Lasts
    BY <1>1, <2>4 DEF Lasts
  <2>7. \A t \in Journal : Ages(t)
    BY <1>1, <1>2, <2>5 DEF Ages
  <2>8. val' = val /\ \A r \in Parts : CalmAt(r)
    BY <1>1, SameCalm
  <2>9. Kept(cur, IntentOf(cur), durable[cur], Len(chain[cur]))'
    <3>1. Len(chain'[cur']) = 0 /\ durable'[cur'] = 0 /\ cur' = cur /\ IntentOf(cur)' = i
      BY <1>1, <1>2, <2>4 DEF Facts
    <3>2. Kept(cur, i, 0, 0)'
      BY <1>1, <2>2 DEF Kept, Planned, FilesOf, Secured, Sealed, Standing, RangeOf, rawVars, MayBeNamed
    <3> QED
      BY <3>1, <3>2 DEF Kept, Planned, FilesOf, Secured, Sealed, Standing, RangeOf, Preserved, DataNamed, SourceGone, MayBeNamed
  <2>10. KRaw'
    <3>1. \A t \in Held' : Ages(t) \/ Kept(t, IntentOf(t), durable[t], Len(chain[t]))'
      BY <1>1, <2>4, <2>7, <2>9
    <3> QED
      BY <2>6, <2>8, <3>1, CalmKRaw DEF KInv
  <2>11. Written'
    BY <2>3 DEF Written
  <2>12. Sighted'
    <3>1. WriterTemporaries' = WriterTemporaries
      BY <1>1 DEF WriterTemporaries, rawVars
    <3> QED
      BY <1>1, <1>2, <2>3, <3>1 DEF KInv, Sighted, AsFound, Named, Partial
  <2> QED
    BY <2>10, <2>11, <2>12 DEF KInv
<1> QED
  BY <1>3, <1>4
-----------------------------------------------------------------------------
(* The bytes under facts, carriers, stops and the retention job *)

\* A step on the facts or on the carrier of the transaction at hand changes no file.
LEMMA SamePlanKInv ==
    ASSUME IInv, IInv', KInv, UNCHANGED <<rawVars, proof, cur, src, plan, found>>, Working, plan # << >>, pc # "next",
           run' = "blocked" \/ (run' = run /\ pc' # "next" /\ Written'), Lasts,
           \A t \in Held' : Ages(t) \/ Kept(t, IntentOf(t), durable[t], Len(chain[t]))'
    PROVE  KInv'
<1>1. val' = val /\ \A p \in Parts : CalmAt(p)
  BY SameCalm
<1>2. KRaw'
  BY <1>1, CalmKRaw DEF KInv
<1>3. data' = data /\ art' = art
  BY DEF rawVars
<1>4. Sighted'
  <2>1. WriterTemporaries' = WriterTemporaries
    BY DEF WriterTemporaries, rawVars
  <2> QED
    BY <1>3, <2>1 DEF KInv, Sighted, Working, Settling, AsFound, Named, Partial
<1> QED
  BY <1>2, <1>4 DEF KInv, Working, Settling

\* The second fact says what was checked, the third what was synced.
LEMMA PublishFactKInv == ASSUME IInv, IInv', KInv, PublishFact PROVE KInv'
<1>1. /\ UNCHANGED <<rawVars, proof, durable, cur, src, plan, found>> /\ pc = "fact"
      /\ run \notin {"up", "blocked"}
      /\ \/ chain' = chain /\ run' = "blocked" /\ pc' = pc
         \/ /\ chain' = [chain EXCEPT ![cur] = Append(chain[cur], NextFact)]
            /\ run' = run /\ pc' = "factsync"
  BY DEF PublishFact, At, Block, Goto, workVars
<1>2. CInv /\ RInv /\ KRaw
  BY DEF IInv, KInv
<1>3. Working /\ plan # << >> /\ Facts \in 0..5 /\ cur \in Txs /\ Written
  <2>1. Working
    BY <1>1, <1>2 DEF CInv, Types, Flow, Phases, Working, Settling
  <2> QED
    BY <1>1, <1>2, <2>1 DEF CInv, Flow, FactsFit, Types, KInv
<1>4. /\ \A t \in Txs : durable[t] \in Nat
      /\ Held \subseteq Txs
  BY <1>2, HeldFacts
<1>5. CASE chain' = chain /\ run' = "blocked" /\ pc' = pc
  <2>1. Held' = Held /\ Journal' = Journal /\ \A t : IntentOf(t)' = IntentOf(t)
    BY <1>1, <1>5 DEF Held, Journal, IntentOf, intent
  <2>2. Lasts /\ \A t \in Held' : Ages(t)
    BY <1>1, <1>4, <1>5, <2>1 DEF Lasts, Ages
  <2> QED
    BY <1>1, <1>3, <1>5, <2>2, SamePlanKInv
<1>6. CASE /\ chain' = [chain EXCEPT ![cur] = Append(chain[cur], NextFact)]
           /\ run' = run /\ pc' = "factsync"
  <2>1. /\ \A t \in Txs : t # cur => chain'[t] = chain[t]
        /\ chain'[cur] = Append(chain[cur], NextFact)
    BY <1>2, <1>3, <1>6 DEF CInv, Types
  <2>2. /\ IsChain(chain'[cur]) /\ Len(chain'[cur]) = Len(chain[cur]) + 1
        /\ \A k \in 1..Len(chain[cur]) : chain'[cur][k] = chain[cur][k]
    <3>1. IsChain(chain[cur]) /\ Len(chain[cur]) \in 0..5
      BY <1>2, <1>3 DEF CInv, Types, Facts
    <3>2. \A l \in 0..5 : l <= 5
      OBVIOUS
    <3>3. Len(chain[cur]) <= 5
      BY <3>1, <3>2, Zenon
    <3> QED
      BY <2>1, <3>1, <3>3, AppendChain
  <2>3. Journal' = Journal \cup {cur}
    <3>1. chain'[cur] # << >>
      BY <2>2, ChainFacts, LengthsNow, <1>2
    <3> QED
      BY <1>3, <2>1, <3>1 DEF Journal
  <2>4. Held' = Held
    BY <1>1, <1>3, <1>6, <2>3 DEF Held, Journal
  <2>5. \A t \in Held : IntentOf(t)' = IntentOf(t)
    BY <1>1, <1>3, <1>4, <2>1, <2>4 DEF IntentOf, intent
  <2>6. Lasts
    <3>1. SUFFICES ASSUME NEW t \in Journal, durable[t] >= 1
                   PROVE  t \in Journal' /\ durable'[t] >= 1 /\ chain'[t][1] = chain[t][1]
      BY DEF Lasts
    <3>2. t \in Txs /\ Len(chain[t]) \in 0..6 /\ Len(chain[t]) >= 1
      BY <1>2, LengthsNow
    <3>3. CASE t # cur
      BY <1>1, <2>1, <2>3, <3>1, <3>2, <3>3
    <3>4. CASE t = cur
      BY <1>1, <2>2, <2>3, <3>1, <3>2, <3>4
    <3> QED
      BY <3>3, <3>4
  <2>7. ASSUME NEW t \in Held', t # cur PROVE Ages(t)
    BY <1>1, <1>4, <2>1, <2>4, <2>5, <2>7 DEF Ages
  <2>8. ASSUME Facts \notin {1, 2} PROVE Ages(cur)
    <3>1. cur \in Held /\ Facts = Len(chain[cur])
      BY <1>1, <1>3 DEF Held, Facts
    <3>2. \A l \in 0..5 : l \notin {1, 2} => (l + 1 >= 2 => l >= 2) /\ (l + 1 >= 3 => l >= 3)
      OBVIOUS
    <3>3. (Facts + 1 >= 2 => Facts >= 2) /\ (Facts + 1 >= 3 => Facts >= 3)
      BY <1>3, <2>8, <3>2
    <3> QED
      BY <1>1, <1>3, <1>4, <2>2, <2>5, <3>1, <3>3 DEF Ages
  <2>9. ASSUME Facts \in {1, 2} PROVE Kept(cur, IntentOf(cur), durable[cur], Len(chain[cur]))'
    <3>1. PICK i, n : i = intent /\ n = Facts
      OBVIOUS
    <3>2. /\ cur \in Held /\ IntentOf(cur) = i /\ n = Len(chain[cur]) /\ n \in {1, 2}
          /\ Len(chain'[cur]) = n + 1 /\ IntentOf(cur)' = i
      BY <1>1, <1>3, <2>2, <2>5, <2>9, <3>1 DEF Held, IntentOf, Facts
    <3>3. durable[cur] = n
      BY <1>1, <1>2, <1>3, <3>2 DEF CInv, Synced, Working, Settling
    <3>4. Kept(cur, i, n, n)
      BY <1>2, <3>2, <3>3 DEF KRaw
    <3>5. ASSUME n = 1 PROVE Kept(cur, i, n, n + 1)
      <4>1. (Missing(i) \/ Preserved(i)) /\ DataNamed(i)
        BY <1>1, <1>3, <3>1, <3>5 DEF Written
      <4>2. Planned(cur, i) /\ FilesOf(i) /\ Secured(i) /\ Standing(i) /\ RangeOf(i)
        BY <3>4, <3>5 DEF Kept
      <4>3. Kept(cur, i, 1, 2)
        BY <4>1, <4>2 DEF Kept
      <4> QED
        BY <3>5, <4>3 DEF Kept
    <3>6. ASSUME n = 2 PROVE Kept(cur, i, n, n + 1)
      <4>1. SourceGone(i)
        BY <1>1, <1>3, <3>1, <3>6 DEF Written
      <4>2. Planned(cur, i) /\ FilesOf(i) /\ Secured(i) /\ RangeOf(i) /\ (Missing(i) \/ Preserved(i)) /\ DataNamed(i)
        BY <3>4, <3>6 DEF Kept
      <4>3. Kept(cur, i, 2, 3)
        BY <4>1, <4>2 DEF Kept
      <4> QED
        BY <3>6, <4>3 DEF Kept
    <3>7. Kept(cur, i, n, n + 1)
      BY <3>2, <3>5, <3>6
    <3>8. Kept(cur, i, n, n + 1)'
      BY <1>1, <3>7 DEF Kept, Planned, FilesOf, Secured, Sealed, Standing, RangeOf, Preserved, DataNamed, SourceGone, MayBeNamed, rawVars
    <3>9. IntentOf(cur)' = i /\ durable'[cur'] = n /\ Len(chain'[cur']) = n + 1 /\ cur' = cur
      BY <1>1, <3>2, <3>3
    <3> QED
      BY <3>8, <3>9 DEF Kept, Planned, FilesOf, Secured, Sealed, Standing, RangeOf, Preserved, DataNamed, SourceGone, MayBeNamed
  <2>10. Written'
    BY <1>6 DEF Written
  <2>11. \A t \in Held' : Ages(t) \/ Kept(t, IntentOf(t), durable[t], Len(chain[t]))'
    BY <1>1, <2>7, <2>8, <2>9
  <2> QED
    BY <1>1, <1>3, <1>6, <2>6, <2>10, <2>11, SamePlanKInv
<1> QED
  BY <1>1, <1>5, <1>6

\* A fact synced.
LEMMA SyncFactKInv == ASSUME IInv, IInv', KInv, SyncFact PROVE KInv'
<1>1. /\ UNCHANGED <<rawVars, proof, chain, cur, src, plan, found, run>> /\ pc = "factsync"
      /\ run \notin {"up", "blocked"} /\ durable' = [durable EXCEPT ![cur] = Facts]
      /\ pc' = (CASE Facts = 1 -> "data" [] Facts = 2 -> "verify"
                  [] Facts = 3 -> IF run = "chains" THEN "recheck" ELSE "settled"
                  [] Facts = 4 -> "carrier" [] Facts = 5 -> "fact" [] Facts = 6 -> "settled")
  BY DEF SyncFact, At, Goto, workVars
<1>2. CInv /\ RInv /\ KRaw
  BY DEF IInv, KInv
<1>3. Working /\ plan # << >> /\ Facts \in 1..6 /\ cur \in Txs
  <2>1. Working
    BY <1>1, <1>2 DEF CInv, Types, Flow, Phases, Working, Settling
  <2> QED
    BY <1>1, <1>2, <2>1 DEF CInv, Flow, FactsFit, Types
<1>4. pc' \in {"data", "verify", "recheck", "settled", "carrier"} \/ (pc' = "fact" /\ Facts = 5)
  BY <1>1, <1>3
<1>5. pc' # "next" /\ Facts' = Facts
  BY <1>1, <1>4 DEF Facts
<1>6. Held' = Held /\ Journal' = Journal /\ \A t : IntentOf(t)' = IntentOf(t)
  BY <1>1, <1>5 DEF Held, Journal, IntentOf, intent
<1>7. \A t \in Txs : durable[t] \in Nat /\ durable'[t] \in Nat /\ durable[t] <= durable'[t]
  <2>1. durable \in [Txs -> Nat] /\ durable[cur] + 1 = Facts
    BY <1>1, <1>2, <1>3 DEF CInv, Types, Synced, Facts
  <2> QED
    BY <1>1, <1>3, <2>1
<1>8. Held \subseteq Txs /\ Journal \subseteq Txs
  BY <1>2, HeldFacts
<1>9. Lasts
  <2>1. \A t \in Txs : durable[t] >= 1 => durable'[t] >= 1
    BY <1>7
  <2> QED
    BY <1>1, <1>6, <1>8, <2>1 DEF Lasts
<1>10. \A t \in Held' : Ages(t)
  BY <1>1, <1>6, <1>7, <1>8 DEF Ages
<1>11. Written'
  BY <1>4, <1>5 DEF Written
<1> QED
  BY <1>1, <1>3, <1>5, <1>9, <1>10, <1>11, SamePlanKInv

\* The control stream has no raw bytes.
LEMMA CarrierStepKInv == ASSUME IInv, IInv', KInv, CarrierStep PROVE KInv'
<1>1. CInv /\ RInv /\ CarrierStays
  BY CarrierStepStays DEF IInv
<1>2. /\ UNCHANGED <<chain, durable, cur, src, plan, found>> /\ pc \in {"carrier", "restore", "restoresync"} /\ Working
      /\ \/ run' = "blocked" /\ pc' = pc
         \/ run' = run /\ pc' \in {"carrier", "restore", "restoresync", "fact"}
  BY <1>1 DEF CarrierStays, journalVars, workVars
<1>3. UNCHANGED rawVars /\ proof' = proof
  BY DEF CarrierStep, WriteCarrier, Acknowledge, RestoreData, SettleCoexistence, SettleNormalManifest,
         RestoreManifest, RestoreSync, AcceptCarrier, Goto, GotoIf, Block
<1>4. Facts = 4 /\ plan # << >> /\ Facts' = Facts
  BY <1>1, <1>2 DEF CInv, Flow, FactsFit, Facts
<1>5. Held' = Held /\ Journal' = Journal /\ \A t : IntentOf(t)' = IntentOf(t)
  BY <1>2, <1>4 DEF Held, Journal, IntentOf, intent
<1>6. Lasts /\ \A t \in Held' : Ages(t)
  BY <1>1, <1>2, <1>5, HeldFacts DEF Lasts, Ages
<1>7. Written'
  BY <1>2, <1>4 DEF Written
<1> QED
  BY <1>2, <1>3, <1>4, <1>6, <1>7, SamePlanKInv

\* A stop that leaves of each part what its syncs allow.
LEMMA StopKInv ==
    ASSUME IInv, IInv', KInv, StartsAgain, val' = val, \A p \in Parts : CalmAt(p) PROVE KInv'
<1>1. Lasts /\ \A t \in Held' : Ages(t)
  BY StopAges DEF IInv
<1>2. KRaw'
  BY <1>1, CalmKRaw DEF KInv
<1> QED
  BY <1>2 DEF KInv, Sighted, Working, Settling, StartsAgain

\* A kill, and a power loss.
LEMMA StopsKInv == ASSUME IInv, IInv', KInv, Kill \/ PowerLoss PROVE KInv'
<1>1. CInv /\ RInv
  BY DEF IInv
<1>2. CASE Kill
  <2>1. UNCHANGED <<rawVars, proof>>
    BY <1>2 DEF Kill, Begin, rawVars
  <2> QED
    BY <1>1, <1>2, <2>1, KillStarts, SameCalm, StopKInv
<1>3. CASE PowerLoss
  <2>1. data' \in [Parts -> DataStates] /\ \A p \in Parts : data'[p] \in dataImg[p]
    <3>1. data' \in Left(data, dataImg)
      BY <1>3 DEF PowerLoss
    <3> QED
      BY <1>1, <3>1, LeftFacts DEF RInv, RawTypes, Raw, PartSound
  <2>2. art' \in [Artifacts -> ArtifactStates] /\ \A a \in Artifacts : art'[a] \in artImg[a]
    <3>1. art' \in Left(art, artImg)
      BY <1>3 DEF PowerLoss
    <3> QED
      BY <1>1, <3>1, LeftFacts DEF RInv, RawTypes, Raw
  <2>3. /\ dataImg' = [p \in Parts |-> {data'[p]}] /\ artImg' = [a \in Artifacts |-> {art'[a]}]
        /\ bytes' = bytes /\ val' = val /\ proof' = proof
    BY <1>3 DEF PowerLoss, Begin
  <2>4. \A p \in Parts : CalmAt(p)
    BY <2>1, <2>2, <2>3 DEF CalmAt
  <2> QED
    BY <1>1, <1>3, <2>3, <2>4, PowerLossStarts, StopKInv
<1> QED
  BY <1>2, <1>3

\* The retention job has a proof, or none, of each part.
Proofs == proof \in [Parts -> {"none", "intent", "tombstone"}]

\* No other step changes one.
LEMMA ProofsStay == ASSUME Proofs, [Next]_vars PROVE Proofs'
<1>1. ASSUME SourceStep PROVE proof' = proof
  BY <1>1 DEF SourceStep, SourceLease, TakeLease, DestinationLease, PlanResumed, SkipData, PublishRange, PrepareRange,
       PublishStream, AcceptRange, PublishManifest, PublishQuarantine, PublishArtifact, WriteArtifact, AcceptArtifact,
       VerifyArtifacts, SettleSource, RecheckChain, Goto, GotoIf, Block
<1>2. ASSUME CarrierStep PROVE proof' = proof
  BY <1>2 DEF CarrierStep, WriteCarrier, Acknowledge, RestoreData, SettleCoexistence, SettleNormalManifest,
         RestoreManifest, RestoreSync, AcceptCarrier, Goto, GotoIf, Block
<1>3. ASSUME Between PROVE proof' = proof
  BY <1>3 DEF Between, LoadJournal, NextChain, DiscoverManifests, DiscoverUnbound, NextSource, PlanFresh,
              Settled, Admit, Advance
<1>4. ASSUME TempStep \/ PublishFact \/ SyncFact \/ Kill \/ PowerLoss \/ UNCHANGED vars PROVE proof' = proof
  BY <1>4 DEF TempStep, SettleTemporary, PublishTemporary, SyncTemporary, PublishFact, SyncFact, Kill, PowerLoss,
              Begin, Goto, Block, vars
<1>5. ASSUME NEW p \in Parts, RemoveData(p) PROVE Proofs'
  BY <1>5 DEF RemoveData, Proofs
<1> QED
  BY <1>1, <1>2, <1>3, <1>4, <1>5 DEF Proofs, Next, Process, SourceStep, CarrierStep, Between, TempStep

\* A part is always vouched for by a proof of a known kind, or not at all.
LEMMA ProofsAlways == Spec => []Proofs
<1>1. Init => Proofs
  BY LeftoverAssumption DEF Init, Proofs
<1> QED
  BY <1>1, ProofsStay, PTL DEF Spec

\* A manifest that the writer was at has its data under its final name, and is no plan's.
LEMMA WritersOwn ==
    ASSUME IInv, KInv, NEW p \in WriterTemporaries
    PROVE  /\ p \in Parts /\ Temporary(p) /\ \A t \in Held : p \notin PartsOf(IntentOf(t))
<1>1. /\ p \in Parts /\ art[ManifestOf(p)] \in {"temp", "both"} /\ val[ManifestOf(p)].by = 0
  BY DEF WriterTemporaries
<1>2. art[ManifestOf(p)] \in artImg[ManifestOf(p)]
  BY <1>1, ArtifactParts DEF IInv, RInv, Raw
<1>3. ~Sealed(p)
  BY <1>1, <1>2 DEF Sealed
<1> QED
  BY <1>1, <1>3 DEF KInv, KRaw, Kept, Secured

\* Such a manifest gets its final name, or keeps only that.
LEMMA NameKInv ==
    ASSUME IInv, IInv', KInv, pc = "next", pc' = "next", UNCHANGED <<chain, durable, cur, plan, proof, val>>,
           run' = "syncing", NEW p \in WriterTemporaries, NEW s \in {"both", "final"}, SetArt(ManifestOf(p), s)
    PROVE  KInv'
<1>1. p \in Parts /\ Temporary(p) /\ \A t \in Held : p \notin PartsOf(IntentOf(t))
  BY WritersOwn
<1>2. /\ Held' = Journal /\ Held = Journal /\ Journal' = Journal /\ \A t : IntentOf(t)' = IntentOf(t)
  BY DEF Held, Journal, IntentOf, intent
<1>3. PICK m : m = ManifestOf(p)
  OBVIOUS
<1>4. /\ data' = data /\ dataImg' = dataImg /\ bytes' = bytes /\ art'[m] = s /\ artImg'[m] = artImg[m] \cup {s}
      /\ m \in Artifacts /\ m[3] = p
      /\ \A x \in Artifacts \ {m} : art'[x] = art[x] /\ artImg'[x] = artImg[x]
  BY <1>1, <1>3, ArtifactParts DEF SetArt, IInv, RInv, RawTypes
<1>5. \A r \in Parts \ {p} : CalmAt(r)
  BY <1>3, <1>4 DEF CalmAt, IInv, RInv, Raw, PartSound
<1>6. Temporary(p)'
  BY <1>1, <1>3, <1>4 DEF Temporary, AllFrames
<1>7. Free(p)' => AsLeft(p)'
  <2>1. SUFFICES ASSUME Free(p)' PROVE AsLeft(p)'
    OBVIOUS
  <2>2. AsLeft(p)
    BY <1>1, <1>2, <2>1 DEF Free, KInv, KRaw
  <2>3. val[m] = RecoveryManifest(0, bytes[p]) /\ Size(bytes[p]) > 0 /\ "absent" \notin dataImg[p]
    <3>1. bytes[p].frames \in Nat
      BY <1>1 DEF IInv, RInv, RawTypes
    <3> QED
      BY <1>1, <1>3, <3>1 DEF Temporary, AllFrames, Size
  <2>4. ASSUME NEW k \in {"partial", "final"} PROVE ~MayBeNamed(BadTail(<<k, p>>))' /\ ~MayBeNamed(Whole(<<k, p>>))'
    <3>1. /\ BadTail(<<k, p>>) \in Artifacts \ {m} /\ Whole(<<k, p>>) \in Artifacts \ {m}
      BY <1>1, <1>3, ArtifactParts, ManifestNames DEF BadTail, Whole
    <3>2. ~MayBeNamed(BadTail(<<k, p>>)) /\ ~MayBeNamed(Whole(<<k, p>>))
      BY <2>2 DEF AsLeft
    <3> QED
      BY <1>4, <3>1, <3>2 DEF MayBeNamed
  <2> QED
    BY <1>3, <1>4, <2>2, <2>3, <2>4 DEF AsLeft
<1>8. Lasts /\ \A t \in Held' : Ages(t) /\ PartsOf(IntentOf(t)) \cap {p} = {}
  BY <1>1, <1>2, HeldFacts DEF Lasts, Ages, IInv
<1>9. val' = [a \in Artifacts |-> val'[a]]
  BY DEF KInv, KRaw
<1>10. KRaw'
  BY <1>5, <1>6, <1>7, <1>8, <1>9, StepKRaw DEF KInv
<1> QED
  BY <1>10 DEF KInv, Sighted

\* The bytes stay while the writer's manifest temporaries are settled.
LEMMA TempStepKInv == ASSUME IInv, IInv', KInv, TempStep PROVE KInv'
<1>1. /\ pc = "next" /\ pc' = "next" /\ UNCHANGED <<chain, durable, cur, plan, proof>>
      /\ run' \in {"temporaries", "naming", "syncing", "blocked"}
  BY DEF TempStep, SettleTemporary, PublishTemporary, SyncTemporary, At, journalVars, workVars
<1>2. CASE UNCHANGED rawVars \/ SyncRaw
  <2>1. val' = val /\ \A r \in Parts : CalmAt(r)
    BY <1>1, <1>2, SameCalm, SyncCalm DEF SyncRaw
  <2>2. Held' = Journal
    BY <1>1 DEF Held, Journal
  <2>3. Lasts /\ \A t \in Held' : Ages(t)
    BY <1>1, <2>2, JournalAges, HeldFacts DEF IInv
  <2>4. KRaw'
    BY <2>1, <2>3, CalmKRaw DEF KInv
  <2> QED
    BY <1>1, <2>4 DEF KInv, Sighted
<1>3. ASSUME NEW s \in {"both", "final"}, NEW p \in WriterTemporaries, SetArt(ManifestOf(p), s), UNCHANGED val,
             run' = "syncing"
      PROVE  KInv'
  BY <1>1, <1>3, NameKInv
<1>4. CASE PublishTemporary
  <2>1. PICK p \in Parts : p = Min(WriterTemporaries) /\ art[ManifestOf(p)] = "temp" /\ val[ManifestOf(p)].by = 0
    BY <1>4 DEF PublishTemporary, IInv, Naming
  <2>2. p \in WriterTemporaries
    BY <2>1 DEF WriterTemporaries
  <2>3. PICK s \in {"both", "final"} : SetArt(ManifestOf(p), s)
    BY <1>4, <2>1 DEF PublishTemporary, Published
  <2> QED
    BY <1>3, <1>4, <2>2, <2>3 DEF PublishTemporary
<1>5. CASE SettleTemporary
  <2>1. PICK p : p = Min(WriterTemporaries) /\ p \in WriterTemporaries
    BY <1>5, NextTemporary DEF SettleTemporary
  <2> QED
    BY <1>2, <1>3, <1>5, <2>1 DEF SettleTemporary
<1> QED
  BY <1>2, <1>4, <1>5 DEF TempStep, SyncTemporary

\* The retention job takes the data of a finished part, and vouches for it.
LEMMA RemoveDataKInv == ASSUME IInv, IInv', KInv, Proofs, NEW p \in Parts, RemoveData(p) PROVE KInv'
<1>1. /\ run = "up" /\ run' = run /\ pc' = pc /\ UNCHANGED <<chain, durable, cur, src, plan, bytes, art, artImg, val>>
      /\ data' = [data EXCEPT ![p] = "absent"] /\ dataImg' = [dataImg EXCEPT ![p] = {"absent"}]
      /\ artImg[ManifestOf(p)] = {"final"} /\ proof[p] = "none" /\ proof' = [proof EXCEPT ![p] = "tombstone"]
  BY DEF RemoveData, journalVars, workVars
<1>2. CInv /\ RInv /\ KRaw
  BY DEF IInv, KInv
<1>3. pc = "next" /\ Held = Journal /\ Held' = Held /\ Journal' = Journal /\ \A t : IntentOf(t)' = IntentOf(t)
  BY <1>1, <1>2 DEF CInv, Flow, Held, Journal, IntentOf, intent
<1>4. /\ data'[p] = "absent" /\ dataImg'[p] = {"absent"} /\ proof'[p] # "none"
      /\ \A q \in Parts \ {p} : data'[q] = data[q] /\ dataImg'[q] = dataImg[q] /\ proof'[q] = proof[q]
  BY <1>1, <1>2 DEF RInv, RawTypes, Proofs
<1>5. \A a : MayBeNamed(a)' <=> MayBeNamed(a)
  BY <1>1 DEF MayBeNamed
<1>6. Lasts /\ \A t \in Held' : Ages(t)
  BY <1>1, <1>2, <1>3, HeldFacts DEF Lasts, Ages
<1>7. \A q \in Parts \ {p} : CalmAt(q)
  BY <1>1, <1>2, <1>4 DEF CalmAt, RInv, Raw, PartSound
<1>8. \A q \in Parts : Sealed(q) => Sealed(q)'
  BY <1>1 DEF Sealed
<1>a. Sealed(p)'
  BY <1>1 DEF Sealed
<1>9. Free(p)' => AsLeft(p)'
  <2>1. Free(p)' => Free(p)
    BY <1>1, <1>3 DEF Free
  <2>2. MayBeNamed(ManifestOf(p))
    BY <1>1, <1>2, ManifestNames DEF MayBeNamed, Named, RInv, Raw
  <2> QED
    BY <1>1, <1>2, <1>4, <1>5, <2>1, <2>2 DEF KRaw, AsLeft
<1>10. ASSUME NEW t \in Held', ~(Ages(t) /\ PartsOf(IntentOf(t)) \cap {p} = {})
       PROVE  Kept(t, IntentOf(t), durable[t], Len(chain[t]))'
  <2>1. PICK i : i = IntentOf(t)
    OBVIOUS
  <2>2. durable[t] = 6 /\ Len(chain[t]) = 6
    <3>1. t \in Txs /\ Len(chain[t]) = 6
      BY <1>1, <1>2, <1>3 DEF CInv, Accounted, Journal
    <3> QED
      BY <1>1, <1>2, <1>3, <3>1 DEF CInv, Synced
  <2>3. Kept(t, i, 6, 6) /\ Shape(i)
    BY <1>2, <1>3, <2>1, <2>2 DEF KRaw, RInv, Raw
  <2>4. /\ Planned(t, i) /\ FilesOf(i) /\ Secured(i) /\ SourceGone(i) /\ (Missing(i) \/ Preserved(i))
        /\ PartsOf(i) \subseteq Parts /\ i.source[2] \in Parts /\ (Present(i.data) => i.data[1] \in Parts)
    BY <2>3, PlanFiles DEF Kept, Shape
  <2>5. Missing(i) => i.source[2] # p
    BY <1>1, <2>4 DEF FilesOf
  <2>6. FilesOf(i)'
    BY <1>1, <1>4, <1>5, <2>4, <2>5 DEF FilesOf
  <2>7. SourceGone(i)'
    <3>1. CASE i.source[2] = p
      BY <1>4, <3>1 DEF SourceGone, NamedStates
    <3>2. CASE i.source[2] # p
      BY <1>4, <2>4, <3>2 DEF SourceGone
    <3> QED
      BY <3>1, <3>2
  <2>8. Missing(i) \/ Preserved(i)'
    <3>1. CASE Present(i.data) /\ i.data[1] = p
      BY <1>1, <1>4, <2>4, <3>1 DEF Preserved
    <3>2. CASE ~(Present(i.data) /\ i.data[1] = p)
      BY <1>1, <1>4, <2>4, <3>2 DEF Preserved
    <3> QED
      BY <3>1, <3>2
  <2>9. Kept(t, i, 6, 6)'
    <3>1. Secured(i)'
      BY <1>8, <2>4 DEF Secured
    <3> QED
      BY <2>4, <2>6, <2>7, <2>8, <3>1 DEF Kept, Planned
  <2>10. i = IntentOf(t)' /\ durable'[t] = 6 /\ Len(chain'[t]) = 6
    BY <1>1, <1>3, <2>1, <2>2
  <2> QED
    BY <2>9, <2>10 DEF Kept, Planned, FilesOf, Secured, Sealed, Standing, RangeOf, Preserved, DataNamed, SourceGone, MayBeNamed
<1>11. val' = [a \in Artifacts |-> val'[a]]
  BY <1>1, <1>2 DEF KRaw
<1>12. KRaw'
  BY <1>2, <1>6, <1>7, <1>a, <1>9, <1>10, <1>11, StepKRaw
<1> QED
  BY <1>1, <1>12 DEF KInv, Sighted, Working, Settling

\* What the writer leaves has its bytes.
LEMMA KInitially == ASSUME Init PROVE KInv
<1>1. PICK left, manifest : LeftBy(left, manifest)
  BY LeftAsFound
<1>0. left \in Leftovers
  BY <1>1 DEF LeftBy
<1>2. /\ chain = [t \in Txs |-> << >>]
      /\ val = [a \in Artifacts |-> RecoveryManifest(0, bytes[a[3]])]
      /\ run = "load" /\ pc = "next" /\ plan = << >>
  BY DEF Init
<1>3. Held = {} /\ Journal = {}
  BY <1>2 DEF Held, Journal
<1>4. ASSUME NEW a \in Artifacts, a[1] # "manifest" PROVE ~MayBeNamed(a)
  BY <1>1, <1>4 DEF LeftBy, MayBeNamed, Named
<1>5. ASSUME NEW p \in Parts PROVE (Sealed(p) \/ Temporary(p)) /\ AsLeft(p)
  <2>1. PICK m : m = ManifestOf(p)
    OBVIOUS
  <2>2. m \in Artifacts /\ m[3] = p /\ m[1] = "manifest"
    BY <2>1, ManifestNames DEF ManifestOf
  <2>3. art[m] = manifest[p].names /\ artImg[m] = manifest[p].images
    BY <1>1, <2>2 DEF LeftBy
  <2>4. val[m] = RecoveryManifest(0, bytes[p])
    BY <1>2, <2>2
  <2>5. ASSUME NEW k \in {"partial", "final"} PROVE ~MayBeNamed(BadTail(<<k, p>>)) /\ ~MayBeNamed(Whole(<<k, p>>))
    <3>1. /\ BadTail(<<k, p>>) \in Artifacts /\ Whole(<<k, p>>) \in Artifacts
          /\ BadTail(<<k, p>>)[1] # "manifest" /\ Whole(<<k, p>>)[1] # "manifest"
      BY ArtifactParts DEF BadTail, Whole
    <3> QED
      BY <1>4, <3>1
  <2>6. CASE p \notin Sources
    <3>1. data[p] = "absent" /\ dataImg[p] = {"absent"} /\ Size(bytes[p]) = 0
      BY <1>1, <2>6 DEF Size, Bytes, LeftBy
    <3>2. artImg[m] = {"absent"}
      BY <1>1, <2>3, <2>6 DEF LeftBy, Manifest
    <3>3. ~MayBeNamed(m) /\ Sealed(p)
      BY <2>1, <3>2 DEF MayBeNamed, Named, Sealed
    <3> QED
      BY <2>1, <2>4, <2>5, <3>1, <3>3 DEF AsLeft
  <2>7. CASE p \in Sources
    <3>1. /\ data[p] = left[p].names /\ dataImg[p] = left[p].images /\ bytes[p] = left[p].bytes
          /\ art[m] = left[p].manifest.names /\ artImg[m] = left[p].manifest.images
      BY <1>1, <2>3, <2>7 DEF LeftBy
    <3>2. /\ artImg[m] = {"final"} => MayBeNamed(m)
          /\ MayBeNamed(m) => art[m] # "absent"
      BY <1>0, <2>7, <3>1, LeftoverAssumption DEF MayBeNamed, Named
    <3>3. /\ "short" \notin dataImg[p]
          /\ data[p] = "absent" => dataImg[p] = {"absent"}
          /\ "absent" \in dataImg[p] => MayBeNamed(m) \/ Size(bytes[p]) = 0
          /\ MayBeNamed(m) => Size(bytes[p]) > 0
          /\ data[p] = "both" => "final" \notin dataImg[p]
          /\ data[p] = "final" => "partial" \notin dataImg[p]
      BY <1>0, <2>7, <3>1, <3>2, LeftoverAssumption
    <3>4. \/ artImg[m] \in {{"absent"}, {"final"}}
          \/ /\ dataImg[p] = {"final"} /\ bytes[p].frames > 0 /\ bytes[p].tail = 0
             /\ art[m] = "absent" => artImg[m] = {"absent"}
      BY <1>0, <2>7, <3>1, LeftoverAssumption
    <3>5. Sealed(p) \/ Temporary(p)
      BY <2>1, <2>4, <3>4 DEF Sealed, Temporary, AllFrames
    <3> QED
      BY <2>1, <2>4, <2>5, <3>3, <3>5 DEF AsLeft
  <2> QED
    BY <2>6, <2>7
<1>6. KRaw
  BY <1>2, <1>3, <1>5 DEF KRaw
<1> QED
  BY <1>2, <1>6 DEF KInv, Sighted, Working, Settling

\* Each step of each start keeps the bytes where the plans say they are.
THEOREM KInvAlways == Spec => []KInv
<1>1. Init => KInv
  BY KInitially
<1>2. IInv /\ IInv' /\ KInv /\ Proofs /\ [Next]_vars => KInv'
  <2>1. SUFFICES ASSUME IInv, IInv', KInv, Proofs, [Next]_vars PROVE KInv'
    OBVIOUS
  <2>2. CASE SourceStep
    BY <2>1, <2>2, LeasesKInv, ChecksKInv, PublishRangeKInv, PublishArtifactsKInv, VerifyKInv, SettleSourceKInv
       DEF SourceStep
  <2>3. CASE CarrierStep
    BY <2>1, <2>3, CarrierStepKInv
  <2>4. CASE Between
    BY <2>1, <2>4, LoadJournalKInv, NextChainKInv, SearchKInv, PhasesKInv, PlanFreshKInv DEF Between
  <2>10. CASE TempStep
    BY <2>1, <2>10, TempStepKInv
  <2>5. CASE PublishFact
    BY <2>1, <2>5, PublishFactKInv
  <2>6. CASE SyncFact
    BY <2>1, <2>6, SyncFactKInv
  <2>7. CASE Kill \/ PowerLoss
    BY <2>1, <2>7, StopsKInv
  <2>8. ASSUME NEW p \in Parts, RemoveData(p) PROVE KInv'
    BY <2>1, <2>8, RemoveDataKInv
  <2>9. CASE UNCHANGED vars
    <3>1. UNCHANGED <<rawVars, proof, chain, durable, run, pc, cur, src, plan, found>>
      BY <2>9 DEF vars, journalVars, workVars
    <3>2. /\ Held' = Held /\ Journal' = Journal /\ \A t : IntentOf(t)' = IntentOf(t)
          /\ Facts' = Facts /\ intent' = intent
      BY <3>1 DEF Held, Journal, IntentOf, intent, Facts
    <3>3. val' = val /\ \A p \in Parts : CalmAt(p)
      BY <2>1, <3>1, SameCalm
    <3>4. Lasts /\ \A t \in Held' : Ages(t)
      BY <2>1, <3>1, <3>2, HeldFacts DEF Lasts, Ages, IInv
    <3>5. KRaw'
      BY <2>1, <3>3, <3>4, CalmKRaw DEF KInv
    <3>6. Sighted'
      <4>1. WriterTemporaries' = WriterTemporaries
        BY <3>1 DEF WriterTemporaries, rawVars
      <4> QED
        BY <2>1, <3>1, <4>1 DEF KInv, Sighted, Working, Settling, AsFound, rawVars
    <3>7. Working' /\ pc' # "next" => Written'
      BY <2>1, <3>1, <3>2 DEF KInv, Working, Settling, Written, Preserved, DataNamed, SourceGone, SourcePresent, rawVars
    <3> QED
      BY <3>5, <3>6, <3>7 DEF KInv
  <2> QED
    BY <2>1, <2>2, <2>3, <2>4, <2>5, <2>6, <2>7, <2>8, <2>9, <2>10
       DEF Next, Process, SourceStep, CarrierStep, Between, TempStep
<1> QED
  BY <1>1, <1>2, IInvAlways, ProofsAlways, PTL DEF Spec

\* No byte that a process left behind is lost, over any number of starts, kills and
\* power losses: as long as a power loss may take the last name of a part, a fact that
\* it cannot take says where each of its bytes is, and they are there
\* (recovery.py: _settle_discovered_source unlinks only after _verify_artifacts_durable).
THEOREM BytesAlwaysKept == Spec => []BytesKept
<1>1. IInv /\ KInv => BytesKept
  <2>1. SUFFICES ASSUME IInv, KInv, NEW p \in Parts, Size(bytes[p]) # 0, "absent" \in dataImg[p]
                 PROVE  \/ Named(art[ManifestOf(p)]) /\ val[ManifestOf(p)].by = 0
                        \/ \E t \in Journal : p \in PartsOf(chain[t][1]) /\ durable[t] >= 2 /\ Preserved(chain[t][1])
    BY DEF BytesKept
  <2>2. CInv /\ RInv /\ KRaw /\ PartSound(p)
    BY <2>1 DEF IInv, KInv, RInv, Raw
  <2>3. CASE Free(p)
    <3>1. AsLeft(p)
      BY <2>2, <2>3 DEF KRaw
    <3>2. MayBeNamed(ManifestOf(p)) /\ val[ManifestOf(p)] = RecoveryManifest(0, bytes[p])
      BY <2>1, <3>1 DEF AsLeft
    <3> QED
      BY <2>2, <3>2 DEF PartSound, RecoveryManifest
  <2>4. CASE ~Free(p)
    <3>1. PICK t \in Journal : durable[t] >= 1 /\ p \in PartsOf(chain[t][1])
      BY <2>4 DEF Free
    <3>2. PICK i, n : i = chain[t][1] /\ n = durable[t]
      OBVIOUS
    <3>3. /\ t \in Txs /\ t \in Held /\ IntentOf(t) = i /\ n \in Nat /\ Len(chain[t]) \in Nat
          /\ n = Len(chain[t]) \/ n + 1 = Len(chain[t])
      BY <2>2, <3>2, HeldFacts
    <3>4. Shape(i) /\ Kept(t, i, n, Len(chain[t]))
      BY <2>2, <3>2, <3>3 DEF RInv, Raw, KRaw
    <3>5. Planned(t, i) /\ FilesOf(i)
      BY <3>4 DEF Kept
    <3>6. CASE Missing(i)
      <4>1. i.man[2].by = 0 /\ Present(i.man) /\ i.man[1] = ManifestOf(i.source[2]) /\ i.source[2] = p
        BY <3>1, <3>2, <3>4, <3>5, <3>6, PlannedKinds DEF Missing, PartsOf
      <4>2. MayBeNamed(ManifestOf(p)) /\ val[ManifestOf(p)] = i.man[2]
        BY <3>5, <4>1 DEF FilesOf
      <4> QED
        BY <2>2, <4>1, <4>2 DEF PartSound
    <3>7. CASE ~Missing(i) /\ n >= 2
      <4>1. Preserved(i)
        BY <3>3, <3>4, <3>7 DEF Kept
      <4> QED
        BY <3>1, <3>2, <3>7, <4>1
    <3>8. CASE ~Missing(i) /\ n = 1
      <4>1. Standing(i) /\ RangeOf(i) /\ bytes[i.source[2]] = i.bytes
        BY <3>4, <3>5, <3>8 DEF Kept, FilesOf
      <4>2. CASE p = i.source[2]
        <5>1. ~(Prefix(i) \/ Quarantine(i))
          BY <2>1, <4>1, <4>2 DEF Standing
        <5>2. InPlace(i)
          BY <3>4, <3>8, <5>1 DEF Shape
        <5> QED
          BY <2>1, <4>1, <4>2, <5>2 DEF InPlace, Standing, NamedStates
      <4>3. CASE p # i.source[2]
        <5>1. Present(i.data) /\ p = i.data[1]
          BY <3>1, <3>2, <4>3 DEF PartsOf
        <5>2. Prefix(i)
          BY <3>4, <3>8, <4>3, <5>1 DEF Shape, InPlace, Quarantine
        <5> QED
          BY <2>1, <4>1, <5>1, <5>2 DEF RangeOf
      <4> QED
        BY <4>2, <4>3
    <3>9. n >= 1
      BY <3>1, <3>2
    <3> QED
      BY <3>3, <3>6, <3>7, <3>8, <3>9
  <2> QED
    BY <2>3, <2>4
<1> QED
  BY <1>1, IInvAlways, KInvAlways, PTL
-----------------------------------------------------------------------------
(* The inductive invariant: the checks of a start *)

\* What the journal has passed its checks when it was written.
Bound == \A t \in Journal : ChainBound(chain[t])

\* Artifacts that the step at hand takes for written
Ready ==
    /\ pc \in {"quarantine", "quarantinename", "quarantinesync"} \/ (pc = "verify" /\ Facts = 1) =>
          /\ Present(intent.man) => Named(art[intent.man[1]])
          /\ Present(intent.data) => Named(data[intent.data[1]])
    /\ pc = "verify" /\ Facts = 1 /\ Present(intent.quar) => Named(art[intent.quar[1]])

\* A carrier's manifest comes after its data is named for good, the data after the row.
Filled == {"partial", "both", "final"}
CarrierFiles ==
    \A k \in Carriers :
        /\ cmanImg[k] # {"absent"} => ctlImg[k] = {"final"}
        /\ ctlImg[k] \cap Filled # {} => row[k] # {}

\* Frames and a rest are all that is known of a file.
Contents == \A p \in Parts : bytes[p] = Bytes(bytes[p].frames, bytes[p].tail)

BInv ==
    /\ Bound /\ CarrierFiles /\ Contents
    /\ Working /\ pc # "next" => Ready
    /\ BlockedForCause
-----------------------------------------------------------------------------
(* The journal and the carriers pass their checks *)

\* Each check of a chain is one of a beginning of it.
LEMMA BoundPrefix ==
    ASSUME NEW c, NEW s, IsChain(c), IsChain(s), Len(s) >= 1, Len(s) <= Len(c),
           \A k \in 1..Len(s) : s[k] = c[k], ChainBound(c)
    PROVE  ChainBound(s)
<1>1. Len(c) \in 0..6 /\ Len(s) \in 0..6
  BY ChainFacts
<1>2. PICK l, n : l = Len(s) /\ n = Len(c)
  OBVIOUS
<1>3. /\ s[1] = c[1] /\ (l >= 2 => n >= 2 /\ s[2] = c[2]) /\ (l >= 3 => n >= 3 /\ s[3] = c[3])
      /\ (l >= 4 => n >= 4 /\ s[4] = c[4]) /\ (l >= 5 => n >= 5 /\ s[5] = c[5] /\ s[4] = c[4])
      /\ (l >= 6 => n >= 6 /\ s[6] = c[6])
  <2>1. l \in 1..6 /\ n \in 1..6 /\ l <= n
    BY <1>1, <1>2
  <2>2. \A k \in 1..6 : l >= k => n >= k /\ k \in 1..l
    BY <2>1
  <2> QED
    BY <1>2, <2>1, <2>2
<1> QED
  BY <1>2, <1>3 DEF ChainBound

\* So no stop makes the journal fail them.
LEMMA StopBound == ASSUME IInv, Bound, StartsAgain PROVE Bound'
<1>1. SUFFICES ASSUME NEW t \in Journal' PROVE ChainBound(chain'[t])
  BY DEF Bound
<1>2. CInv
  BY DEF IInv
<1>3. t \in Txs
  BY DEF Journal
<1>4. /\ IsChain(chain'[t]) /\ Len(chain'[t]) \in {durable[t], Len(chain[t])}
      /\ \A i \in 1..Len(chain'[t]) : chain'[t][i] = chain[t][i]
  BY <1>3 DEF StartsAgain
<1>5. Len(chain'[t]) \in 0..6 /\ Len(chain'[t]) >= 1
  BY <1>1, <1>4, ChainFacts DEF Journal
<1>6. Len(chain[t]) \in 0..6 /\ IsChain(chain[t]) /\ durable[t] \in Nat
      /\ (durable[t] = Len(chain[t]) \/ durable[t] + 1 = Len(chain[t]))
  BY <1>2, <1>3, LengthsNow DEF CInv, Types, Synced
<1>7. Len(chain'[t]) <= Len(chain[t])
  BY <1>4, <1>5, <1>6
<1>8. t \in Journal
  BY <1>2, <1>3, <1>5, <1>6, <1>7, LengthsNow
<1> QED
  BY <1>4, <1>5, <1>6, <1>7, <1>8, BoundPrefix DEF Bound

\* Nor does any other step.
LEMMA BoundStays == ASSUME IInv, Bound, [Next]_vars PROVE Bound'
<1>1. CInv
  BY DEF IInv
<1>2. ASSUME chain' = chain PROVE Bound'
  BY <1>2 DEF Bound, Journal
<1>3. CASE SourceStep \/ CarrierStep
  BY <1>1, <1>2, <1>3, SourceStepStays, CarrierStepStays DEF Stays, CarrierStays, journalVars
<1>4. CASE Between
  BY <1>2, <1>4 DEF Between, LoadJournal, NextChain, DiscoverManifests, DiscoverUnbound, NextSource, PlanFresh, Settled, Admit, Advance,
     journalVars
<1>5. CASE PublishFact
  <2>1. \/ chain' = chain
        \/ /\ ChainBound(Append(chain[cur], NextFact))
           /\ chain' = [chain EXCEPT ![cur] = Append(chain[cur], NextFact)]
    BY <1>5 DEF PublishFact
  <2>2. CASE /\ ChainBound(Append(chain[cur], NextFact))
             /\ chain' = [chain EXCEPT ![cur] = Append(chain[cur], NextFact)]
    <3>1. chain'[cur] = Append(chain[cur], NextFact) /\ \A t \in Txs : t # cur => chain'[t] = chain[t]
      BY <1>1, <2>2 DEF CInv, Types
    <3>2. ChainBound(chain'[cur])
      BY <2>2, <3>1
    <3> QED
      BY <3>1, <3>2 DEF Bound, Journal
  <2> QED
    BY <1>2, <2>1, <2>2
<1>6. CASE SyncFact
  BY <1>2, <1>6 DEF SyncFact
<1>7. CASE Kill
  BY <1>1, <1>7, KillStarts, StopBound
<1>8. CASE PowerLoss
  BY <1>1, <1>8, PowerLossStarts, StopBound
<1>9. ASSUME NEW p \in Parts, RemoveData(p) PROVE Bound'
  BY <1>2, <1>9 DEF RemoveData, journalVars
<1>10. CASE UNCHANGED vars
  BY <1>2, <1>10 DEF vars, journalVars
<1>11. CASE TempStep
  BY <1>2, <1>11, TempStepSettles DEF journalVars
<1> QED
  BY <1>3, <1>4, <1>5, <1>6, <1>7, <1>8, <1>9, <1>10, <1>11 DEF Next, Process, SourceStep, CarrierStep, Between, TempStep

\* A manifest of a carrier is written and named after the carrier's data is.
LEMMA CarrierStepFiles == ASSUME CInv, CarrierFiles, CarrierStep PROVE CarrierFiles'
<1>1. Control /\ Types /\ CarrierStays
  BY CarrierStepStays DEF CInv
<1>2. PICK k : k = carrier
  OBVIOUS
<1>3. k \in Carriers /\ cur \in Txs
  <2>1. Facts = 4 /\ cur \in Txs
    BY <1>1 DEF CarrierStays, CInv, Flow, FactsFit, Types
  <2>a. cur \in Journal <=> Len(chain[cur]) >= 1
    BY <2>1, LengthsNow
  <2>2. cur \in Journal /\ Len(chain[cur]) >= 4
    BY <2>1, <2>a DEF Facts
  <2> QED
    BY <1>1, <1>2, <2>1, <2>2 DEF Control, carrier
<1>4. ctl[k] \in ctlImg[k] /\ cman[k] \in cmanImg[k] /\ \A j \in Carriers : ctl[j] \in ctlImg[j] /\ cman[j] \in cmanImg[j]
  BY <1>1, <1>3 DEF Control
<1>5. /\ cmanImg[k] # {"absent"} => ctlImg[k] = {"final"}
      /\ ctlImg[k] \cap Filled # {} => row[k] # {}
  BY <1>3 DEF CarrierFiles
<1>6. ASSUME NEW st, SetCtl(k, st), ctl[k] # "final" \/ st = "final", st \in Filled => ctl[k] \in Filled PROVE CarrierFiles'
  <2>1. /\ cmanImg' = cmanImg /\ row' = row /\ ctlImg'[k] = ctlImg[k] \cup {st}
        /\ \A j \in Carriers \ {k} : ctlImg'[j] = ctlImg[j]
    BY <1>1, <1>3, <1>6 DEF SetCtl, Types
  <2>2. cmanImg[k] # {"absent"} => ctlImg'[k] = {"final"}
    BY <1>4, <1>5, <1>6, <2>1
  <2>3. ctlImg'[k] \cap Filled # {} => row[k] # {}
    BY <1>4, <1>5, <1>6, <2>1
  <2> QED
    BY <2>1, <2>2, <2>3 DEF CarrierFiles
<1>7. ASSUME NEW st, SetCman(k, st), ctlImg[k] = {"final"} PROVE CarrierFiles'
  <2>1. /\ ctlImg' = ctlImg /\ row' = row /\ \A j \in Carriers \ {k} : cmanImg'[j] = cmanImg[j]
    BY <1>1, <1>3, <1>7 DEF SetCman, Types
  <2> QED
    BY <1>7, <2>1 DEF CarrierFiles
<1>8. ASSUME FillCarrier, ctl[k] = "short" PROVE CarrierFiles'
  <2>1. /\ cmanImg' = cmanImg /\ ctlImg'[k] = {"partial"} /\ row'[k] = {cur}
        /\ \A j \in Carriers \ {k} : ctlImg'[j] = ctlImg[j] /\ row'[j] = row[j]
    BY <1>1, <1>2, <1>3, <1>8 DEF FillCarrier, Types
  <2>2. cmanImg[k] = {"absent"}
    BY <1>4, <1>5, <1>8
  <2> QED
    BY <2>1, <2>2 DEF CarrierFiles
<1>9. ASSUME SyncControl PROVE CarrierFiles'
  <2>1. row' = row /\ \A j \in Carriers : ctlImg'[j] = {ctl[j]} /\ cmanImg'[j] = {cman[j]}
    BY <1>9 DEF SyncControl
  <2> QED
    BY <1>4, <2>1 DEF CarrierFiles, Filled
<1>10. ASSUME UNCHANGED controlVars PROVE CarrierFiles'
  BY <1>10 DEF controlVars, CarrierFiles
<1>11. cman[k] # "absent" => ctlImg[k] = {"final"}
  BY <1>4, <1>5
<1>12. CASE WriteCarrier
  <2>1. \/ ctl[k] = "absent" /\ SetCtl(k, "short")
        \/ ctl[k] = "short" /\ FillCarrier
        \/ ctl[k] = "partial" /\ SetCtl(k, "both")
        \/ SyncControl
        \/ ctlImg[k] = {"both"} /\ SetCtl(k, "final")
        \/ ctlImg[k] = {"final"} /\ SetCman(k, "ntorn")
        \/ cman[k] # "absent" /\ \E st : SetCman(k, st)
    <3>1. cmanImg[k] = {"nboth"} => cman[k] # "absent"
      BY <1>4
    <3> QED
      BY <1>2, <1>12, <3>1 DEF WriteCarrier
  <2>2. ctlImg[k] = {"both"} => ctl[k] = "both"
    BY <1>4
  <2> QED
    BY <1>6, <1>7, <1>8, <1>9, <1>11, <2>1, <2>2 DEF Filled
<1>13. CASE Acknowledge \/ RestoreSync \/ AcceptCarrier
  BY <1>9, <1>10, <1>13 DEF Acknowledge, RestoreSync, AcceptCarrier
<1>14. CASE RestoreData
  <2>1. \/ ctl[k] = "absent" /\ SetCtl(k, "short")
        \/ ctl[k] = "short" /\ FillCarrier
        \/ ctl[k] = "partial" /\ (SetCtl(k, "both") \/ SetCtl(k, "final"))
    BY <1>2, <1>14 DEF RestoreData, Published
  <2> QED
    BY <1>6, <1>8, <2>1 DEF Filled
<1>15. CASE SettleCoexistence
  BY <1>2, <1>6, <1>15 DEF SettleCoexistence, Filled
<1>16. CASE SettleNormalManifest
  BY <1>2, <1>7, <1>10, <1>11, <1>16 DEF SettleNormalManifest
<1>17. CASE RestoreManifest
  <2>1. CASE /\ cman[k] = "absent" /\ ctl[k] = "final"
             /\ cman' = [cman EXCEPT ![k] = "rtemp"]
             /\ cmanImg' = [j \in Carriers |-> {cman'[j]}] /\ ctlImg' = [j \in Carriers |-> {ctl[j]}]
             /\ UNCHANGED <<ctl, row>>
    <3>1. /\ row' = row /\ ctlImg'[k] = {"final"}
          /\ \A j \in Carriers : ctlImg'[j] = {ctl[j]} /\ (j # k => cmanImg'[j] = {cman[j]})
      BY <1>1, <1>3, <2>1 DEF Types
    <3> QED
      BY <1>4, <3>1 DEF CarrierFiles, Filled
  <2>2. CASE cman[k] # "absent" /\ \E st : SetCman(k, st)
    BY <1>7, <1>11, <2>2
  <2> QED
    BY <1>2, <1>17, <2>1, <2>2 DEF RestoreManifest
<1> QED
  BY <1>12, <1>13, <1>14, <1>15, <1>16, <1>17 DEF CarrierStep

\* No step undoes that.
LEMMA CarrierFilesStay == ASSUME IInv, CarrierFiles, [Next]_vars PROVE CarrierFiles'
<1>1. CInv
  BY DEF IInv
<1>2. ASSUME UNCHANGED <<cmanImg, ctlImg, row>> PROVE CarrierFiles'
  BY <1>2 DEF CarrierFiles
<1>3. CASE SourceStep
  BY <1>1, <1>2, <1>3, SourceStepStays DEF Stays, controlVars
<1>4. CASE CarrierStep
  BY <1>1, <1>4, CarrierStepFiles
<1>5. CASE Between
  BY <1>2, <1>5 DEF Between, LoadJournal, NextChain, DiscoverManifests, DiscoverUnbound, NextSource, PlanFresh, Settled, Admit, Advance,
     controlVars
<1>6. CASE PublishFact \/ SyncFact
  BY <1>2, <1>6 DEF PublishFact, SyncFact, controlVars
<1>7. CASE Kill
  BY <1>2, <1>7 DEF Kill, Begin
<1>8. CASE PowerLoss
  <2>1. ctl' \in Left(ctl, ctlImg) /\ cman' \in Left(cman, cmanImg) /\ row' = row
        /\ ctlImg' = [k \in Carriers |-> {ctl'[k]}] /\ cmanImg' = [k \in Carriers |-> {cman'[k]}]
    BY <1>8 DEF PowerLoss, Begin
  <2>2. /\ ctl \in [Carriers -> CtlStates] /\ \A k \in Carriers : ctl[k] \in ctlImg[k]
        /\ ctlImg \in [Carriers -> SUBSET CtlStates]
        /\ cman \in [Carriers -> CarrierManifestStates] /\ \A k \in Carriers : cman[k] \in cmanImg[k]
        /\ cmanImg \in [Carriers -> SUBSET CarrierManifestStates]
    BY <1>1 DEF CInv, Types, Control
  <2>3. \A k \in Carriers : ctl'[k] \in ctlImg[k]
    BY <2>1, <2>2, LeftFacts
  <2>4. \A k \in Carriers : cman'[k] \in cmanImg[k]
    BY <2>1, <2>2, LeftFacts
  <2> QED
    BY <2>1, <2>3, <2>4 DEF CarrierFiles
<1>9. ASSUME NEW p \in Parts, RemoveData(p) PROVE CarrierFiles'
  BY <1>2, <1>9 DEF RemoveData, controlVars
<1>10. CASE UNCHANGED vars
  BY <1>2, <1>10 DEF vars, controlVars
<1>11. CASE TempStep
  BY <1>2, <1>11, TempStepSettles DEF controlVars
<1> QED
  BY <1>3, <1>4, <1>5, <1>6, <1>7, <1>8, <1>9, <1>10, <1>11 DEF Next, Process, SourceStep, CarrierStep, Between, TempStep

\* The artifacts before the one at hand are written.
LEMMA ReadyStays ==
    ASSUME IInv, IInv', KInv, Working /\ pc # "next" => Ready, [Next]_vars PROVE Working' /\ pc' # "next" => Ready'
<1>1. CInv /\ RInv
  BY DEF IInv
<1>2. SUFFICES ASSUME Working', pc' \in {"quarantine", "quarantinename", "quarantinesync", "verify"} PROVE Ready'
  BY DEF Ready
<1>3. ASSUME pc' = "verify", Facts' # 1 PROVE Ready'
  BY <1>3 DEF Ready
<1>4. CASE SourceStep
  <2>1. /\ Stays /\ Facts' = Facts /\ UNCHANGED <<chain, durable, cur, src, plan>> /\ Working /\ pc # "next"
        /\ Facts \in 0..6 /\ FactsFit
        /\ run' = run \/ run' = "blocked"
    BY <1>1, <1>4, AtStep, SourceStepStays DEF Stays, journalVars, workVars
  <2>2. run' # "blocked" /\ intent' = intent
    BY <1>2, <2>1 DEF Working, Settling, intent
  <2>3. Ready
    BY <2>1
  <2>4. plan # << >> => Shape(intent)
    <3>1. plan # << >> => cur \in Held /\ IntentOf(cur) = intent
      BY <2>1 DEF Held, IntentOf
    <3> QED
      BY <1>1, <3>1 DEF RInv, Raw
  <2>5. CASE SourceLease
    BY <1>2, <2>2, <2>5 DEF SourceLease, TakeLease, Goto
  <2>6. CASE DestinationLease
    <3>1. pc' = "verify" => Facts # 1
      BY <1>2, <2>1, <2>2, <2>6 DEF DestinationLease, TakeLease, Goto
    <3>2. pc' = "verify"
      BY <1>2, <2>6 DEF DestinationLease, TakeLease, Goto
    <3> QED
      BY <1>3, <2>1, <3>1, <3>2
  <2>7. CASE PlanResumed
    BY <1>2, <2>2, <2>7 DEF PlanResumed, GotoIf, Goto, Block
  <2>8. CASE SkipData
    <3>a. pc = "data"
      BY <2>8 DEF SkipData, At
    <3>0. plan # << >> /\ Shape(intent)
      BY <2>1, <2>4, <3>a DEF FactsFit
    <3>1. CASE intent.disposition = "legitimately_missing" /\ GotoIf(CleanupProved(intent), "verify") /\ UNCHANGED rawVars
      <4>1. pc' = "verify" /\ CleanupProved(intent) /\ art' = art
        BY <2>2, <3>1 DEF GotoIf, Goto, Block, rawVars
      <4>2. ~Present(intent.data) /\ Named(art[intent.man[1]])
        BY <3>0, <3>1, <4>1 DEF Shape, Prefix, InPlace, Quarantine, Missing, CleanupProved
      <4>3. Present(intent.quar) => FALSE
        <5>1. Kept(cur, intent, Facts, Facts)
          BY <1>4, <3>0, AtPlan
        <5>2. Missing(intent) /\ Planned(cur, intent)
          BY <3>0, <3>1, <5>1 DEF Shape, Prefix, InPlace, Quarantine, Kept
        <5> QED
          BY <3>0, <5>2, PlannedKinds DEF Present
      <4> QED
        BY <2>2, <4>1, <4>2, <4>3 DEF Ready
    <3>2. CASE intent.disposition = "moved_to_quarantine" /\ UNCHANGED rawVars /\ Goto("quarantine")
      <4>1. ~Present(intent.data) /\ ~Present(intent.man)
        BY <3>0, <3>2 DEF Shape, Prefix, InPlace, Quarantine, Missing
      <4>2. pc' = "quarantine"
        BY <3>2 DEF Goto
      <4> QED
        BY <2>2, <4>1, <4>2 DEF Ready
    <3>3. ~(NoRange /\ SyncRaw /\ Goto("manifest"))
      BY <1>2 DEF Goto
    <3> QED
      BY <2>8, <3>1, <3>2, <3>3 DEF SkipData
  <2>9. CASE PublishRange
    BY <1>2, <2>2, <2>9 DEF PublishRange, PrepareRange, PublishStream, AcceptRange, Goto, Block
  <2>10. CASE PublishManifest
    <3>1. /\ plan # << >> /\ Present(intent.man) /\ pc = "manifest" /\ pc' = "quarantine" /\ Named(art[intent.man[1]])
          /\ art' = art /\ data' = data
      <4>1. plan # << >> /\ Present(intent.man)
        BY <2>10 DEF PublishManifest
      <4>2. CASE PublishArtifact(intent.man[1], intent.man[2], "manifest", "manifestname", "manifestsync", "quarantine")
        <5>1. AcceptArtifact(intent.man[1], intent.man[2], "manifest", "quarantine")
          BY <1>2, <4>2 DEF PublishArtifact, WriteArtifact, Goto
        <5>2. /\ pc = "manifest" /\ Named(art[intent.man[1]])
              /\ Block \/ Goto("manifest") \/ \E qs : SyncWith(qs) /\ Goto("quarantine")
          BY <5>1 DEF AcceptArtifact, At
        <5> QED
          BY <1>2, <2>2, <4>1, <5>2 DEF SyncWith, Goto, Block
      <4>3. CASE /\ At("manifest") /\ intent.state = "publication_coexistence" /\ Named(art[intent.man[1]])
                 /\ Goto("quarantine") /\ UNCHANGED rawVars
        BY <4>1, <4>3 DEF At, Goto, rawVars
      <4> QED
        BY <2>10, <4>2, <4>3 DEF PublishManifest
    <3>2. Present(intent.data) /\ dataImg[intent.data[1]] \subseteq {"both", "final"}
      BY <1>1, <2>1, <3>1 DEF RInv, Progress, DataReady
    <3>3. Named(data[intent.data[1]])
      <4>1. intent.data[1] \in Parts
        BY <2>4, <3>1, <3>2, PlanFiles
      <4> QED
        BY <1>1, <3>2, <4>1 DEF RInv, Raw, PartSound, Named
    <3> QED
      BY <2>2, <3>1, <3>2, <3>3 DEF Ready
  <2>11. CASE PublishQuarantine
    <3>1. plan # << >> /\ pc \in {"quarantine", "quarantinename", "quarantinesync"} /\ data' = data /\ Shape(intent)
      BY <2>4, <2>11 DEF PublishQuarantine, PublishArtifact, WriteArtifact, AcceptArtifact, At, SetArt, SyncWith, rawVars
    <3>2. /\ Present(intent.man) => Named(art[intent.man[1]])
          /\ Present(intent.data) => Named(data[intent.data[1]])
      BY <2>3, <3>1 DEF Ready
    <3>3. Present(intent.man) => art'[intent.man[1]] = art[intent.man[1]]
      <4>1. PICK a, w : a = intent.quar[1] /\ w = intent.quar[2]
        OBVIOUS
      <4>2. \/ art' = art
            \/ Present(intent.quar) /\ PublishArtifact(a, w, "quarantine", "quarantinename", "quarantinesync", "verify")
        BY <2>11, <4>1 DEF PublishQuarantine, rawVars
      <4>3. ASSUME PublishArtifact(a, w, "quarantine", "quarantinename", "quarantinesync", "verify")
            PROVE  art' = art \/ \E st : art' = [art EXCEPT ![a] = st]
        <5>1. ASSUME NEW st, SetArt(a, st) PROVE \E s : art' = [art EXCEPT ![a] = s]
          BY <5>1 DEF SetArt
        <5>2. ASSUME NEW qs, SyncWith(qs) PROVE art' = art
          BY <5>2 DEF SyncWith
        <5>3. CASE WriteArtifact(a, w, "quarantine", "quarantinename", "quarantinesync")
          BY <5>1, <5>2, <5>3 DEF WriteArtifact
        <5>4. CASE AcceptArtifact(a, w, "quarantine", "verify")
          BY <5>1, <5>2, <5>4 DEF AcceptArtifact, rawVars
        <5> QED
          BY <4>3, <5>3, <5>4 DEF PublishArtifact
      <4>4. Present(intent.man) => intent.man[1] \in Artifacts /\ (Present(intent.quar) => intent.man[1] # a)
        BY <3>1, <4>1, PlanFiles
      <4>5. art \in [Artifacts -> ArtifactStates]
        BY <1>1 DEF RInv, RawTypes
      <4> QED
        BY <4>2, <4>3, <4>4, <4>5
    <3>4. pc' = "verify" => (Present(intent.quar) => Named(art'[intent.quar[1]]))
      <4>1. SUFFICES ASSUME pc' = "verify", Present(intent.quar) PROVE Named(art'[intent.quar[1]])
        OBVIOUS
      <4>2. PublishArtifact(intent.quar[1], intent.quar[2], "quarantine", "quarantinename", "quarantinesync", "verify")
        BY <2>11, <4>1 DEF PublishQuarantine
      <4>3. AcceptArtifact(intent.quar[1], intent.quar[2], "quarantine", "verify")
        BY <4>1, <4>2 DEF PublishArtifact, WriteArtifact, Goto
      <4>4. Named(art[intent.quar[1]]) /\ (Block \/ Goto("quarantine") \/ \E qs : SyncWith(qs))
        BY <4>3 DEF AcceptArtifact
      <4>5. art' = art
        BY <2>2, <4>1, <4>4 DEF Block, Goto, SyncWith
      <4> QED
        BY <4>4, <4>5
    <3> QED
      BY <2>2, <3>1, <3>2, <3>3, <3>4 DEF Ready
  <2>12. CASE VerifyArtifacts \/ SettleSource \/ RecheckChain
    BY <1>2, <2>1, <2>2, <2>12 DEF VerifyArtifacts, SettleSource, RecheckChain, GotoIf, Goto, Block, FactsFit, At
  <2> QED
    BY <1>4, <2>5, <2>6, <2>7, <2>8, <2>9, <2>10, <2>11, <2>12 DEF SourceStep
<1>5. CASE CarrierStep
  BY <1>1, <1>2, <1>5, CarrierStepStays DEF CarrierStays, Working, Settling
<1>6. CASE Between
  <2>1. CASE LoadJournal
    BY <1>1, <1>2, <2>1 DEF LoadJournal, CInv, Flow
  <2>2. CASE NextChain
    BY <1>2, <2>2 DEF NextChain, At
  <2>3. CASE DiscoverManifests \/ DiscoverUnbound \/ NextSource \/ Settled \/ Admit \/ Advance
    BY <1>2, <2>3 DEF DiscoverManifests, DiscoverUnbound, NextSource, Settled, Admit, Advance, At
  <2>4. CASE PlanFresh
    BY <1>2, <2>4 DEF PlanFresh, At
  <2> QED
    BY <1>6, <2>1, <2>2, <2>3, <2>4 DEF Between
<1>7. CASE PublishFact
  BY <1>2, <1>7 DEF PublishFact, At, Goto, Block, Working, Settling
<1>8. CASE SyncFact
  <2>1. UNCHANGED <<chain, cur>> /\ pc = "factsync" /\ run \notin {"up", "blocked"}
        /\ pc' = (CASE Facts = 1 -> "data" [] Facts = 2 -> "verify"
                  [] Facts = 3 -> IF run = "chains" THEN "recheck" ELSE "settled"
                  [] Facts = 4 -> "carrier" [] Facts = 5 -> "fact" [] Facts = 6 -> "settled")
    BY <1>8 DEF SyncFact, At, Goto
  <2>2. Facts \in 1..6
    BY <1>1, <2>1 DEF CInv, Types, Flow, Phases, Working, Settling, FactsFit
  <2>3. pc' = "verify" /\ Facts = 2 /\ Facts' = Facts
    BY <1>2, <2>1, <2>2 DEF Facts
  <2> QED
    BY <1>3, <2>3
<1>9. CASE Kill \/ PowerLoss
  BY <1>2, <1>9 DEF Kill, PowerLoss, Begin
<1>10. ASSUME NEW p \in Parts, RemoveData(p) PROVE Ready'
  BY <1>2, <1>10 DEF RemoveData, Working, Settling
<1>11. CASE UNCHANGED vars
  <2>1. UNCHANGED <<rawVars, chain, run, pc, cur, plan>>
    BY <1>11 DEF vars, journalVars, workVars
  <2>2. Facts' = Facts /\ intent' = intent /\ Ready
    BY <1>2, <2>1 DEF Facts, intent, Working, Settling
  <2> QED
    BY <2>1, <2>2 DEF Ready, rawVars
<1>12. CASE TempStep
  BY <1>2, <1>12 DEF TempStep, SettleTemporary, PublishTemporary, SyncTemporary, At
<1> QED
  BY <1>4, <1>5, <1>6, <1>7, <1>8, <1>9, <1>10, <1>11, <1>12 DEF Next, Process, SourceStep, CarrierStep, Between, TempStep
-----------------------------------------------------------------------------
(* What a plan passes *)

\* The bytes of a file are frames and a rest, whatever wrote them.
LEMMA ContentsStay == ASSUME IInv, KInv, Contents, [Next]_vars PROVE Contents'
<1>1. CInv /\ RInv
  BY DEF IInv
<1>2. ASSUME bytes' = bytes PROVE Contents'
  BY <1>2 DEF Contents
<1>3. CASE PublishRange
  <2>a. PICK q : q = intent.data[1]
    OBVIOUS
  <2>1. bytes' = bytes \/ bytes' = [bytes EXCEPT ![q] = intent.data[2]]
    BY <1>3, <2>a DEF PublishRange, PrepareRange, PublishStream, AcceptRange, SetData, SyncRaw, SyncWith, rawVars
  <2>2. SourceStep /\ plan # << >>
    BY <1>3 DEF SourceStep, PublishRange
  <2>3. Shape(intent) /\ Planned(cur, intent) /\ Prefix(intent)
    <3>1. Shape(intent) /\ Kept(cur, intent, Facts, Facts)
      BY <1>1, <2>2, AtPlan, AtStep
    <3> QED
      BY <1>3, <3>1 DEF Kept, PublishRange, NoRange, Shape, InPlace, Quarantine, Missing
  <2>4. intent.data[2] = Bytes(intent.bytes.frames, 0)
    BY <2>3, PlannedKinds
  <2>5. intent.data[2] = Bytes(intent.data[2].frames, intent.data[2].tail)
    BY <2>4 DEF Bytes
  <2>6. bytes = [p \in Parts |-> bytes[p]]
    BY <1>1 DEF RInv, RawTypes
  <2> QED
    BY <1>2, <2>1, <2>5, <2>6 DEF Contents
<1>4. CASE SourceStep /\ ~PublishRange
  BY <1>2, <1>4 DEF SourceStep, SourceLease, TakeLease, DestinationLease, PlanResumed, SkipData,
         PublishManifest, PublishQuarantine, PublishArtifact, WriteArtifact, AcceptArtifact,
         VerifyArtifacts, SettleSource, RecheckChain, SetData, SetArt, SyncRaw, SyncWith, rawVars
<1>5. CASE CarrierStep
  BY <1>2, <1>5 DEF CarrierStep, WriteCarrier, Acknowledge, RestoreData, SettleCoexistence, SettleNormalManifest,
         RestoreManifest, RestoreSync, AcceptCarrier, rawVars
<1>6. CASE Between
  BY <1>2, <1>6 DEF Between, LoadJournal, NextChain, DiscoverManifests, DiscoverUnbound, NextSource, PlanFresh, Settled, Admit, Advance,
     rawVars
<1>7. CASE PublishFact \/ SyncFact \/ Kill \/ PowerLoss
  BY <1>2, <1>7 DEF PublishFact, SyncFact, Kill, PowerLoss, Begin, rawVars
<1>8. ASSUME NEW p \in Parts, RemoveData(p) PROVE Contents'
  BY <1>2, <1>8 DEF RemoveData
<1>9. CASE UNCHANGED vars
  BY <1>2, <1>9 DEF vars, rawVars
<1>10. CASE TempStep
  BY <1>2, <1>10 DEF TempStep, SettleTemporary, PublishTemporary, SyncTemporary, SetArt, SyncRaw, SyncWith, rawVars
<1> QED
  BY <1>3, <1>4, <1>5, <1>6, <1>7, <1>8, <1>9, <1>10 DEF Next, Process, SourceStep, CarrierStep, Between, TempStep

\* A plan passes the checks of an intent: _validate_intent never refuses what
\* recovery planned.
LEMMA IntentFits ==
    ASSUME NEW t, NEW i, Planned(t, i), Shape(i), FilesOf(i), Proofs, RawTypes, Contents
    PROVE  IntentValid(i) /\ PayloadValid(Outcome(i))
<1>a. PICK b, s, p : b = i.bytes /\ s = i.source /\ p = i.source[2]
  OBVIOUS
<1>1. /\ s \in SourcePaths /\ s[1] \in {"partial", "final"} /\ p \in Parts /\ s[2] = p
      /\ Prefix(i) \/ InPlace(i) \/ Quarantine(i) \/ Missing(i)
  BY <1>a DEF Shape, SourcePaths
<1>2. ~Missing(i) => b.frames \in Nat /\ b.tail \in Nat /\ b = Bytes(b.frames, b.tail)
  BY <1>a, <1>1 DEF FilesOf, RawTypes, Contents
<1>3. /\ Outcome(i).informational = (i.disposition = "legitimately_missing") /\ Outcome(i).disposition = i.disposition
      /\ Outcome(i).recovered = i.data /\ Outcome(i).quarantined = i.quar /\ Outcome(i).source = s
  BY <1>a DEF Outcome
<1>4. CASE i = PlanPrefix(t, s, b, FrozenSequence(i)) /\ s[1] = "partial" /\ b.frames > 0
  <2>1. PICK q : q = FrozenSequence(i)
    OBVIOUS
  <2>2. /\ i.disposition = "removed" /\ i.data = <<q, Bytes(b.frames, 0)>> /\ i.proof = << >>
        /\ i.man = <<ManifestOf(q), RecoveryManifest(t, Bytes(b.frames, 0))>>
        /\ i.quar = IF b.tail = 0 THEN << >> ELSE <<BadTail(s), Bytes(0, b.tail)>>
        /\ i.state = IF b.tail = 0 THEN "partial_complete" ELSE "partial_truncated"
    BY <1>4, <2>1 DEF PlanPrefix, Intent
  <2>3. Prefix(i) /\ ~Missing(i)
    BY <1>1, <2>2 DEF InPlace, Quarantine, Missing
  <2>4. /\ i.data[1] = q /\ i.data[2] = Bytes(b.frames, 0) /\ q # p /\ i.data # << >> /\ i.man # << >> /\ i.man[1] = ManifestOf(q)
        /\ b.tail # 0 => i.quar[1] = BadTail(s) /\ i.quar[2] = Bytes(0, b.tail) /\ i.quar # << >>
    BY <1>a, <2>2, <2>3 DEF Prefix
  <2>5. b.frames \in Nat /\ b.tail \in Nat /\ b = Bytes(b.frames, b.tail)
    BY <1>2, <2>3
  <2>6. b.tail = 0 => Bytes(b.frames, 0) = b
    BY <2>5
  <2>7. b.tail # 0 => Size(i.quar[2]) > 0 /\ Size(i.data[2]) + Size(i.quar[2]) = Size(b)
    <3>1. Size(Bytes(0, b.tail)) = b.tail /\ Size(Bytes(b.frames, 0)) = b.frames
      BY <2>5 DEF Size, Bytes
    <3> QED
      BY <2>4, <2>5, <3>1 DEF Size
  <2>8. GroupsFit(i)
    BY <1>a, <1>4, <2>2, <2>4 DEF GroupsFit, PartialStates, Present
  <2>9. DispositionFits(i)
    BY <1>a, <1>4, <2>2, <2>4, <2>6, <2>7 DEF DispositionFits, PartialStates, Present
  <2>10. PayloadValid(Outcome(i))
    BY <1>3, <2>2, <2>4 DEF PayloadValid, Present
  <2> QED
    BY <2>8, <2>9, <2>10 DEF IntentValid
<1>5. CASE i = PlanOrphan(t, s, b) /\ s[1] = "final"
  <2>1. /\ i.disposition = "retained" /\ i.state = "orphan_closed_data" /\ i.data = <<p, b>>
        /\ i.man = <<ManifestOf(p), RecoveryManifest(t, b)>> /\ i.quar = << >> /\ i.proof = << >>
    BY <1>1, <1>5 DEF PlanOrphan, Intent
  <2>2. i.data # << >> /\ i.data[1] = p /\ i.man # << >> /\ i.man[1] = ManifestOf(p)
    BY <2>1
  <2>3. GroupsFit(i)
    BY <1>a, <1>5, <2>1, <2>2 DEF GroupsFit, PartialStates, Present
  <2>4. DispositionFits(i)
    BY <1>a, <2>1, <2>2 DEF DispositionFits, Present
  <2>5. PayloadValid(Outcome(i))
    BY <1>1, <1>3, <2>1, <2>2 DEF PayloadValid, Present
  <2> QED
    BY <2>3, <2>4, <2>5 DEF IntentValid
<1>6. CASE i = PlanWhole(t, s, b)
  <2>1. /\ i.disposition = "moved_to_quarantine" /\ i.data = << >> /\ i.man = << >> /\ i.quar = <<Whole(s), b>>
        /\ i.proof = << >> /\ i.state = IF s[1] = "partial" THEN "partial_truncated" ELSE "orphan_closed_data"
    BY <1>6 DEF PlanWhole, Intent
  <2>2. i.quar # << >> /\ i.quar[1] = Whole(s)
    BY <2>1
  <2>3. GroupsFit(i)
    BY <1>a, <1>1, <2>1 DEF GroupsFit, PartialStates, Present
  <2>4. DispositionFits(i)
    BY <1>a, <1>1, <2>1, <2>2 DEF DispositionFits, Present
  <2>5. PayloadValid(Outcome(i))
    BY <1>3, <2>1, <2>2 DEF PayloadValid, Present
  <2> QED
    BY <2>3, <2>4, <2>5 DEF IntentValid
<1>7. CASE i = PlanCoexistence(t, s, b, <<i.man[2]>>) /\ s[1] = "partial"
  <2>1. PICK m : m = <<i.man[2]>>
    OBVIOUS
  <2>2. /\ i.disposition = "removed" /\ i.data = <<p, b>> /\ i.quar = << >> /\ i.state = "publication_coexistence"
        /\ i.proof = << >> /\ \E w : i.man = <<ManifestOf(p), w>>
    BY <1>1, <1>7, <2>1 DEF PlanCoexistence, Intent
  <2>3. i.data # << >> /\ i.data[1] = p /\ i.data[2] = b /\ i.man # << >> /\ i.man[1] = ManifestOf(p)
    BY <2>2
  <2>4. GroupsFit(i)
    BY <1>a, <1>7, <2>2, <2>3 DEF GroupsFit, PartialStates, Present
  <2>5. DispositionFits(i)
    BY <1>a, <2>2, <2>3 DEF DispositionFits, PartialStates, Present
  <2>6. PayloadValid(Outcome(i))
    BY <1>3, <2>2, <2>3 DEF PayloadValid, Present
  <2> QED
    BY <2>4, <2>5, <2>6 DEF IntentValid
<1>8. CASE i = PlanMissing(t, p, i.man[2], i.proof[1]) /\ i.man[2].by = 0 /\ Size(i.man[2].of) > 0
  <2>1. PICK m, k : m = i.man[2] /\ k = i.proof[1]
    OBVIOUS
  <2>2. /\ i.disposition = "legitimately_missing" /\ i.data = << >> /\ i.quar = << >> /\ b = m.of
        /\ i.state = (IF k = "intent" THEN "cleanup_intent" ELSE "cleanup_tombstone")
        /\ i.man = <<ManifestOf(p), m>> /\ i.proof = <<k>> /\ s[1] = "final"
    BY <1>a, <1>8, <2>1 DEF PlanMissing, Intent
  <2>3. i.man # << >> /\ i.man[1] = ManifestOf(p) /\ Size(b) > 0
    BY <1>8, <2>1, <2>2
  <2>4. k \in {"intent", "tombstone"}
    <3>1. Missing(i)
      BY <1>a, <2>2, <2>3 DEF Missing, Present
    <3>2. i.proof = <<proof[p]>> /\ proof[p] # "none"
      BY <1>a, <3>1 DEF FilesOf
    <3>3. k = proof[p]
      BY <2>2, <3>2
    <3> QED
      BY <1>1, <3>2, <3>3 DEF Proofs
  <2>5. GroupsFit(i)
    BY <1>a, <2>2 DEF GroupsFit, PartialStates, Present
  <2>6. DispositionFits(i)
    BY <1>a, <2>2, <2>3, <2>4 DEF DispositionFits, CleanupStates, Present
  <2>7. PayloadValid(Outcome(i))
    BY <1>3, <2>2 DEF PayloadValid, Present
  <2> QED
    BY <2>5, <2>6, <2>7 DEF IntentValid
<1> QED
  BY <1>a, <1>4, <1>5, <1>6, <1>7, <1>8 DEF Planned, PlanSource
-----------------------------------------------------------------------------
(* The checks of the journal *)

\* The preflight accepts what earlier starts wrote ...
LEMMA LoadPasses == ASSUME IInv, Bound, LoadJournal PROVE run' # "blocked"
BY OneOwner DEF LoadJournal, OneOwnerEach, Bound

\* ... and each fact agrees with the chain it extends.
LEMMA FactPasses == ASSUME IInv, KInv, Proofs, Contents, Bound, PublishFact PROVE run' # "blocked"
<1>1. CInv /\ RInv /\ KRaw
  BY DEF IInv, KInv
<1>2. Working /\ pc = "fact" /\ cur \in Txs /\ Facts \in 0..5 /\ plan # << >>
  <2>1. pc = "fact" /\ run \notin {"up", "blocked"}
    BY DEF PublishFact, At
  <2> QED
    BY <1>1, <2>1 DEF CInv, Types, Flow, Phases, Working, Settling, FactsFit
<1>3. IsChain(chain[cur]) /\ Len(chain[cur]) = Facts
  BY <1>1, <1>2 DEF CInv, Types, Facts
<1>4. PICK c, l, i, f : c = chain[cur] /\ l = Append(c, NextFact) /\ i = intent /\ f = Facts
  OBVIOUS
<1>5. /\ IsChain(l) /\ Len(l) = f + 1 /\ f \in 0..5
      /\ \A k \in 1..f : l[k] = c[k]
      /\ l[f + 1] = NextFact
  BY <1>2, <1>3, <1>4, AppendChain
<1>6. CASE f = 0
  <2>1. cur \in Held /\ IntentOf(cur) = i
    BY <1>2, <1>4 DEF Held, IntentOf
  <2>2. Shape(i) /\ Planned(cur, i) /\ FilesOf(i)
    BY <1>1, <2>1 DEF RInv, Raw, KRaw, Kept
  <2>3. IntentValid(i) /\ PayloadValid(Outcome(i))
    BY <1>1, <2>2, IntentFits DEF RInv
  <2>4. l[1] = i /\ Len(l) = 1
    BY <1>4, <1>5, <1>6 DEF NextFact
  <2>5. ChainBound(l)
    BY <2>3, <2>4 DEF ChainBound
  <2> QED
    BY <1>2, <1>4, <2>5 DEF PublishFact, Goto, Working, Settling
<1>7. CASE f # 0
  <2>1. cur \in Journal
    BY <1>1, <1>2, <1>3, <1>4, <1>7, LengthsNow
  <2>2. c[1] = i /\ ChainBound(c) /\ Len(c) = f /\ f \in 1..5
    BY <1>1, <1>2, <1>3, <1>4, <1>5, <1>7, <2>1 DEF CInv, Flow, Bound
  <2>3. l[1] = i /\ IntentValid(i) /\ PayloadValid(Outcome(i))
    BY <1>5, <2>2 DEF ChainBound
  <2>4. /\ f = 1 => NextFact = ArtifactsFact(i)
        /\ f = 2 => NextFact = SettledFact(i)
        /\ f = 3 => NextFact = OwnershipFact(i, NextCarrier)
        /\ f = 4 => NextFact = DurableFact(c[4])
        /\ f = 5 => NextFact = CompleteFact(i)
    BY <1>4 DEF NextFact
  <2>5. OwnershipFact(i, NextCarrier).carrier = NextCarrier
    BY DEF OwnershipFact
  <2>6. f >= 1 => l[2] = ArtifactsFact(i)
    BY <1>5, <2>2, <2>4 DEF ChainBound
  <2>7. f >= 2 => l[3] = SettledFact(i)
    BY <1>5, <2>2, <2>4 DEF ChainBound
  <2>8. f >= 3 => l[4] = OwnershipFact(i, l[4].carrier)
    <3>1. CASE f = 3
      BY <1>5, <2>4, <2>5, <3>1
    <3>2. CASE f >= 4
      BY <1>5, <2>2, <3>2 DEF ChainBound
    <3> QED
      BY <2>2, <3>1, <3>2
  <2>9. f >= 4 => l[5] = DurableFact(l[4])
    BY <1>5, <2>2, <2>4 DEF ChainBound
  <2>10. f >= 5 => l[6] = CompleteFact(i)
    BY <1>5, <2>2, <2>4 DEF ChainBound
  <2>11. ChainBound(l)
    <3>1. PICK n : n = Len(l)
      OBVIOUS
    <3>2. n = f + 1 /\ f \in 1..5
      BY <1>5, <2>2, <3>1
    <3>3. /\ n >= 2 => l[2] = ArtifactsFact(i) 
          /\ n >= 3 => l[3] = SettledFact(i) 
          /\ n >= 4 => l[4] = OwnershipFact(i, l[4].carrier)
          /\ n >= 5 => l[5] = DurableFact(l[4])
          /\ n >= 6 => l[6] = CompleteFact(i)
      BY <2>6, <2>7, <2>8, <2>9, <2>10, <3>2
    <3> QED
      BY <2>3, <3>1, <3>3 DEF ChainBound
  <2> QED
    BY <1>2, <1>4, <2>11 DEF PublishFact, Goto, Working, Settling
<1> QED
  BY <1>6, <1>7

\* Both names of a file have the same owner.
LEMMA SearchPasses == ASSUME IInv, DiscoverUnbound PROVE run' # "blocked"
<1>1. CInv /\ RInv
  BY DEF IInv
<1>2. ASSUME Straddled PROVE FALSE
  <2>1. PICK p \in Parts : data[p] = "both" /\ <<"partial", p>> \notin Owned /\ <<"final", p>> \in Owned
    BY <1>2 DEF Straddled
  <2>2. PICK t \in Journal : <<"final", p>> \in Claims(chain[t])
    BY <2>1 DEF Owned
  <2>3. <<"partial", p>> \notin Claims(chain[t])
    BY <2>1, <2>2 DEF Owned
  <2>4. PICK i : i = chain[t][1]
    OBVIOUS
  <2>5. i.source = <<"final", p>> /\ ~(Present(i.data) /\ i.data[1] = p)
    BY <2>2, <2>3, <2>4 DEF Claims
  <2>6. Shape(i) /\ SourceHeld(i)
    <3>1. t \in Held /\ IntentOf(t) = i
      BY <1>1, <2>4, HeldFacts
    <3> QED
      BY <1>1, <3>1 DEF RInv, Raw
  <2>7. dataImg[p] \subseteq {"absent", "final"}
    BY <2>5, <2>6 DEF SourceHeld, InPlace
  <2>8. data[p] \in dataImg[p]
    BY <1>1 DEF RInv, Raw, PartSound
  <2> QED
    BY <2>1, <2>7, <2>8
<1> QED
  BY <1>2 DEF DiscoverUnbound
-----------------------------------------------------------------------------
(* Plans that are made, and made again *)

\* The plan for each condition in which a source may be.
LEMMA PlanNowIs ==
    ASSUME src \in SourcePaths, torn = {}, NEW next
    PROVE  LET p == src[2]
               b == bytes[p]
               m == ManifestFound(p)
           IN  /\ src[1] = "final" /\ ~Named(data[p]) =>
                    PlanNow(next) = IF proof[p] = "none" \/ m = << >> THEN << >> ELSE <<PlanMissing(cur, p, m[1], proof[p])>>
               /\ src[1] = "partial" /\ data[p] = "both" =>
                    PlanNow(next) = IF b.frames = 0 \/ b.tail > 0 THEN << >>
                                    ELSE IF m # << >> /\ m[1].of # b THEN << >>
                                    ELSE <<PlanCoexistence(cur, src, b, m)>>
               /\ SourcePresent(src) /\ ~(src[1] = "partial" /\ data[p] = "both") =>
                    PlanNow(next) = <<PlanSource(cur, src, b, next)>>
<1> DEFINE p == src[2]
           b == bytes[p]
           m == ManifestFound(p)
<1>1. src[1] \in {"partial", "final"}
  BY DEF SourcePaths
<1>2. ASSUME src[1] = "final", ~Named(data[p])
      PROVE  PlanNow(next) = IF proof[p] = "none" \/ m = << >> THEN << >> ELSE <<PlanMissing(cur, p, m[1], proof[p])>>
  BY <1>2 DEF PlanNow
<1>3. ASSUME src[1] = "partial", data[p] = "both"
      PROVE  PlanNow(next) = IF b.frames = 0 \/ b.tail > 0 THEN << >>
                             ELSE IF m # << >> /\ m[1].of # b THEN << >>
                             ELSE <<PlanCoexistence(cur, src, b, m)>>
  <2>1. SourcePresent(src)
    BY <1>3 DEF SourcePresent, Partial
  <2> QED
    BY <1>3, <2>1 DEF PlanNow
<1>4. ASSUME SourcePresent(src), ~(src[1] = "partial" /\ data[p] = "both")
      PROVE  PlanNow(next) = <<PlanSource(cur, src, b, next)>>
  <2>1. src[1] = "final" => Named(data[p])
    BY <1>4 DEF SourcePresent
  <2> QED
    BY <1>4, <2>1 DEF PlanNow
<1> QED
  BY <1>2, <1>3, <1>4

\* A fresh plan fails for data that is missing without an explanation only.
LEMMA FreshCause == ASSUME IInv, KInv, torn = {}, PlanFresh, run' = "blocked" PROVE Unexplained'
<1>a. PICK p, b, m, n : p = src[2] /\ b = bytes[p] /\ m = ManifestFound(p) /\ n = NextSequence
  OBVIOUS
<1>1. /\ p \in Parts /\ src \in SourcePaths /\ src[1] \in {"partial", "final"}
      /\ AsLeft(p) /\ AsFound(src) /\ PartSound(p) /\ b.frames \in Nat /\ b.tail \in Nat /\ Working
      /\ Named(art[ManifestOf(p)]) <=> MayBeNamed(ManifestOf(p))
  BY <1>a, FoundPart
<1>2. PlanNow(n) = << >> /\ UNCHANGED <<data, art, proof>>
  BY <1>a, <1>1 DEF PlanFresh, Working, Settling, rawVars
<1>3. CASE src[1] = "final" /\ ~Named(data[p])
  <2>1. Named(art[ManifestOf(p)])
    BY <1>a, <1>1, <1>3 DEF AsFound, Named
  <2>2. m # << >>
    BY <1>a, <2>1 DEF ManifestFound
  <2>3. PlanNow(n) = IF proof[p] = "none" \/ m = << >> THEN << >> ELSE <<PlanMissing(cur, p, m[1], proof[p])>>
    BY <1>a, <1>1, <1>3, PlanNowIs
  <2>4. proof[p] = "none"
    BY <1>2, <2>2, <2>3
  <2> QED
    BY <1>1, <1>2, <1>3, <2>1, <2>4 DEF Unexplained
<1>4. CASE src[1] = "partial" /\ data[p] = "both"
  <2>1. b.frames > 0 /\ b.tail = 0
    BY <1>a, <1>1, <1>4 DEF PartSound, AllFrames, Unnamed
  <2>2. m # << >> => m[1].of = b
    BY <1>a, <1>1 DEF ManifestFound, AsLeft, RecoveryManifest
  <2>3. PlanNow(n) = IF b.frames = 0 \/ b.tail > 0 THEN << >>
                     ELSE IF m # << >> /\ m[1].of # b THEN << >>
                     ELSE <<PlanCoexistence(cur, src, b, m)>>
    BY <1>a, <1>1, <1>4, PlanNowIs
  <2> QED
    BY <1>2, <2>1, <2>2, <2>3
<1>5. CASE ~(src[1] = "final" /\ ~Named(data[p])) /\ ~(src[1] = "partial" /\ data[p] = "both")
  <2>1. SourcePresent(src)
    BY <1>a, <1>1, <1>5 DEF SourcePresent, AsFound
  <2>2. PlanNow(n) = <<PlanSource(cur, src, b, n)>>
    BY <1>a, <1>1, <1>5, <2>1, PlanNowIs
  <2> QED
    BY <1>2, <2>2
<1> QED
  BY <1>3, <1>4, <1>5

\* Data that the retention job removed stays proved.
LEMMA MissingProved ==
    ASSUME IInv, torn = {}, NEW t, NEW i, Shape(i), Missing(i), Planned(t, i), FilesOf(i)
    PROVE  CleanupProved(i)
<1>1. i.source[2] \in Parts
  BY PlanFiles
<1>2. i.man[2].by = 0
  BY PlannedKinds
<1>3. MayBeNamed(i.man[1]) /\ val[i.man[1]] = i.man[2] /\ i.man[1] = ManifestOf(i.source[2])
  BY <1>2 DEF FilesOf, Missing
<1>4. PartSound(i.source[2])
  BY <1>1 DEF IInv, RInv, Raw
<1> QED
  BY <1>3, <1>4 DEF CleanupProved, FilesOf, PartSound, Named, NamedStates

\* A transaction with a fact is in the journal.
LEMMA CurrentLength ==
    ASSUME CInv, NEW n \in 1..6, Facts = n PROVE cur \in Txs /\ Len(chain[cur]) = n /\ cur \in Journal
<1>1. cur \in Txs /\ Len(chain[cur]) = n
  BY LengthsNow DEF Facts
<1>2. Len(chain[cur]) >= 1
  BY <1>1
<1> QED
  BY <1>1, <1>2, LengthsNow

\* A resumed plan is made again as it was, unless a power loss took back a name of
\* its source.
LEMMA ResumedCause ==
    ASSUME IInv, KInv, torn = {}, PlanResumed, PlanNow(FrozenSequence(intent)) # plan PROVE NamesReverted
<1>a. PICK i, s, p, b, m, n :
         /\ i = intent /\ s = i.source /\ p = s[2] /\ b = i.bytes /\ m = ManifestFound(p) /\ n = FrozenSequence(intent)
  OBVIOUS
<1>1. SourceStep /\ CInv /\ RInv
  BY DEF SourceStep, IInv
<1>2. pc = "plan" /\ Facts = 1 /\ plan # << >>
  BY <1>1, AtStep DEF PlanResumed, FactsFit, At
<1>3. /\ Shape(i) /\ SourceHeld(i) /\ Planned(cur, i) /\ FilesOf(i) /\ Standing(i) /\ src = s
  <2>1. Kept(cur, i, 1, 1) /\ Leased /\ Shape(i) /\ SourceHeld(i)
    BY <1>a, <1>1, <1>2, AtPlan, AtStep
  <2> QED
    BY <1>a, <1>2, <2>1 DEF Kept, Leased
<1>4. plan = <<i>> /\ cur \in Journal /\ Len(chain[cur]) = 1 /\ chain[cur][1] = i
  <2>1. Len(chain[cur]) = 1 /\ cur \in Journal
    BY <1>1, <1>2, CurrentLength
  <2> QED
    BY <1>a, <1>1, <1>2, <2>1 DEF CInv, Types, Flow, intent
<1>5. /\ p \in Parts /\ s \in SourcePaths /\ s[1] \in {"partial", "final"} /\ src \in SourcePaths /\ s = src /\ p = src[2]
      /\ PartSound(p) /\ data[p] \in dataImg[p] /\ data[p] \in DataStates
      /\ bytes[p].frames \in Nat /\ bytes[p].tail \in Nat
  <2>1. p \in Parts /\ s \in SourcePaths
    BY <1>a, <1>3, PlanFiles
  <2> QED
    BY <1>a, <1>1, <1>3, <2>1 DEF SourcePaths, RInv, RawTypes, Raw, PartSound
<1>6. ~Missing(i) => bytes[p] = b
  BY <1>a, <1>3 DEF FilesOf
<1>7. ASSUME i = PlanSource(cur, s, b, n), ~Missing(i), SourcePresent(src), ~(src[1] = "partial" /\ data[p] = "both")
      PROVE  FALSE
  <2>1. PlanNow(n) = <<PlanSource(cur, src, bytes[p], n)>>
    BY <1>5, <1>7, PlanNowIs
  <2> QED
    BY <1>a, <1>4, <1>5, <1>6, <1>7, <2>1
<1>8. ASSUME (i.state = "publication_coexistence" /\ data[p] = "partial") \/ (Size(b) = 0 /\ data[p] = "absent")
      PROVE  NamesReverted
  BY <1>a, <1>4, <1>8 DEF NamesReverted
<1>9. CASE i = PlanSource(cur, s, b, n)
  <2>1. CASE s[1] = "partial"
    <3>1. ~InPlace(i) /\ ~Missing(i) /\ (Prefix(i) \/ Quarantine(i))
      <4>1. i = PlanPrefix(cur, s, b, n) \/ i = PlanWhole(cur, s, b)
        BY <1>9, <2>1 DEF PlanSource
      <4>2. /\ i.disposition \in {"removed", "moved_to_quarantine"}
            /\ i.state # "publication_coexistence"
        BY <4>1 DEF PlanPrefix, PlanWhole, Intent
      <4> QED
        BY <1>3, <4>2 DEF Shape, InPlace, Missing
    <3>2. data[p] \in Unnamed
      BY <1>a, <1>3, <1>5, <2>1, <3>1 DEF SourceHeld
    <3>3. CASE data[p] = "absent"
      BY <1>a, <1>3, <1>5, <1>8, <3>1, <3>3 DEF Standing
    <3>4. CASE data[p] # "absent"
      BY <1>5, <1>7, <1>9, <2>1, <3>1, <3>2, <3>4 DEF SourcePresent, Partial, Unnamed
    <3> QED
      BY <3>3, <3>4
  <2>2. CASE s[1] = "final"
    <3>1. CASE i = PlanOrphan(cur, s, b)
      <4>1. i.disposition = "retained"
        BY <3>1 DEF PlanOrphan, Intent
      <4>2. Named(data[p]) /\ ~Missing(i)
        BY <1>a, <1>3, <1>5, <4>1 DEF Standing, Missing, Named, NamedStates
      <4> QED
        BY <1>5, <1>7, <1>9, <2>2, <4>2 DEF SourcePresent
    <3>2. CASE i = PlanWhole(cur, s, b)
      <4>1. i.disposition = "moved_to_quarantine"
        BY <3>2 DEF PlanWhole, Intent
      <4>2. Quarantine(i) /\ ~InPlace(i) /\ ~Missing(i)
        BY <1>3, <4>1 DEF Shape, Prefix, InPlace, Missing
      <4>3. data[p] \in {"absent", "final"}
        BY <1>a, <1>3, <1>5, <2>2, <4>2 DEF SourceHeld
      <4>4. CASE data[p] = "absent"
        BY <1>a, <1>3, <1>5, <1>8, <4>2, <4>4 DEF Standing
      <4>5. CASE data[p] = "final"
        BY <1>5, <1>7, <1>9, <2>2, <4>2, <4>5 DEF SourcePresent, Named
      <4> QED
        BY <4>3, <4>4, <4>5
    <3> QED
      BY <1>9, <2>2, <3>1, <3>2 DEF PlanSource
  <2> QED
    BY <1>5, <2>1, <2>2
<1>10. CASE /\ i = PlanCoexistence(cur, s, b, <<i.man[2]>>)
            /\ s[1] = "partial" /\ b.frames > 0 /\ b.tail = 0
            /\ i.man[2] \in {RecoveryManifest(cur, b), RecoveryManifest(0, b)}
  <2>1. PICK w : w = i.man[2]
    OBVIOUS
  <2>2. /\ i.state = "publication_coexistence" /\ i.disposition = "removed" /\ i.man = <<ManifestOf(p), w>>
        /\ i = PlanCoexistence(cur, s, b, <<w>>) /\ w.of = b /\ i.man # << >>
    <3>1. <<w>> # << >> /\ <<w>>[1] = w
      OBVIOUS
    <3> QED
      BY <1>a, <1>10, <2>1, <3>1 DEF PlanCoexistence, Intent, RecoveryManifest
  <2>3. data[p] \in {"partial", "both"} /\ ~Missing(i)
    BY <1>a, <1>3, <1>5, <2>2 DEF Standing, Missing
  <2>4. ASSUME data[p] = "both" PROVE FALSE
    <3>1. PlanNow(n) = IF b.frames = 0 \/ b.tail > 0 THEN << >>
                       ELSE IF m # << >> /\ m[1].of # b THEN << >>
                       ELSE <<PlanCoexistence(cur, s, b, m)>>
      BY <1>a, <1>5, <1>6, <1>10, <2>3, <2>4, PlanNowIs
    <3>2. b.frames # 0 /\ ~(b.tail > 0)
      BY <1>10
    <3>3. CASE Named(art[ManifestOf(p)])
      <4>1. MayBeNamed(ManifestOf(p))
        BY <1>1, <1>5, <3>3, ManifestNames DEF RInv, Raw, MayBeNamed
      <4>2. val[ManifestOf(p)] = w
        BY <1>3, <2>1, <2>2, <4>1 DEF FilesOf, Present
      <4>3. m = <<w>>
        BY <1>a, <3>3, <4>2 DEF ManifestFound
      <4>4. m[1].of = b
        BY <2>2, <4>3
      <4>5. PlanNow(n) = <<i>>
        BY <2>2, <3>1, <3>2, <4>3, <4>4
      <4> QED
        BY <1>a, <1>4, <4>5
    <3>4. CASE ~Named(art[ManifestOf(p)])
      <4>1. ~MayBeNamed(ManifestOf(p))
        BY <1>5, <3>4 DEF PartSound
      <4>2. w.by # 0
        BY <1>3, <2>1, <2>2, <4>1 DEF FilesOf, Present
      <4>3. w = RecoveryManifest(cur, b)
        BY <1>10, <2>1, <4>2 DEF RecoveryManifest
      <4>4. m = << >>
        BY <1>a, <3>4 DEF ManifestFound
      <4>5. PlanCoexistence(cur, s, b, << >>) = PlanCoexistence(cur, s, b, <<w>>)
        <5>1. <<w>> # << >> /\ <<w>>[1] = w
          OBVIOUS
        <5> QED
          BY <4>3, <5>1 DEF PlanCoexistence
      <4>6. PlanNow(n) = <<i>>
        BY <2>2, <3>1, <3>2, <4>4, <4>5
      <4> QED
        BY <1>a, <1>4, <4>6
    <3> QED
      BY <3>3, <3>4
  <2>5. data[p] = "partial" /\ i.state = "publication_coexistence"
    BY <2>2, <2>3, <2>4
  <2> QED
    BY <1>8, <2>5
<1>11. CASE /\ i = PlanMissing(cur, p, i.man[2], i.proof[1]) /\ i.man[2].by = 0
  <2>1. PICK w, k : w = i.man[2] /\ k = i.proof[1]
    OBVIOUS
  <2>2. /\ i.disposition = "legitimately_missing" /\ s[1] = "final" /\ i.data = << >> /\ i.quar = << >>
    BY <1>a, <1>11, <2>1 DEF PlanMissing, Intent
  <2>3. Missing(i)
    BY <1>3, <2>2 DEF Shape, Prefix, InPlace, Quarantine
  <2>4. CleanupProved(i)
    BY <1>3, <2>3, MissingProved
  <2>5. Named(art[ManifestOf(p)]) /\ val[ManifestOf(p)] = w /\ ~Named(data[p]) /\ i.proof = <<proof[p]>> /\ proof[p] # "none"
    BY <1>a, <1>3, <2>1, <2>3, <2>4 DEF CleanupProved, Missing, FilesOf
  <2>6. k = proof[p] /\ m = <<w>>
    BY <1>a, <2>1, <2>5 DEF ManifestFound
  <2>7. m # << >> /\ m[1] = w
    BY <2>6
  <2>8. PlanNow(n) = IF proof[p] = "none" \/ m = << >> THEN << >> ELSE <<PlanMissing(cur, p, m[1], proof[p])>>
    BY <1>a, <1>5, <2>2, <2>5, PlanNowIs
  <2>9. PlanNow(n) = <<i>>
    BY <1>11, <2>1, <2>5, <2>6, <2>7, <2>8
  <2> QED
    BY <1>a, <1>4, <2>9
<1> QED
  BY <1>a, <1>3, <1>9, <1>10, <1>11 DEF Planned
-----------------------------------------------------------------------------
(* The checks of the files *)

\* What is named holds what its plan says.
LEMMA NamedExact ==
    ASSUME IInv, NEW i, Shape(i), FilesOf(i)
    PROVE  /\ Present(i.man) /\ Named(art[i.man[1]]) => val[i.man[1]] = i.man[2]
           /\ Present(i.quar) /\ Named(art[i.quar[1]]) => val[i.quar[1]] = i.quar[2]
<1>1. ASSUME NEW a \in Artifacts, Named(art[a]) PROVE MayBeNamed(a)
  BY <1>1 DEF IInv, RInv, Raw, MayBeNamed
<1>2. Present(i.man) => i.man[1] \in Artifacts
  BY PlanFiles
<1>3. Present(i.quar) => i.quar[1] \in Artifacts
  BY PlanFiles
<1> QED
  BY <1>1, <1>2, <1>3 DEF FilesOf

\* So does the recovered part.
LEMMA DataNamedExact ==
    ASSUME IInv, NEW t, NEW i, Shape(i), Planned(t, i), FilesOf(i), RangeOf(i), Present(i.data), Named(data[i.data[1]])
    PROVE  DataExact(i.data)
<1>1. i.data[1] \in Parts
  BY PlanFiles
<1>2. data[i.data[1]] \in dataImg[i.data[1]]
  BY <1>1 DEF IInv, RInv, Raw, PartSound
<1>3. CASE Prefix(i)
  BY <1>2, <1>3 DEF RangeOf, DataExact, Named
<1>4. CASE InPlace(i)
  <2>1. i.data[2] = i.bytes /\ ~Missing(i)
    BY <1>4, PlannedKinds
  <2> QED
    BY <1>4, <2>1 DEF FilesOf, InPlace, DataExact
<1> QED
  BY <1>3, <1>4 DEF Shape, Quarantine, Missing

\* Artifacts that are durable hold what their plan says.
LEMMA PreservedHolds ==
    ASSUME IInv, torn = {}, NEW i, Shape(i), Preserved(i), Present(i.data) \/ ~Present(i.man)
    PROVE  /\ HeldExactly(i.man) /\ HeldExactly(i.quar)
           /\ Present(i.data) => bytes[i.data[1]] = i.data[2] /\ (Named(data[i.data[1]]) \/ proof[i.data[1]] # "none")
<1>1. ASSUME NEW a \in Artifacts, \A s \in artImg[a] : Named(s) PROVE Named(art[a])
  BY <1>1 DEF IInv, RInv, Raw
<1>2. /\ Present(i.man) => i.man[1] \in Artifacts
      /\ Present(i.quar) => i.quar[1] \in Artifacts
      /\ Present(i.data) => i.data[1] \in Parts
  BY PlanFiles
<1>3. \A p \in Parts : data[p] \in dataImg[p]
  BY DEF IInv, RInv, Raw, PartSound
<1>4. /\ Present(i.data) => /\ bytes[i.data[1]] = i.data[2] /\ val[i.man[1]] = i.man[2]
                            /\ \A s \in artImg[i.man[1]] : Named(s)
                            /\ (\A s \in dataImg[i.data[1]] : Named(s)) \/ proof[i.data[1]] # "none"
      /\ Present(i.quar) => val[i.quar[1]] = i.quar[2] /\ \A s \in artImg[i.quar[1]] : Named(s)
  BY DEF Preserved
<1> QED
  BY <1>1, <1>2, <1>3, <1>4 DEF HeldExactly

\* Only missing data has a manifest and no data in its plan.
LEMMA KindOf ==
    ASSUME NEW i, Shape(i)
    PROVE  /\ Missing(i) \/ Present(i.data) \/ ~Present(i.man)
           /\ i.disposition = "legitimately_missing" <=> Missing(i)
           /\ i.disposition \in {"removed", "retained", "moved_to_quarantine", "legitimately_missing"}
BY DEF Shape, Prefix, InPlace, Quarantine, Missing

\* Missing data passes the check of its artifacts.
LEMMA MissingHolds ==
    ASSUME IInv, torn = {}, NEW t, NEW i, Shape(i), Missing(i), Planned(t, i), FilesOf(i)
    PROVE  HeldExactly(i.man) /\ HeldExactly(i.quar) /\ ~Present(i.data) /\ CleanupProved(i)
<1>1. CleanupProved(i)
  BY MissingProved
<1>2. i.quar = << >>
  BY PlannedKinds
<1> QED
  BY <1>1, <1>2 DEF CleanupProved, HeldExactly, Present, Missing

\* The checks on the way to the artifacts are passed, ...
LEMMA PublishPasses ==
    ASSUME IInv, KInv, torn = {}, SkipData \/ PublishRange \/ PublishManifest \/ PublishQuarantine PROVE run' # "blocked"
<1>1. SourceStep /\ CInv /\ RInv
  BY DEF SourceStep, IInv
<1>2. Working /\ run \notin {"up", "blocked"} /\ plan # << >> /\ Facts = 1
  <2>1. pc \in {"data", "dataname", "datasync", "manifest", "manifestname", "manifestsync",
               "quarantine", "quarantinename", "quarantinesync"}
    BY DEF SkipData, PublishRange, PrepareRange, PublishStream, AcceptRange, PublishManifest, PublishQuarantine,
           PublishArtifact, WriteArtifact, AcceptArtifact, At
  <2> QED
    BY <1>1, <2>1, AtStep DEF FactsFit, Working, Settling
<1>3. /\ Shape(intent) /\ Planned(cur, intent) /\ FilesOf(intent) /\ RangeOf(intent)
  BY <1>1, <1>2, AtPlan, AtStep DEF Kept
<1>4. ASSUME NEW s, Goto(s) PROVE run' # "blocked"
  BY <1>2, <1>4 DEF Goto
<1>5. CASE SkipData
  <2>1. intent.disposition = "legitimately_missing" => CleanupProved(intent)
    BY <1>3, KindOf, MissingHolds
  <2> QED
    BY <1>4, <1>5, <2>1 DEF SkipData, GotoIf
<1>6. CASE PublishRange
  <2>a. PICK q : q = intent.data[1]
    OBVIOUS
  <2>1. Present(intent.data)
    BY <1>3, <1>6 DEF PublishRange, NoRange, Shape, Prefix, InPlace, Quarantine, Missing
  <2>2. Named(data[q]) => bytes[q] = intent.data[2]
    BY <1>3, <2>a, <2>1, DataNamedExact DEF DataExact
  <2>3. PrepareRange(q) \/ PublishStream(q) \/ AcceptRange(q)
    BY <1>6, <2>a DEF PublishRange
  <2>4. CASE PrepareRange(q) \/ PublishStream(q)
    BY <1>4, <2>4 DEF PrepareRange, PublishStream
  <2>5. CASE AcceptRange(q)
    BY <1>4, <2>2, <2>5 DEF AcceptRange
  <2> QED
    BY <2>3, <2>4, <2>5
<1>7. ASSUME NEW a, NEW c, NEW here, NEW name, NEW sync, NEW next, PublishArtifact(a, c, here, name, sync, next),
             Named(art[a]) => val[a] = c
      PROVE  run' # "blocked"
  <2>1. CASE WriteArtifact(a, c, here, name, sync)
    BY <1>4, <2>1 DEF WriteArtifact
  <2>2. CASE AcceptArtifact(a, c, here, next)
    BY <1>4, <1>7, <2>2 DEF AcceptArtifact
  <2> QED
    BY <1>7, <2>1, <2>2 DEF PublishArtifact
<1>8. CASE PublishManifest
  <2>1. Present(intent.man) /\ (Named(art[intent.man[1]]) => val[intent.man[1]] = intent.man[2])
    BY <1>3, <1>8, NamedExact DEF PublishManifest
  <2>2. \/ PublishArtifact(intent.man[1], intent.man[2], "manifest", "manifestname", "manifestsync", "quarantine")
        \/ Goto("quarantine")
    BY <1>8 DEF PublishManifest
  <2> QED
    BY <1>4, <1>7, <2>1, <2>2
<1>9. CASE PublishQuarantine
  <2>1. Present(intent.quar) /\ Named(art[intent.quar[1]]) => val[intent.quar[1]] = intent.quar[2]
    BY <1>3, NamedExact
  <2>2. \/ /\ Present(intent.quar)
           /\ PublishArtifact(intent.quar[1], intent.quar[2], "quarantine", "quarantinename", "quarantinesync", "verify")
        \/ Goto("verify")
    BY <1>9 DEF PublishQuarantine
  <2> QED
    BY <1>4, <1>7, <2>1, <2>2
<1> QED
  BY <1>5, <1>6, <1>8, <1>9

\* ... and those of the artifacts, before and after the fact that says they are durable, ...
LEMMA VerifyPasses ==
    ASSUME IInv, KInv, torn = {}, Working /\ pc # "next" => Ready, VerifyArtifacts PROVE run' # "blocked"
<1>1. SourceStep /\ CInv /\ RInv
  BY DEF SourceStep, IInv
<1>2. Working /\ run \notin {"up", "blocked"} /\ plan # << >> /\ Facts \in 1..2 /\ pc = "verify" /\ Ready
  <2>1. pc = "verify"
    BY DEF VerifyArtifacts, At
  <2> QED
    BY <1>1, <2>1, AtStep DEF FactsFit, Working, Settling
<1>3. Shape(intent) /\ Kept(cur, intent, Facts, Facts)
  BY <1>1, <1>2, AtPlan, AtStep
<1>4. Planned(cur, intent) /\ FilesOf(intent) /\ RangeOf(intent)
  BY <1>2, <1>3 DEF Kept
<1>5. /\ HeldExactly(intent.man) /\ HeldExactly(intent.quar)
      /\ Present(intent.data) => DataExact(intent.data)
      /\ intent.disposition = "legitimately_missing" => CleanupProved(intent)
  <2>1. CASE Missing(intent)
    BY <1>3, <1>4, <2>1, MissingHolds
  <2>2. CASE ~Missing(intent) /\ Facts = 1
    <3>1. HeldExactly(intent.man) /\ HeldExactly(intent.quar)
      BY <1>2, <1>3, <1>4, <2>2, NamedExact DEF Ready, HeldExactly
    <3>2. Present(intent.data) => DataExact(intent.data)
      BY <1>2, <1>3, <1>4, <2>2, DataNamedExact DEF Ready
    <3> QED
      BY <1>3, <2>2, <3>1, <3>2, KindOf
  <2>3. CASE ~Missing(intent) /\ Facts = 2
    <3>1. Preserved(intent) /\ DataNamed(intent)
      BY <1>3, <2>3 DEF Kept
    <3>2. /\ HeldExactly(intent.man) /\ HeldExactly(intent.quar)
          /\ Present(intent.data) => bytes[intent.data[1]] = intent.data[2]
      BY <1>3, <2>3, <3>1, KindOf, PreservedHolds
    <3>3. Present(intent.data) => Named(data[intent.data[1]])
      <4>1. Present(intent.data) => intent.data[1] \in Parts
        BY <1>3, PlanFiles
      <4> QED
        BY <1>1, <3>1, <4>1 DEF DataNamed, RInv, Raw, PartSound, Named, NamedStates
    <3> QED
      BY <1>3, <2>3, <3>2, <3>3, KindOf DEF DataExact
  <2> QED
    BY <1>2, <2>1, <2>2, <2>3
<1> QED
  BY <1>2, <1>5 DEF VerifyArtifacts, GotoIf, Goto

\* ... of the source when it is settled, ...
LEMMA SettlePasses == ASSUME IInv, KInv, torn = {}, SettleSource PROVE run' # "blocked"
<1>1. SourceStep /\ CInv /\ RInv
  BY DEF SourceStep, IInv
<1>2. Working /\ run \notin {"up", "blocked"} /\ plan # << >> /\ Facts = 2 /\ src = intent.source
  <2>1. pc \in {"settle", "settlesync"}
    BY DEF SettleSource, At
  <2> QED
    BY <1>1, <2>1, AtStep DEF FactsFit, Working, Settling, Leased
<1>3. Shape(intent) /\ Kept(cur, intent, Facts, Facts) /\ intent.source[2] \in Parts
  BY <1>1, <1>2, AtPlan, AtStep, PlanFiles
<1>4. Planned(cur, intent) /\ FilesOf(intent) /\ DataNamed(intent) /\ (Missing(intent) \/ Preserved(intent))
  BY <1>2, <1>3 DEF Kept
<1>5. intent.disposition = "retained" => DataExact(intent.data)
  <2>1. SUFFICES ASSUME intent.disposition = "retained" PROVE DataExact(intent.data)
    OBVIOUS
  <2>2. Present(intent.data) /\ ~Missing(intent)
    BY <1>3, <2>1 DEF Shape, Prefix, InPlace, Quarantine, Missing
  <2>3. bytes[intent.data[1]] = intent.data[2] /\ intent.data[1] \in Parts
    BY <1>3, <1>4, <2>2, PlanFiles DEF Preserved
  <2>4. Named(data[intent.data[1]])
    BY <1>1, <1>4, <2>2, <2>3 DEF DataNamed, RInv, Raw, PartSound, Named, NamedStates
  <2> QED
    BY <2>3, <2>4 DEF DataExact
<1>6. SourcePresent(src) => bytes[src[2]] = intent.bytes
  <2>1. CASE Missing(intent)
    <3>1. CleanupProved(intent) /\ intent.source[1] = "final"
      BY <1>3, <1>4, <2>1, MissingProved DEF Missing
    <3> QED
      BY <1>2, <3>1 DEF CleanupProved, SourcePresent
  <2>2. CASE ~Missing(intent)
    BY <1>2, <1>4, <2>2 DEF FilesOf
  <2> QED
    BY <2>1, <2>2
<1>7. ASSUME NEW s, Goto(s) PROVE run' # "blocked"
  BY <1>2, <1>7 DEF Goto
<1> QED
  BY <1>5, <1>6, <1>7 DEF SettleSource, GotoIf

\* ... and those of a transaction that is settled, at any later start.
LEMMA SettledHolds ==
    ASSUME IInv, KInv, torn = {}, Working, pc # "next", plan # << >>, Facts \in 3..6 PROVE ChainHolds
<1>1. CInv /\ RInv /\ KRaw /\ Leased
  BY DEF IInv, KInv, RInv, Progress
<1>2. cur \in Held /\ IntentOf(cur) = intent /\ src = intent.source
  BY <1>1 DEF Held, IntentOf, Leased
<1>3. Shape(intent) /\ Kept(cur, intent, durable[cur], Facts)
  BY <1>1, <1>2 DEF RInv, Raw, KRaw, Facts
<1>4. Planned(cur, intent) /\ FilesOf(intent) /\ (Missing(intent) \/ Preserved(intent)) /\ SourceGone(intent)
  BY <1>3 DEF Kept
<1>5. /\ HeldExactly(intent.man) /\ HeldExactly(intent.quar)
      /\ Present(intent.data) => \/ DataExact(intent.data)
                                \/ (~Named(data[intent.data[1]]) /\ proof[intent.data[1]] # "none")
  <2>1. CASE Missing(intent)
    BY <1>3, <1>4, <2>1, MissingHolds
  <2>2. CASE ~Missing(intent)
    BY <1>3, <1>4, <2>2, KindOf, PreservedHolds DEF DataExact
  <2> QED
    BY <2>1, <2>2
<1>6. intent.disposition = "legitimately_missing" => CleanupProved(intent)
  BY <1>3, <1>4, KindOf, MissingHolds
<1>7. intent.disposition \in {"removed", "moved_to_quarantine"} => ~SourcePresent(src)
  <2>1. data[src[2]] \in dataImg[src[2]]
    <3>1. src[2] \in Parts
      BY <1>2, <1>3, PlanFiles
    <3> QED
      BY <1>1, <3>1 DEF RInv, Raw, PartSound
  <2> QED
    BY <1>2, <1>4, <2>1 DEF SourceGone, SourcePresent, Partial, Named, NamedStates
<1>8. CASE intent.disposition = "legitimately_missing"
  BY <1>5, <1>6, <1>8 DEF ChainHolds
<1>9. CASE intent.disposition = "retained"
  BY <1>5, <1>9 DEF ChainHolds
<1>10. CASE intent.disposition \in {"removed", "moved_to_quarantine"}
  BY <1>5, <1>7, <1>10 DEF ChainHolds
<1> QED
  BY <1>3, <1>8, <1>9, <1>10, KindOf

\* A settled transaction, told or not, is accepted by every later start.
LEMMA RecheckPasses == ASSUME IInv, KInv, torn = {}, RecheckChain PROVE run' # "blocked"
<1>1. SourceStep /\ CInv /\ RInv
  BY DEF SourceStep, IInv
<1>2. Working /\ run \notin {"up", "blocked"} /\ pc = "recheck" /\ plan # << >> /\ Facts \in 3..6
  <2>1. pc = "recheck"
    BY DEF RecheckChain, At
  <2> QED
    BY <1>1, <2>1, AtStep DEF FactsFit, Working, Settling
<1>3. ChainHolds
  BY <1>2, SettledHolds
<1>4. Facts = 5 => CarrierHolds(carrier)
  <2>1. SUFFICES ASSUME Facts = 5 PROVE CarrierHolds(carrier)
    OBVIOUS
  <2>2. cur \in Txs /\ Len(chain[cur]) = 5 /\ cur \in Journal
    BY <1>1, <2>1, CurrentLength
  <2>3. Shown(cur, carrier) /\ carrier \in Carriers
    BY <1>1, <2>2 DEF CInv, Control, carrier
  <2>4. ctl[carrier] \in ctlImg[carrier] /\ cman[carrier] \in cmanImg[carrier]
    BY <1>1, <2>3 DEF CInv, Control
  <2> QED
    BY <2>3, <2>4 DEF Shown, CarrierHolds
<1> QED
  BY <1>2, <1>3, <1>4 DEF RecheckChain, GotoIf, Goto

\* A carrier stops recovery with a torn manifest of the writer only.
LEMMA CarrierCause ==
    ASSUME IInv, KInv, CarrierFiles, torn = {}, CarrierStep, run' = "blocked" PROVE TornCarrierManifest'
<1>1. CInv /\ CarrierStays /\ Control
  BY CarrierStepStays DEF IInv, CInv
<1>2. PICK k : k = carrier
  OBVIOUS
<1>3. Working /\ pc # "next" /\ plan # << >> /\ Facts = 4 /\ run \notin {"up", "blocked"}
  BY <1>1 DEF CarrierStays, CInv, Flow, FactsFit, Working, Settling
<1>4. cur \in Txs /\ Owns(cur, k) /\ k \in Carriers
  <2>1. cur \in Txs /\ Len(chain[cur]) = 4 /\ cur \in Journal
    BY <1>1, <1>3, CurrentLength
  <2> QED
    BY <1>1, <1>2, <2>1 DEF Control, Owns, carrier
<1>5. ctl[k] \in ctlImg[k] /\ cman[k] \in cmanImg[k]
  BY <1>1, <1>4 DEF Control
<1>6. cman[k] # "absent" => ctl[k] = "final" /\ row[k] = {cur}
  <2>1. SUFFICES ASSUME cman[k] # "absent" PROVE ctl[k] = "final" /\ row[k] = {cur}
    OBVIOUS
  <2>2. ctlImg[k] = {"final"} /\ ctl[k] = "final"
    BY <1>4, <1>5, <2>1 DEF CarrierFiles
  <2>3. row[k] # {}
    BY <1>4, <2>2 DEF CarrierFiles, Filled
  <2>4. PICK t \in Txs : Owns(t, k) /\ row[k] \subseteq {t}
    BY <1>1, <1>4, <1>5, <2>1 DEF Control, NoCarrier
  <2>5. t = cur
    BY <1>1, <1>4, <2>4 DEF Control
  <2> QED
    BY <2>2, <2>3, <2>4, <2>5
<1>7. ChainHolds
  BY <1>3, SettledHolds
<1>8. ASSUME NEW s, Goto(s) PROVE FALSE
  BY <1>3, <1>8 DEF Goto
<1>9. cman[k] \in {"nfinal", "rfinal"} => CarrierHolds(carrier)
  BY <1>2, <1>6 DEF CarrierHolds
<1>10. ~Acknowledge /\ ~AcceptCarrier
  <2>1. cmanImg[k] = {"nfinal"} => cman[k] = "nfinal"
    BY <1>5
  <2> QED
    BY <1>2, <1>7, <1>8, <1>9, <2>1 DEF Acknowledge, AcceptCarrier, GotoIf
<1>11. ~WriteCarrier /\ ~RestoreData /\ ~SettleCoexistence /\ ~RestoreManifest /\ ~RestoreSync
  BY <1>8 DEF WriteCarrier, RestoreData, SettleCoexistence, RestoreManifest, RestoreSync
<1>12. CASE SettleNormalManifest
  <2>1. ~(cman[k] # "ntorn" /\ ctl[k] = "final") /\ cman[k] \in {"ntorn", "ntemp", "nboth"} /\ UNCHANGED controlVars
    BY <1>2, <1>8, <1>12 DEF SettleNormalManifest
  <2>2. cman[k] = "ntorn" /\ cman' = cman
    BY <1>6, <2>1 DEF controlVars
  <2> QED
    BY <1>4, <2>2 DEF TornCarrierManifest
<1> QED
  BY <1>10, <1>11, <1>12 DEF CarrierStep

\* A start that is blocked stays as it is until the process is started again.
LEMMA BlockedRests ==
    ASSUME CInv, [Next]_vars, run = "blocked", run' = "blocked" PROVE UNCHANGED vars
<1>1. ASSUME SourceStep \/ CarrierStep PROVE FALSE
  BY <1>1, SourceStepStays, CarrierStepStays DEF Stays, CarrierStays, Working, Settling
<1>2. ASSUME Between PROVE FALSE
  BY <1>2 DEF Between, LoadJournal, NextChain, DiscoverManifests, DiscoverUnbound, NextSource, PlanFresh, Settled, Admit, Advance, At
<1>3. ASSUME PublishFact \/ SyncFact PROVE FALSE
  BY <1>3 DEF PublishFact, SyncFact, At
<1>4. ASSUME Kill \/ PowerLoss PROVE FALSE
  BY <1>4 DEF Kill, PowerLoss, Begin
<1>5. ASSUME NEW p \in Parts, RemoveData(p) PROVE FALSE
  BY <1>5 DEF RemoveData
<1>6. ASSUME TempStep PROVE FALSE
  BY <1>6 DEF TempStep, SettleTemporary, PublishTemporary, SyncTemporary, At
<1> QED
  BY <1>1, <1>2, <1>3, <1>4, <1>5, <1>6 DEF Next, Process, SourceStep, CarrierStep, Between, TempStep

\* The causes read files, proofs and the journal only.
LEMMA CauseStays ==
    ASSUME BlockedForCause, run = "blocked", UNCHANGED vars PROVE BlockedForCause'
<1>1. UNCHANGED <<data, art, proof, cman, torn, chain, run>>
  BY DEF vars, rawVars, journalVars, controlVars
<1>2. Journal' = Journal
  BY <1>1 DEF Journal
<1> QED
  BY <1>1, <1>2 DEF BlockedForCause, Unexplained, TornCarrierManifest, NamesReverted

\* A power loss alone tears a manifest.
LEMMA TornStays ==
    ASSUME CInv, [Next]_vars, run' = "blocked" PROVE torn' = torn
<1>1. CASE SourceStep
  BY <1>1, SourceStepStays DEF Stays, controlVars
<1>2. CASE CarrierStep
  BY <1>2 DEF CarrierStep, WriteCarrier, Acknowledge, RestoreData, SettleCoexistence, SettleNormalManifest,
         RestoreManifest, RestoreSync, AcceptCarrier, SetCtl, SetCman, FillCarrier, SyncControl, controlVars
<1>3. CASE Between
  BY <1>3 DEF Between, LoadJournal, NextChain, DiscoverManifests, DiscoverUnbound, NextSource, PlanFresh, Settled,
     Admit, Advance, controlVars
<1>4. CASE PublishFact \/ SyncFact
  BY <1>4 DEF PublishFact, SyncFact, controlVars
<1>5. CASE TempStep
  BY <1>5, TempStepSettles DEF controlVars
<1>6. ASSUME Kill \/ PowerLoss PROVE FALSE
  BY <1>6 DEF Kill, PowerLoss, Begin
<1>7. ASSUME NEW p \in Parts, RemoveData(p) PROVE torn' = torn
  BY <1>7 DEF RemoveData, controlVars
<1>8. CASE UNCHANGED vars
  BY <1>8 DEF vars, controlVars
<1> QED
  BY <1>1, <1>2, <1>3, <1>4, <1>5, <1>6, <1>7, <1>8 DEF Next, Process, SourceStep, CarrierStep, Between, TempStep

\* A temporary of the writer's whose bytes are whole is accepted: its data is published.
LEMMA TemporaryPasses == ASSUME IInv, KInv, torn = {}, TempStep PROVE run' # "blocked"
<1>1. CASE SettleTemporary
  <2>1. PICK p : p = Min(WriterTemporaries) /\ p \in WriterTemporaries
    BY <1>1, NextTemporary DEF SettleTemporary
  <2>2. p \in Parts /\ Temporary(p)
    BY <2>1, WritersOwn
  <2>3. data[p] = "final"
    BY <2>2 DEF Temporary, IInv, RInv, Raw, PartSound
  <2>4. val[ManifestOf(p)].of = bytes[p]
    BY <2>2 DEF Temporary, RecoveryManifest
  <2>5. Loads(p)
    BY <2>3, <2>4 DEF Loads, DataExact, Named
  <2> QED
    BY <1>1, <2>1, <2>5 DEF SettleTemporary
<1> QED
  BY <1>1 DEF TempStep, PublishTemporary, SyncTemporary

\* No step blocks a start without one of them.
LEMMA CauseStep ==
    ASSUME IInv, KInv, Proofs, BInv, [Next]_vars PROVE BlockedForCause'
<1>1. CInv /\ RInv
  BY DEF IInv
<1>2. SUFFICES ASSUME run' = "blocked" PROVE BlockedForCause'
  BY DEF BlockedForCause
<1>3. CASE run = "blocked"
  BY <1>1, <1>2, <1>3, BlockedRests, CauseStays DEF BInv
<1>4. CASE run # "blocked"
  <2>a. SUFFICES ASSUME torn' = {} PROVE BlockedForCause'
    BY DEF BlockedForCause
  <2>b. torn = {}
    BY <1>1, <1>2, <2>a, TornStays
  <2>1. CASE SourceLease \/ DestinationLease
    <3>1. run' = run
      BY <2>1 DEF SourceLease, DestinationLease, TakeLease, Goto
    <3> QED
      BY <1>2, <1>4, <3>1
  <2>2. CASE PlanResumed
    <3>1. PlanNow(FrozenSequence(intent)) # plan
      BY <1>2, <1>4, <2>2 DEF PlanResumed, GotoIf, Goto
    <3>2. NamesReverted
      BY <2>b, <2>2, <3>1, ResumedCause
    <3>3. UNCHANGED <<data, chain>>
      BY <2>2 DEF PlanResumed, rawVars, journalVars
    <3>4. NamesReverted'
      BY <3>2, <3>3 DEF NamesReverted, Journal
    <3> QED
      BY <3>4 DEF BlockedForCause
  <2>3. CASE SkipData \/ PublishRange \/ PublishManifest \/ PublishQuarantine
    BY <1>2, <2>b, <2>3, PublishPasses
  <2>4. CASE VerifyArtifacts
    BY <1>2, <2>b, <2>4, VerifyPasses DEF BInv
  <2>5. CASE SettleSource
    BY <1>2, <2>b, <2>5, SettlePasses
  <2>6. CASE RecheckChain
    BY <1>2, <2>b, <2>6, RecheckPasses
  <2>7. CASE CarrierStep
    BY <1>2, <2>b, <2>7, CarrierCause DEF BInv, BlockedForCause
  <2>8. CASE LoadJournal
    BY <1>2, <2>8, LoadPasses DEF BInv
  <2>9. CASE DiscoverUnbound
    BY <1>2, <2>9, SearchPasses
  <2>10. CASE PlanFresh
    BY <1>2, <2>b, <2>10, FreshCause DEF BlockedForCause
  <2>11. CASE NextChain \/ NextSource \/ Settled \/ Admit \/ Advance
    BY <1>2, <1>4, <2>11 DEF NextChain, NextSource, Settled, Admit, Advance
  <2>12. CASE PublishFact
    BY <1>2, <2>12, FactPasses DEF BInv
  <2>13. CASE SyncFact
    BY <1>2, <1>4, <2>13 DEF SyncFact, Goto
  <2>14. CASE Kill \/ PowerLoss
    BY <1>2, <2>14 DEF Kill, PowerLoss, Begin
  <2>15. ASSUME NEW p \in Parts, RemoveData(p) PROVE FALSE
    BY <1>2, <1>4, <2>15 DEF RemoveData
  <2>16. CASE UNCHANGED vars
    BY <1>2, <1>4, <2>16 DEF vars
  <2>17. CASE DiscoverManifests
    BY <1>2, <2>b, <2>17 DEF DiscoverManifests
  <2>18. CASE TempStep
    BY <1>2, <2>b, <2>18, TemporaryPasses
  <2> QED
    BY <2>1, <2>2, <2>3, <2>4, <2>5, <2>6, <2>7, <2>8, <2>9, <2>10, <2>11, <2>12, <2>13, <2>14, <2>15, <2>16,
       <2>17, <2>18
       DEF Next, Process, CarrierStep, TempStep
<1> QED
  BY <1>3, <1>4

\* The first start has no journal and no carrier, and is not blocked.
LEMMA BInitially == ASSUME Init PROVE BInv
<1>1. Journal = {} /\ run = "load"
  BY DEF Init, Journal
<1>2. CarrierFiles
  BY DEF Init, CarrierFiles, Filled
<1>3. Contents
  <2>1. PICK left \in Leftovers : bytes = [p \in Parts |-> IF p \in Sources THEN left[p].bytes ELSE Bytes(0, 0)]
    BY DEF Init
  <2>2. ASSUME NEW p \in Sources PROVE left[p].bytes = Bytes(left[p].bytes.frames, left[p].bytes.tail)
    BY LeftoverAssumption
  <2>3. Bytes(0, 0) = Bytes(Bytes(0, 0).frames, Bytes(0, 0).tail)
    BY DEF Bytes
  <2> QED
    BY <2>1, <2>2, <2>3 DEF Contents
<1> QED
  BY <1>1, <1>2, <1>3 DEF BInv, Bound, Working, Settling, BlockedForCause

\* BInv holds at every step of every start.
THEOREM BInvAlways == Spec => []BInv
<1>1. Init => BInv
  BY BInitially
<1>2. IInv /\ IInv' /\ KInv /\ Proofs /\ BInv /\ [Next]_vars => BInv'
  <2>1. SUFFICES ASSUME IInv, IInv', KInv, Proofs, BInv, [Next]_vars PROVE BInv'
    OBVIOUS
  <2>2. Bound' /\ CarrierFiles' /\ Contents'
    BY <2>1, BoundStays, CarrierFilesStay, ContentsStay DEF BInv
  <2>3. Working' /\ pc' # "next" => Ready'
    BY <2>1, ReadyStays DEF BInv
  <2>4. BlockedForCause'
    BY <2>1, CauseStep
  <2> QED
    BY <2>2, <2>3, <2>4 DEF BInv
<1> QED
  BY <1>1, <1>2, IInvAlways, KInvAlways, ProofsAlways, PTL DEF Spec

\* Whatever was left behind and however often the process or the machine stops,
\* a start is blocked (recovery.py: RecoveryBlocked) only by data that is missing
\* without a cleanup proof, by a manifest that the writer, of a part or of the control
\* stream, had half written or not synced when the machine stopped, or by a name that
\* a power loss took back from under a journaled plan: every other check, of the
\* temporaries (_load_bound_manifest_temporary), of the journal (_validate_recovery_chain_bindings,
\* _preflight_recovery_ownership), of the files (_verify_artifacts_durable,
\* _verify_settled_chain_artifacts) and of the carriers (_verify_owned_control_carrier),
\* accepts what earlier starts, stopped at any step, have made.
THEOREM BlockedAlwaysForCause == Spec => []BlockedForCause
<1>1. BInv => BlockedForCause
  BY DEF BInv
<1> QED
  BY <1>1, BInvAlways, PTL
=============================================================================
