------------------------- MODULE EgressHealthProofs -------------------------
(***************************************************************************)
(* Proofs about the network policy, for any number of processes, egresses  *)
(* and groups, any delays, and without regard to the bounds on faults.     *)
(*                                                                         *)
(* What is owed is bounded by the stored row, since a report only raises   *)
(* it and a step back of the wall clock only lengthens it; by a token as   *)
(* long as the row has the revision the token was minted at; and, for what *)
(* a process had been told at its admission, by the monotonic deadlines of *)
(* that admission.  None of the three is inductive without the first.      *)
(***************************************************************************)
EXTENDS EgressHealth, TLAPS

Pcs == {"idle", "admitted", "sent", "waiting", "probed", "lifted"}
Things == Groups \cup Egresses
Maps(keys, values) == UNION {[K -> values] : K \in SUBSET keys}
Token == [rev : Nat, after : Nat]
Process == [pc : Pcs, health : Maps(Egresses, Nat), quotaProbe : Maps(Groups, Token),
            transportProbe : Maps(Egresses, Token), told : Maps(Things, Nat),
            on : Egresses \cup {"none"}, attempt : Nat, deadline : Int, wake : Nat]

Types ==
    /\ quota \in [Groups -> [ban : Int, cooldown : Int, pending : BOOLEAN, rev : Nat]]
    /\ egress \in [Egresses -> [fails : Nat, cooldown : Int, rev : Nat]]
    /\ owed \in [Things -> Nat]
    /\ worker \in [Workers -> Process]
    /\ \A w \in Workers : /\ worker[w].pc \in {"sent", "probed", "lifted"} => worker[w].on \in Egresses
                          /\ worker[w].pc # "idle" => DOMAIN worker[w].told = Things

\* The stored rows cover what is owed.
RowsCover ==
    /\ \A g \in Groups : owed[g] <= QuotaLeft(g) /\ (owed[g] > 0 => quota[g].pending)
    /\ \A e \in Egresses : owed[e] <= TransportLeft(e) /\ (owed[e] > 0 => egress[e].fails > 0)

\* A token is not of a later revision than its row, and covers what is owed
\* while it is of the same.
TokenCovers(token, row, left) ==
    /\ token.rev <= row.rev
    /\ token.rev = row.rev => left <= token.after

TokensCover(w) ==
    /\ \A g \in DOMAIN worker[w].quotaProbe :
          TokenCovers(worker[w].quotaProbe[g], quota[g], owed[g])
    /\ \A e \in DOMAIN worker[w].transportProbe :
          TokenCovers(worker[w].transportProbe[e], egress[e], owed[e])

\* The deadlines of an admission cover what the process had been told by then.
HealthCovers(w) ==
    worker[w].pc # "idle" =>
       \A e \in Egresses :
          LET told == worker[w].told IN
          IF e \in DOMAIN worker[w].health
          THEN told[Group[e]] <= worker[w].health[e] /\ told[e] <= worker[w].health[e]
          ELSE told[Group[e]] = 0 /\ told[e] = 0

IInv == Types /\ RowsCover /\ \A w \in Workers : TokensCover(w) /\ HealthCovers(w)
-----------------------------------------------------------------------------
LEMMA MaxOfFacts ==
    ASSUME NEW a \in Int, NEW b \in Int
    PROVE  /\ MaxOf(a, b) \in Int /\ a <= MaxOf(a, b) /\ b <= MaxOf(a, b)
           /\ MaxOf(a, b) = a \/ MaxOf(a, b) = b
           /\ a \in Nat \/ b \in Nat => MaxOf(a, b) \in Nat
BY DEF MaxOf

\* A map of a type is a function on some of the keys.
LEMMA MapFacts ==
    ASSUME NEW keys, NEW values, NEW m
    PROVE  m \in Maps(keys, values) <=> DOMAIN m \subseteq keys /\ m \in [DOMAIN m -> values]
<1>1. ASSUME m \in Maps(keys, values) PROVE DOMAIN m \subseteq keys /\ m \in [DOMAIN m -> values]
  <2>1. PICK K \in SUBSET keys : m \in [K -> values]
    BY <1>1 DEF Maps
  <2> QED
    BY <2>1
<1>2. ASSUME DOMAIN m \subseteq keys, m \in [DOMAIN m -> values] PROVE m \in Maps(keys, values)
  BY <1>2 DEF Maps
<1> QED
  BY <1>1, <1>2

LEMMA GroupFacts == \A e \in Egresses : Group[e] \in Groups
BY DEF Groups

LEMMA NothingFacts ==
    /\ DOMAIN Nothing = {}
    /\ \A keys, values : Nothing \in Maps(keys, values)
<1>1. DOMAIN Nothing = {} /\ \A values : Nothing \in [{} -> values]
  BY DEF Nothing
<1> QED
  BY <1>1 DEF Maps

LEMMA IdleFacts ==
    /\ Idle \in Process /\ Idle.pc = "idle"
    /\ DOMAIN Idle.quotaProbe = {} /\ DOMAIN Idle.transportProbe = {}
BY NothingFacts DEF Idle, Process, Pcs

\* The fields of a process.
LEMMA ProcessFacts ==
    ASSUME Types, NEW w \in Workers
    PROVE  /\ worker[w] \in Process /\ worker[w].pc \in Pcs
           /\ DOMAIN worker[w].health \subseteq Egresses
           /\ worker[w].health \in [DOMAIN worker[w].health -> Nat]
           /\ DOMAIN worker[w].quotaProbe \subseteq Groups
           /\ worker[w].quotaProbe \in [DOMAIN worker[w].quotaProbe -> Token]
           /\ DOMAIN worker[w].transportProbe \subseteq Egresses
           /\ worker[w].transportProbe \in [DOMAIN worker[w].transportProbe -> Token]
           /\ worker[w].told \in [DOMAIN worker[w].told -> Nat]
           /\ worker[w].attempt \in Nat /\ worker[w].deadline \in Int /\ worker[w].wake \in Nat
<1>1. worker[w] \in Process
  BY DEF Types
<1>2. /\ worker[w].health \in Maps(Egresses, Nat) /\ worker[w].quotaProbe \in Maps(Groups, Token)
      /\ worker[w].transportProbe \in Maps(Egresses, Token) /\ worker[w].told \in Maps(Things, Nat)
      /\ worker[w].attempt \in Nat /\ worker[w].deadline \in Int /\ worker[w].wake \in Nat
      /\ worker[w].pc \in Pcs
  BY <1>1 DEF Process
<1> QED
  BY <1>1, <1>2, MapFacts

LEMMA InitIInv == Init => IInv
<1> SUFFICES ASSUME Init PROVE IInv
  OBVIOUS
<1>1. Types
  BY IdleFacts DEF Init, Types, Things
<1>2. RowsCover
  BY DEF Init, RowsCover, QuotaLeft, TransportLeft, MaxOf, Things
<1>3. \A w \in Workers : TokensCover(w) /\ HealthCovers(w)
  BY IdleFacts DEF Init, TokensCover, HealthCovers
<1> QED
  BY <1>1, <1>2, <1>3 DEF IInv

\* Every step but an admission and the passing of time: the rows only move to
\* later revisions or owe less, and a process keeps what it was given at its
\* admission or becomes idle.
LEMMA QuietStep ==
    ASSUME IInv, Types', RowsCover',
           \A g \in Groups : /\ quota[g].rev <= quota'[g].rev
                             /\ quota[g].rev = quota'[g].rev => owed'[g] <= owed[g],
           \A e \in Egresses : /\ egress[e].rev <= egress'[e].rev
                               /\ egress[e].rev = egress'[e].rev => owed'[e] <= owed[e],
           \A v \in Workers :
              \/ worker'[v] = Idle
              \/ /\ worker'[v].quotaProbe = worker[v].quotaProbe
                 /\ worker'[v].transportProbe = worker[v].transportProbe
                 /\ worker'[v].health = worker[v].health /\ worker'[v].told = worker[v].told
                 /\ worker[v].pc = "idle" => worker'[v].pc = "idle"
    PROVE  IInv'
<1> SUFFICES ASSUME NEW v \in Workers PROVE TokensCover(v)' /\ HealthCovers(v)'
  BY DEF IInv
<1>0. Types /\ TokensCover(v) /\ HealthCovers(v)
  BY DEF IInv
<1>1. CASE worker'[v] = Idle
  BY <1>1, IdleFacts DEF TokensCover, HealthCovers
<1>2. CASE /\ worker'[v].quotaProbe = worker[v].quotaProbe
           /\ worker'[v].transportProbe = worker[v].transportProbe
           /\ worker'[v].health = worker[v].health /\ worker'[v].told = worker[v].told
           /\ worker[v].pc = "idle" => worker'[v].pc = "idle"
  <2>1. ASSUME NEW g \in DOMAIN worker[v].quotaProbe
        PROVE  TokenCovers(worker[v].quotaProbe[g], quota'[g], owed'[g])
    <3>1. g \in Groups /\ worker[v].quotaProbe[g].rev \in Nat /\ worker[v].quotaProbe[g].after \in Nat
      BY <1>0, ProcessFacts DEF Token
    <3>2. TokenCovers(worker[v].quotaProbe[g], quota[g], owed[g])
      BY <1>0 DEF TokensCover
    <3>3. /\ quota[g].rev \in Nat /\ quota'[g].rev \in Nat
          /\ owed[g] \in Nat /\ owed'[g] \in Nat
      BY <1>0, <3>1 DEF Types, Things
    <3> QED
      BY <3>1, <3>2, <3>3 DEF TokenCovers
  <2>2. ASSUME NEW e \in DOMAIN worker[v].transportProbe
        PROVE  TokenCovers(worker[v].transportProbe[e], egress'[e], owed'[e])
    <3>1. e \in Egresses /\ worker[v].transportProbe[e].rev \in Nat
          /\ worker[v].transportProbe[e].after \in Nat
      BY <1>0, ProcessFacts DEF Token
    <3>2. TokenCovers(worker[v].transportProbe[e], egress[e], owed[e])
      BY <1>0 DEF TokensCover
    <3>3. /\ egress[e].rev \in Nat /\ egress'[e].rev \in Nat
          /\ owed[e] \in Nat /\ owed'[e] \in Nat
      BY <1>0, <3>1 DEF Types, Things
    <3> QED
      BY <3>1, <3>2, <3>3 DEF TokenCovers
  <2>3. TokensCover(v)'
    BY <1>2, <2>1, <2>2 DEF TokensCover
  <2>4. HealthCovers(v)'
    BY <1>0, <1>2 DEF HealthCovers
  <2> QED
    BY <2>3, <2>4
<1> QED
  BY <1>1, <1>2
-----------------------------------------------------------------------------
(* Replies *)

\* A process that moves on keeps what its admission gave it.
LEMMA MoveOn ==
    ASSUME Types, NEW w \in Workers, NEW r \in Process,
           worker' = [worker EXCEPT ![w] = r],
           \/ r = Idle
           \/ /\ worker[w].pc # "idle" /\ r.told = worker[w].told
              /\ r.quotaProbe = worker[w].quotaProbe /\ r.transportProbe = worker[w].transportProbe
              /\ r.health = worker[w].health
              /\ r.pc \in {"sent", "probed", "lifted"} => r.on \in Egresses
    PROVE  /\ worker' \in [Workers -> Process]
           /\ \A v \in Workers : /\ worker'[v].pc \in {"sent", "probed", "lifted"} => worker'[v].on \in Egresses
                                 /\ worker'[v].pc # "idle" => DOMAIN worker'[v].told = Things
           /\ \A v \in Workers :
                 \/ worker'[v] = Idle
                 \/ /\ worker'[v].quotaProbe = worker[v].quotaProbe
                    /\ worker'[v].transportProbe = worker[v].transportProbe
                    /\ worker'[v].health = worker[v].health /\ worker'[v].told = worker[v].told
                    /\ worker[v].pc = "idle" => worker'[v].pc = "idle"
<1>1. worker \in [Workers -> Process]
  BY DEF Types
<1>2. worker'[w] = r /\ \A v \in Workers \ {w} : worker'[v] = worker[v]
  BY <1>1
<1>3. worker' \in [Workers -> Process]
  BY <1>1
<1>4. ASSUME NEW v \in Workers
      PROVE  /\ worker'[v].pc \in {"sent", "probed", "lifted"} => worker'[v].on \in Egresses
             /\ worker'[v].pc # "idle" => DOMAIN worker'[v].told = Things
  BY <1>2, IdleFacts DEF Types
<1>5. ASSUME NEW v \in Workers
      PROVE  \/ worker'[v] = Idle
             \/ /\ worker'[v].quotaProbe = worker[v].quotaProbe
                /\ worker'[v].transportProbe = worker[v].transportProbe
                /\ worker'[v].health = worker[v].health /\ worker'[v].told = worker[v].told
                /\ worker[v].pc = "idle" => worker'[v].pc = "idle"
  <2>1. CASE v # w
    BY <1>2, <2>1
  <2>2. CASE v = w
    BY <1>2, <2>2
  <2> QED
    BY <2>1, <2>2
<1> QED
  BY <1>3, <1>4, <1>5

\* RetryPolicy.decide gives a wait that is a number, and a process that goes on
\* or gives up.
LEMMA DecisionFacts ==
    ASSUME Types, NEW w \in Workers, NEW retryAfter \in Nat, NEW jitter \in Nat,
           worker[w].pc = "sent"
    PROVE  LET d == Decide(worker[w], retryAfter, jitter)
               r == AfterDecision(worker[w], d)
           IN  /\ d.delay \in Nat /\ r \in Process
               /\ \/ r = Idle
                  \/ /\ r.pc = "waiting" /\ r.told = worker[w].told
                     /\ r.quotaProbe = worker[w].quotaProbe
                     /\ r.transportProbe = worker[w].transportProbe /\ r.health = worker[w].health
<1> DEFINE d == Decide(worker[w], retryAfter, jitter)
           r == AfterDecision(worker[w], d)
<1>1. d.delay = MaxOf(retryAfter, jitter) /\ d.delay \in Nat
  BY MaxOfFacts DEF Decide
<1>2. worker[w] \in Process
  BY ProcessFacts
<1> HIDE DEF d
<1>3. CASE d.retry
  <2>1. r = [worker[w] EXCEPT !.pc = "waiting", !.attempt = @ + 1, !.wake = d.delay]
    BY <1>3 DEF AfterDecision
  <2>2. r \in Process
    <3>1. worker[w].attempt + 1 \in Nat
      BY ProcessFacts
    <3> HIDE DEF r
    <3> QED
      BY <1>1, <1>2, <2>1, <3>1 DEF Process, Pcs
  <2>3. /\ r.pc = "waiting" /\ r.told = worker[w].told
        /\ r.quotaProbe = worker[w].quotaProbe
        /\ r.transportProbe = worker[w].transportProbe /\ r.health = worker[w].health
    BY <1>2, <2>1 DEF Process
  <2> QED
    BY <1>1, <2>2, <2>3 DEF d
<1>4. CASE ~d.retry
  <2>1. r = Idle
    BY <1>4 DEF AfterDecision
  <2> QED
    BY <1>1, <2>1, IdleFacts DEF d
<1> QED
  BY <1>3, <1>4

\* The jitter is a number.
LEMMA JitterFacts == \A n : \A jitter \in 0 .. n : jitter \in Nat
OBVIOUS

\* _record_quota_restriction raises a column and the revision of the row.
LEMMA RestrictFacts ==
    ASSUME Types, NEW g \in Groups, NEW column \in {"ban", "cooldown"}, NEW left \in Nat
    PROVE  LET q == RecordRestriction(quota[g], column, left) IN
           /\ q \in [ban : Int, cooldown : Int, pending : BOOLEAN, rev : Nat]
           /\ q.pending = TRUE /\ q.rev = quota[g].rev + 1
           /\ quota[g].ban <= q.ban /\ quota[g].cooldown <= q.cooldown
           /\ left <= q.ban \/ left <= q.cooldown
<1>1. quota[g] \in [ban : Int, cooldown : Int, pending : BOOLEAN, rev : Nat]
  BY DEF Types
<1> DEFINE q == RecordRestriction(quota[g], column, left)
<1>2. CASE column = "ban"
  <2> DEFINE new == MaxOf(quota[g].ban, left)
  <2>1. new \in Int /\ quota[g].ban <= new /\ left <= new
    BY <1>1 DEF MaxOf
  <2>2. q = [quota[g] EXCEPT !.ban = new, !.pending = TRUE, !.rev = quota[g].rev + 1]
    BY <1>1, <1>2 DEF RecordRestriction
  <2> HIDE DEF new, q
  <2>3. /\ q \in [ban : Int, cooldown : Int, pending : BOOLEAN, rev : Nat]
        /\ q.pending = TRUE /\ q.rev = quota[g].rev + 1
        /\ q.ban = new /\ q.cooldown = quota[g].cooldown
    <3>1. quota[g].rev + 1 \in Nat
      BY <1>1
    <3> QED
      BY <1>1, <2>1, <2>2, <3>1
  <2>4. quota[g].cooldown <= q.cooldown
    BY <1>1, <2>3
  <2> QED
    BY <2>1, <2>3, <2>4 DEF q
<1>3. CASE column = "cooldown"
  <2> DEFINE new == MaxOf(quota[g].cooldown, left)
  <2>1. new \in Int /\ quota[g].cooldown <= new /\ left <= new
    BY <1>1 DEF MaxOf
  <2>2. q = [quota[g] EXCEPT !.cooldown = new, !.pending = TRUE, !.rev = quota[g].rev + 1]
    BY <1>1, <1>3 DEF RecordRestriction
  <2> HIDE DEF new, q
  <2>3. /\ q \in [ban : Int, cooldown : Int, pending : BOOLEAN, rev : Nat]
        /\ q.pending = TRUE /\ q.rev = quota[g].rev + 1
        /\ q.cooldown = new /\ q.ban = quota[g].ban
    <3>1. quota[g].rev + 1 \in Nat
      BY <1>1
    <3> QED
      BY <1>1, <2>1, <2>2, <3>1
  <2>4. quota[g].ban <= q.ban
    BY <1>1, <2>3
  <2> QED
    BY <2>1, <2>3, <2>4 DEF q
<1> QED
  BY <1>2, <1>3

\* A restriction is recorded while the processes keep what they were given.
LEMMA RestrictStep ==
    ASSUME IInv, NEW g \in Groups, NEW column \in {"ban", "cooldown"}, NEW left \in Nat,
           quota' = [quota EXCEPT ![g] = RecordRestriction(@, column, left)],
           owed' = [owed EXCEPT ![g] = MaxOf(@, left)], UNCHANGED egress,
           worker' \in [Workers -> Process],
           \A v \in Workers : /\ worker'[v].pc \in {"sent", "probed", "lifted"} => worker'[v].on \in Egresses
                              /\ worker'[v].pc # "idle" => DOMAIN worker'[v].told = Things,
           \A v \in Workers :
              \/ worker'[v] = Idle
              \/ /\ worker'[v].quotaProbe = worker[v].quotaProbe
                 /\ worker'[v].transportProbe = worker[v].transportProbe
                 /\ worker'[v].health = worker[v].health /\ worker'[v].told = worker[v].told
                 /\ worker[v].pc = "idle" => worker'[v].pc = "idle"
    PROVE  IInv'
<1> DEFINE q == RecordRestriction(quota[g], column, left)
<1>0. Types /\ RowsCover
  BY DEF IInv
<1>1. g \in Things /\ g \notin Egresses
  BY EgressAssumption DEF Things
<1>2. quota' = [quota EXCEPT ![g] = q]
  BY <1>0 DEF Types
<1>3. left \in Nat
  OBVIOUS
<1>4. /\ q \in [ban : Int, cooldown : Int, pending : BOOLEAN, rev : Nat]
      /\ q.pending = TRUE /\ q.rev = quota[g].rev + 1
      /\ quota[g].ban <= q.ban /\ quota[g].cooldown <= q.cooldown
      /\ left <= q.ban \/ left <= q.cooldown
  BY <1>0, RestrictFacts
<1> HIDE DEF q
<1>6. /\ owed[g] \in Nat /\ owed' \in [Things -> Nat]
      /\ owed'[g] = MaxOf(owed[g], left) /\ \A x \in Things \ {g} : owed'[x] = owed[x]
  <2>1. owed[g] \in Nat
    BY <1>0, <1>1 DEF Types
  <2>2. MaxOf(owed[g], left) \in Nat
    BY <1>3, <2>1 DEF MaxOf
  <2> QED
    BY <1>0, <1>1, <1>2, <2>1, <2>2 DEF Types
<1>7. /\ quota' \in [Groups -> [ban : Int, cooldown : Int, pending : BOOLEAN, rev : Nat]]
      /\ quota'[g] = q /\ \A h \in Groups \ {g} : quota'[h] = quota[h]
  BY <1>0, <1>1, <1>2, <1>4 DEF Types
<1>8. Types'
  BY <1>0, <1>6, <1>7 DEF Types
<1>9. RowsCover'
  <2>1. ASSUME NEW h \in Groups PROVE owed'[h] <= QuotaLeft(h)' /\ (owed'[h] > 0 => quota'[h].pending)
    <3>1. CASE h = g
      <4>1. quota[g] \in [ban : Int, cooldown : Int, pending : BOOLEAN, rev : Nat]
        BY <1>0, <1>1 DEF Types
      <4> QED
        BY <1>0, <1>1, <1>3, <1>4, <1>6, <1>7, <3>1, <4>1 DEF RowsCover, QuotaLeft, MaxOf
    <3>2. CASE h # g
      BY <1>0, <1>6, <1>7, <3>2 DEF RowsCover, QuotaLeft, Things
    <3> QED
      BY <3>1, <3>2
  <2>2. ASSUME NEW e \in Egresses PROVE owed'[e] <= TransportLeft(e)' /\ (owed'[e] > 0 => egress'[e].fails > 0)
    BY <1>0, <1>1, <1>2, <1>6 DEF RowsCover, TransportLeft, Things
  <2> QED
    BY <2>1, <2>2 DEF RowsCover
<1>10. ASSUME NEW h \in Groups
       PROVE  quota[h].rev <= quota'[h].rev /\ (quota[h].rev = quota'[h].rev => owed'[h] <= owed[h])
  <2>1. quota[h].rev \in Nat /\ owed[h] \in Nat
    BY <1>0 DEF Types, Things
  <2> QED
    BY <1>4, <1>6, <1>7, <2>1 DEF Things
<1>11. ASSUME NEW e \in Egresses
       PROVE  egress[e].rev <= egress'[e].rev /\ (egress[e].rev = egress'[e].rev => owed'[e] <= owed[e])
  <2>1. egress[e].rev \in Nat /\ owed[e] \in Nat /\ owed'[e] = owed[e]
    BY <1>0, <1>1, <1>6 DEF Types, Things
  <2> QED
    BY <1>2, <2>1
<1> QED
  BY <1>8, <1>9, <1>10, <1>11, QuietStep

LEMMA RestrictedReplyStep ==
    ASSUME IInv, NEW w \in Workers, NEW retryAfter \in Nat, NEW jitter \in Nat,
           RestrictedReply(w, retryAfter, jitter)
    PROVE  IInv'
<1> DEFINE g == Group[worker[w].on]
           d == Decide(worker[w], retryAfter, jitter)
           r == AfterDecision(worker[w], d)
<1>0. Types /\ worker[w].pc = "sent"
  BY DEF IInv, RestrictedReply
<1>1. g \in Groups
  BY <1>0, GroupFacts DEF Types
<1>2. /\ quota' = [quota EXCEPT ![g] = RecordRestriction(@, "ban", d.delay)]
      /\ owed' = [owed EXCEPT ![g] = MaxOf(@, d.delay)]
      /\ worker' = [worker EXCEPT ![w] = r] /\ UNCHANGED egress
  BY DEF RestrictedReply
<1>3. /\ d.delay \in Nat /\ r \in Process
      /\ \/ r = Idle
         \/ /\ r.pc = "waiting" /\ r.told = worker[w].told
            /\ r.quotaProbe = worker[w].quotaProbe
            /\ r.transportProbe = worker[w].transportProbe /\ r.health = worker[w].health
  BY <1>0, DecisionFacts
<1> HIDE DEF d, r, g
<1>4. /\ worker' \in [Workers -> Process]
      /\ \A v \in Workers : /\ worker'[v].pc \in {"sent", "probed", "lifted"} => worker'[v].on \in Egresses
                            /\ worker'[v].pc # "idle" => DOMAIN worker'[v].told = Things
      /\ \A v \in Workers :
            \/ worker'[v] = Idle
            \/ /\ worker'[v].quotaProbe = worker[v].quotaProbe
               /\ worker'[v].transportProbe = worker[v].transportProbe
               /\ worker'[v].health = worker[v].health /\ worker'[v].told = worker[v].told
               /\ worker[v].pc = "idle" => worker'[v].pc = "idle"
  BY <1>0, <1>2, <1>3, MoveOn
<1> QED
  BY <1>1, <1>2, <1>3, <1>4, RestrictStep

LEMMA CooldownStep ==
    ASSUME IInv, NEW g \in Groups, NEW cooldown \in Nat, RecordCooldown(g, cooldown)
    PROVE  IInv'
<1>1. /\ quota' = [quota EXCEPT ![g] = RecordRestriction(@, "cooldown", cooldown)]
      /\ owed' = [owed EXCEPT ![g] = MaxOf(@, cooldown)] /\ UNCHANGED <<egress, worker>>
  BY DEF RecordCooldown
<1>2. /\ worker' \in [Workers -> Process]
      /\ \A v \in Workers : /\ worker'[v].pc \in {"sent", "probed", "lifted"} => worker'[v].on \in Egresses
                            /\ worker'[v].pc # "idle" => DOMAIN worker'[v].told = Things
  BY <1>1 DEF IInv, Types
<1>3. ASSUME NEW v \in Workers
      PROVE  /\ worker'[v].quotaProbe = worker[v].quotaProbe
             /\ worker'[v].transportProbe = worker[v].transportProbe
             /\ worker'[v].health = worker[v].health /\ worker'[v].told = worker[v].told
             /\ worker[v].pc = "idle" => worker'[v].pc = "idle"
  BY <1>1
<1> QED
  BY <1>1, <1>2, <1>3, RestrictStep

LEMMA FailedReplyStep ==
    ASSUME IInv, NEW w \in Workers, NEW cooldown \in Nat, NEW jitter \in Nat,
           FailedReply(w, cooldown, jitter)
    PROVE  IInv'
<1> DEFINE e == worker[w].on
           d == Decide(worker[w], 0, jitter)
           r == AfterDecision(worker[w], d)
<1>0. Types /\ RowsCover /\ worker[w].pc = "sent"
  BY DEF IInv, FailedReply
<1>1. e \in Egresses /\ e \in Things /\ e \notin Groups
  BY <1>0, EgressAssumption DEF Types, Things
<1>2. /\ egress' = [egress EXCEPT ![e] = [fails |-> @.fails + 1, cooldown |-> MaxOf(@.cooldown, cooldown),
                                          rev |-> @.rev + 1]]
      /\ owed' = [owed EXCEPT ![e] = MaxOf(@, cooldown)]
      /\ worker' = [worker EXCEPT ![w] = r] /\ UNCHANGED quota
  BY DEF FailedReply
<1>3. /\ r \in Process
      /\ \/ r = Idle
         \/ /\ r.pc = "waiting" /\ r.told = worker[w].told
            /\ r.quotaProbe = worker[w].quotaProbe
            /\ r.transportProbe = worker[w].transportProbe /\ r.health = worker[w].health
  <2>1. 0 \in Nat
    OBVIOUS
  <2> QED
    BY <1>0, <2>1, DecisionFacts
<1> HIDE DEF d, r, e
<1>4. egress[e] \in [fails : Nat, cooldown : Int, rev : Nat]
  BY <1>0, <1>1 DEF Types
<1>5. /\ worker' \in [Workers -> Process]
      /\ \A v \in Workers : /\ worker'[v].pc \in {"sent", "probed", "lifted"} => worker'[v].on \in Egresses
                            /\ worker'[v].pc # "idle" => DOMAIN worker'[v].told = Things
      /\ \A v \in Workers :
            \/ worker'[v] = Idle
            \/ /\ worker'[v].quotaProbe = worker[v].quotaProbe
               /\ worker'[v].transportProbe = worker[v].transportProbe
               /\ worker'[v].health = worker[v].health /\ worker'[v].told = worker[v].told
               /\ worker[v].pc = "idle" => worker'[v].pc = "idle"
  BY <1>0, <1>2, <1>3, MoveOn
<1>6. /\ owed[e] \in Nat /\ owed' \in [Things -> Nat]
      /\ owed'[e] = MaxOf(owed[e], cooldown) /\ \A x \in Things \ {e} : owed'[x] = owed[x]
  <2>1. owed[e] \in Nat
    BY <1>0, <1>1 DEF Types
  <2>2. MaxOf(owed[e], cooldown) \in Nat
    BY <2>1 DEF MaxOf
  <2> QED
    BY <1>0, <1>1, <1>2, <2>1, <2>2 DEF Types
<1>7. /\ egress' \in [Egresses -> [fails : Nat, cooldown : Int, rev : Nat]]
      /\ egress'[e].fails = egress[e].fails + 1 /\ egress'[e].rev = egress[e].rev + 1
      /\ egress'[e].cooldown = MaxOf(egress[e].cooldown, cooldown)
      /\ \A f \in Egresses \ {e} : egress'[f] = egress[f]
  <2> DEFINE new == MaxOf(egress[e].cooldown, cooldown)
  <2>1. new \in Int
    BY <1>4 DEF MaxOf
  <2>2. egress' = [egress EXCEPT ![e] = [fails |-> egress[e].fails + 1, cooldown |-> new,
                                         rev |-> egress[e].rev + 1]]
    BY <1>0, <1>1, <1>2 DEF Types
  <2> HIDE DEF new
  <2>3. [fails |-> egress[e].fails + 1, cooldown |-> new, rev |-> egress[e].rev + 1]
          \in [fails : Nat, cooldown : Int, rev : Nat]
    BY <1>4, <2>1
  <2>4. egress \in [Egresses -> [fails : Nat, cooldown : Int, rev : Nat]]
    BY <1>0 DEF Types
  <2>5. egress'[e] = [fails |-> egress[e].fails + 1, cooldown |-> new, rev |-> egress[e].rev + 1]
    BY <1>1, <2>2, <2>4
  <2>6. egress' \in [Egresses -> [fails : Nat, cooldown : Int, rev : Nat]]
    BY <1>1, <2>2, <2>3, <2>4
  <2> QED
    BY <1>1, <2>2, <2>4, <2>5, <2>6 DEF new
<1>8. Types'
  BY <1>0, <1>2, <1>5, <1>6, <1>7 DEF Types
<1>9. RowsCover'
  <2>1. ASSUME NEW f \in Egresses
        PROVE  owed'[f] <= TransportLeft(f)' /\ (owed'[f] > 0 => egress'[f].fails > 0)
    <3>1. CASE f = e
      BY <1>0, <1>1, <1>4, <1>6, <1>7, <3>1 DEF RowsCover, TransportLeft, MaxOf
    <3>2. CASE f # e
      BY <1>0, <1>6, <1>7, <3>2 DEF RowsCover, TransportLeft, Things
    <3> QED
      BY <3>1, <3>2
  <2>2. ASSUME NEW g \in Groups PROVE owed'[g] <= QuotaLeft(g)' /\ (owed'[g] > 0 => quota'[g].pending)
    BY <1>0, <1>1, <1>2, <1>6 DEF RowsCover, QuotaLeft, Things
  <2> QED
    BY <2>1, <2>2 DEF RowsCover
<1>10. ASSUME NEW f \in Egresses
       PROVE  egress[f].rev <= egress'[f].rev /\ (egress[f].rev = egress'[f].rev => owed'[f] <= owed[f])
  <2>1. egress[f].rev \in Nat /\ owed[f] \in Nat
    BY <1>0 DEF Types, Things
  <2> QED
    BY <1>6, <1>7, <2>1 DEF Things
<1>11. ASSUME NEW g \in Groups
       PROVE  quota[g].rev <= quota'[g].rev /\ (quota[g].rev = quota'[g].rev => owed'[g] <= owed[g])
  <2>1. quota[g].rev \in Nat /\ owed[g] \in Nat /\ owed'[g] = owed[g]
    BY <1>0, <1>1, <1>6 DEF Types, Things
  <2> QED
    BY <1>2, <2>1
<1> QED
  BY <1>5, <1>8, <1>9, <1>10, <1>11, QuietStep
-----------------------------------------------------------------------------
(* Steps that write no row *)

LEMMA StillStep ==
    ASSUME IInv, UNCHANGED <<quota, egress, owed>>, NEW w \in Workers, NEW r \in Process,
           worker' = [worker EXCEPT ![w] = r],
           \/ r = Idle
           \/ /\ worker[w].pc # "idle" /\ r.told = worker[w].told
              /\ r.quotaProbe = worker[w].quotaProbe /\ r.transportProbe = worker[w].transportProbe
              /\ r.health = worker[w].health
              /\ r.pc \in {"sent", "probed", "lifted"} => r.on \in Egresses
    PROVE  IInv'
<1>0. Types /\ RowsCover
  BY DEF IInv
<1>1. /\ worker' \in [Workers -> Process]
      /\ \A v \in Workers : /\ worker'[v].pc \in {"sent", "probed", "lifted"} => worker'[v].on \in Egresses
                            /\ worker'[v].pc # "idle" => DOMAIN worker'[v].told = Things
      /\ \A v \in Workers :
            \/ worker'[v] = Idle
            \/ /\ worker'[v].quotaProbe = worker[v].quotaProbe
               /\ worker'[v].transportProbe = worker[v].transportProbe
               /\ worker'[v].health = worker[v].health /\ worker'[v].told = worker[v].told
               /\ worker[v].pc = "idle" => worker'[v].pc = "idle"
  BY <1>0, MoveOn
<1>2. Types'
  BY <1>0, <1>1 DEF Types
<1>3. RowsCover'
  BY <1>0 DEF RowsCover, QuotaLeft, TransportLeft
<1>4. /\ \A g \in Groups : quota[g].rev \in Nat /\ owed[g] \in Nat
      /\ \A e \in Egresses : egress[e].rev \in Nat /\ owed[e] \in Nat
  BY <1>0 DEF Types, Things
<1> QED
  BY <1>1, <1>2, <1>3, <1>4, QuietStep

LEMMA ChooseEgressStep ==
    ASSUME IInv, NEW w \in Workers, ChooseEgress(w)
    PROVE  IInv'
<1>0. Types /\ worker[w].pc = "admitted" /\ worker[w] \in Process
      /\ DOMAIN worker[w].health \subseteq Egresses
  BY ProcessFacts DEF IInv, ChooseEgress
<1>1. ASSUME NEW e \in Available(worker[w]) \cup MayProbe(worker[w]),
             worker' = [worker EXCEPT ![w].pc = "sent", ![w].on = e]
      PROVE  IInv'
  <2> DEFINE r == [worker[w] EXCEPT !.pc = "sent", !.on = e]
  <2>1. e \in Egresses
    BY <1>0 DEF Available, MayProbe
  <2>2. worker' = [worker EXCEPT ![w] = r]
    BY <1>0, <1>1 DEF Types
  <2>3. /\ r \in Process /\ r.told = worker[w].told /\ r.on = e
        /\ r.quotaProbe = worker[w].quotaProbe /\ r.transportProbe = worker[w].transportProbe
        /\ r.health = worker[w].health
    BY <1>0, <2>1 DEF Process, Pcs
  <2> HIDE DEF r
  <2> QED
    BY <1>0, <2>1, <2>2, <2>3, StillStep DEF ChooseEgress
<1>2. CASE worker' = [worker EXCEPT ![w] = Idle]
  BY <1>2, IdleFacts, StillStep DEF ChooseEgress
<1> QED
  BY <1>1, <1>2 DEF ChooseEgress

LEMMA GoodReplyStep ==
    ASSUME IInv, NEW w \in Workers, GoodReply(w)
    PROVE  IInv'
<1>0. Types /\ worker[w].pc = "sent" /\ worker[w] \in Process
  BY ProcessFacts DEF IInv, GoodReply
<1>1. CASE worker[w].on \in DOMAIN worker[w].health
  <2> DEFINE r == [worker[w] EXCEPT !.pc = "probed"]
  <2>1. worker' = [worker EXCEPT ![w] = r]
    BY <1>0, <1>1 DEF Types, GoodReply
  <2>2. /\ r \in Process /\ r.told = worker[w].told /\ r.on = worker[w].on
        /\ r.quotaProbe = worker[w].quotaProbe /\ r.transportProbe = worker[w].transportProbe
        /\ r.health = worker[w].health
    BY <1>0 DEF Process, Pcs
  <2>3. worker[w].on \in Egresses
    BY <1>0 DEF Types
  <2> HIDE DEF r
  <2> QED
    BY <1>0, <2>1, <2>2, <2>3, StillStep DEF GoodReply
<1>2. CASE worker[w].on \notin DOMAIN worker[w].health
  BY <1>0, <1>2, IdleFacts, StillStep DEF GoodReply
<1> QED
  BY <1>1, <1>2

LEMMA OtherReplyStep ==
    ASSUME IInv, NEW w \in Workers, NEW retryAfter \in Nat, NEW jitter \in Nat,
           OtherReply(w, retryAfter, jitter)
    PROVE  IInv'
<1>0. Types /\ worker[w].pc = "sent" /\ UNCHANGED <<quota, egress, owed>>
  BY DEF IInv, OtherReply
<1>1. CASE worker' = [worker EXCEPT ![w] = Idle]
  BY <1>0, <1>1, IdleFacts, StillStep
<1>2. CASE worker' = [worker EXCEPT ![w] = AfterDecision(worker[w], Decide(worker[w], retryAfter, jitter))]
  <2> DEFINE r == AfterDecision(worker[w], Decide(worker[w], retryAfter, jitter))
  <2>1. /\ r \in Process
        /\ \/ r = Idle
           \/ /\ r.pc = "waiting" /\ r.told = worker[w].told
              /\ r.quotaProbe = worker[w].quotaProbe
              /\ r.transportProbe = worker[w].transportProbe /\ r.health = worker[w].health
    BY <1>0, DecisionFacts
  <2>2. worker' = [worker EXCEPT ![w] = r]
    BY <1>2
  <2> HIDE DEF r
  <2> QED
    BY <1>0, <2>1, <2>2, StillStep
<1> QED
  BY <1>1, <1>2 DEF OtherReply

LEMMA CrashStep ==
    ASSUME IInv, NEW w \in Workers, Crash(w)
    PROVE  IInv'
BY IdleFacts, StillStep DEF Crash
-----------------------------------------------------------------------------
(* Probes *)

\* A restriction that a token lifts owes nothing any more.
LEMMA QuotaServed ==
    ASSUME IInv, NEW w \in Workers, NEW g \in DOMAIN worker[w].quotaProbe,
           Stands(worker[w].quotaProbe[g], quota[g])
    PROVE  g \in Groups /\ owed[g] = 0
<1>1. g \in Groups /\ worker[w].quotaProbe[g].rev \in Nat
  BY ProcessFacts DEF IInv, Token
<1>2. TokenCovers(worker[w].quotaProbe[g], quota[g], owed[g]) /\ owed[g] \in Nat
  BY <1>1 DEF IInv, TokensCover, Types, Things
<1> QED
  BY <1>1, <1>2 DEF TokenCovers, Stands

LEMMA TransportServed ==
    ASSUME IInv, NEW w \in Workers, NEW e \in DOMAIN worker[w].transportProbe,
           Stands(worker[w].transportProbe[e], egress[e])
    PROVE  e \in Egresses /\ owed[e] = 0
<1>1. e \in Egresses /\ worker[w].transportProbe[e].rev \in Nat
  BY ProcessFacts DEF IInv, Token
<1>2. TokenCovers(worker[w].transportProbe[e], egress[e], owed[e]) /\ owed[e] \in Nat
  BY <1>1 DEF IInv, TokensCover, Types, Things
<1> QED
  BY <1>1, <1>2 DEF TokenCovers, Stands

LEMMA QuotaProbeStep ==
    ASSUME IInv, NEW w \in Workers, QuotaProbeSuccess(w)
    PROVE  IInv'
<1> DEFINE g == Group[worker[w].on]
           clears == /\ g \in DOMAIN worker[w].quotaProbe /\ Stands(worker[w].quotaProbe[g], quota[g])
                     /\ quota[g].pending
           r == [worker[w] EXCEPT !.pc = "lifted"]
           cleared == [ban |-> 0, cooldown |-> 0, pending |-> FALSE, rev |-> quota[g].rev + 1]
<1>0. Types /\ RowsCover /\ worker[w].pc = "probed" /\ worker[w] \in Process
  BY ProcessFacts DEF IInv, QuotaProbeSuccess
<1>1. g \in Groups /\ g \in Things /\ worker[w].on \in Egresses
  BY <1>0, GroupFacts DEF Types, Things
<1>2. worker' = [worker EXCEPT ![w] = r] /\ UNCHANGED egress
  BY <1>0 DEF Types, QuotaProbeSuccess
<1>3. /\ r \in Process /\ r.told = worker[w].told /\ r.on = worker[w].on
      /\ r.quotaProbe = worker[w].quotaProbe /\ r.transportProbe = worker[w].transportProbe
      /\ r.health = worker[w].health
  BY <1>0 DEF Process, Pcs
<1> HIDE DEF r
<1>4. CASE ~clears
  <2>1. quota' = quota /\ owed' = owed
    BY <1>4 DEF QuotaProbeSuccess
  <2> QED
    BY <1>0, <1>1, <1>2, <1>3, <2>1, StillStep
<1>5. CASE clears
  <2>1. owed[g] = 0
    BY <1>5, QuotaServed
  <2>2. quota' = [quota EXCEPT ![g] = cleared] /\ owed' = [owed EXCEPT ![g] = 0]
    BY <1>0, <1>1, <1>5 DEF QuotaProbeSuccess, Types
  <2>3. owed' = owed
    BY <1>0, <1>1, <2>1, <2>2 DEF Types
  <2>4. cleared \in [ban : Int, cooldown : Int, pending : BOOLEAN, rev : Nat]
    BY <1>0, <1>1 DEF Types
  <2>5. /\ quota' \in [Groups -> [ban : Int, cooldown : Int, pending : BOOLEAN, rev : Nat]]
        /\ quota'[g] = cleared /\ \A h \in Groups \ {g} : quota'[h] = quota[h]
    BY <1>0, <1>1, <2>2, <2>4 DEF Types
  <2>6. /\ worker' \in [Workers -> Process]
        /\ \A v \in Workers : /\ worker'[v].pc \in {"sent", "probed", "lifted"} => worker'[v].on \in Egresses
                              /\ worker'[v].pc # "idle" => DOMAIN worker'[v].told = Things
        /\ \A v \in Workers :
              \/ worker'[v] = Idle
              \/ /\ worker'[v].quotaProbe = worker[v].quotaProbe
                 /\ worker'[v].transportProbe = worker[v].transportProbe
                 /\ worker'[v].health = worker[v].health /\ worker'[v].told = worker[v].told
                 /\ worker[v].pc = "idle" => worker'[v].pc = "idle"
    BY <1>0, <1>1, <1>2, <1>3, MoveOn
  <2>7. Types'
    BY <1>0, <1>2, <2>3, <2>5, <2>6 DEF Types
  <2>8. ASSUME NEW h \in Groups
        PROVE  /\ owed'[h] <= QuotaLeft(h)' /\ (owed'[h] > 0 => quota'[h].pending)
               /\ quota[h].rev <= quota'[h].rev /\ (quota[h].rev = quota'[h].rev => owed'[h] <= owed[h])
    <3>1. quota[h].rev \in Nat /\ owed[h] \in Nat
      BY <1>0 DEF Types, Things
    <3>2. CASE h = g
      BY <2>1, <2>3, <2>5, <3>1, <3>2 DEF QuotaLeft, MaxOf
    <3>3. CASE h # g
      BY <1>0, <2>3, <2>5, <3>1, <3>3 DEF QuotaLeft, RowsCover
    <3> QED
      BY <3>2, <3>3
  <2>9. ASSUME NEW e \in Egresses
        PROVE  /\ owed'[e] <= TransportLeft(e)' /\ (owed'[e] > 0 => egress'[e].fails > 0)
               /\ egress[e].rev <= egress'[e].rev /\ (egress[e].rev = egress'[e].rev => owed'[e] <= owed[e])
    <3>1. egress[e].rev \in Nat /\ owed[e] \in Nat
      BY <1>0 DEF Types, Things
    <3> QED
      BY <1>0, <1>2, <2>3, <3>1 DEF RowsCover, TransportLeft
  <2>10. RowsCover'
    BY <2>8, <2>9 DEF RowsCover
  <2> QED
    BY <2>6, <2>7, <2>8, <2>9, <2>10, QuietStep
<1> QED
  BY <1>4, <1>5

LEMMA TransportProbeStep ==
    ASSUME IInv, NEW w \in Workers, TransportProbeSuccess(w)
    PROVE  IInv'
<1> DEFINE e == worker[w].on
           clears == /\ e \in DOMAIN worker[w].transportProbe
                     /\ Stands(worker[w].transportProbe[e], egress[e]) /\ egress[e].fails > 0
           cleared == [fails |-> 0, cooldown |-> 0, rev |-> egress[e].rev + 1]
<1>0. Types /\ RowsCover /\ worker[w].pc = "lifted"
  BY DEF IInv, TransportProbeSuccess
<1>1. e \in Egresses /\ e \in Things
  BY <1>0 DEF Types, Things
<1>2. worker' = [worker EXCEPT ![w] = Idle] /\ UNCHANGED quota
  BY DEF TransportProbeSuccess
<1>3. CASE ~clears
  <2>1. egress' = egress /\ owed' = owed
    BY <1>3 DEF TransportProbeSuccess
  <2> QED
    BY <1>2, <2>1, IdleFacts, StillStep
<1>4. CASE clears
  <2>1. owed[e] = 0
    BY <1>4, TransportServed
  <2>2. egress' = [egress EXCEPT ![e] = cleared] /\ owed' = [owed EXCEPT ![e] = 0]
    BY <1>0, <1>1, <1>4 DEF TransportProbeSuccess, Types
  <2>3. owed' = owed
    BY <1>0, <1>1, <2>1, <2>2 DEF Types
  <2>4. cleared \in [fails : Nat, cooldown : Int, rev : Nat]
    BY <1>0, <1>1 DEF Types
  <2>5. /\ egress' \in [Egresses -> [fails : Nat, cooldown : Int, rev : Nat]]
        /\ egress'[e] = cleared /\ \A f \in Egresses \ {e} : egress'[f] = egress[f]
    BY <1>0, <1>1, <2>2, <2>4 DEF Types
  <2>6. /\ worker' \in [Workers -> Process]
        /\ \A v \in Workers : /\ worker'[v].pc \in {"sent", "probed", "lifted"} => worker'[v].on \in Egresses
                              /\ worker'[v].pc # "idle" => DOMAIN worker'[v].told = Things
        /\ \A v \in Workers :
              \/ worker'[v] = Idle
              \/ /\ worker'[v].quotaProbe = worker[v].quotaProbe
                 /\ worker'[v].transportProbe = worker[v].transportProbe
                 /\ worker'[v].health = worker[v].health /\ worker'[v].told = worker[v].told
                 /\ worker[v].pc = "idle" => worker'[v].pc = "idle"
    BY <1>0, <1>2, IdleFacts, MoveOn
  <2>7. Types'
    BY <1>0, <1>2, <2>3, <2>5, <2>6 DEF Types
  <2>8. ASSUME NEW f \in Egresses
        PROVE  /\ owed'[f] <= TransportLeft(f)' /\ (owed'[f] > 0 => egress'[f].fails > 0)
               /\ egress[f].rev <= egress'[f].rev /\ (egress[f].rev = egress'[f].rev => owed'[f] <= owed[f])
    <3>1. egress[f].rev \in Nat /\ owed[f] \in Nat
      BY <1>0 DEF Types, Things
    <3>2. CASE f = e
      BY <2>1, <2>3, <2>5, <3>1, <3>2 DEF TransportLeft, MaxOf
    <3>3. CASE f # e
      BY <1>0, <2>3, <2>5, <3>1, <3>3 DEF TransportLeft, RowsCover
    <3> QED
      BY <3>2, <3>3
  <2>9. ASSUME NEW g \in Groups
        PROVE  /\ owed'[g] <= QuotaLeft(g)' /\ (owed'[g] > 0 => quota'[g].pending)
               /\ quota[g].rev <= quota'[g].rev /\ (quota[g].rev = quota'[g].rev => owed'[g] <= owed[g])
    <3>1. quota[g].rev \in Nat /\ owed[g] \in Nat
      BY <1>0 DEF Types, Things
    <3> QED
      BY <1>0, <1>2, <2>3, <3>1 DEF RowsCover, QuotaLeft
  <2>10. RowsCover'
    BY <2>8, <2>9 DEF RowsCover
  <2> QED
    BY <2>6, <2>7, <2>8, <2>9, <2>10, QuietStep
<1> QED
  BY <1>3, <1>4
-----------------------------------------------------------------------------
(* admit_health *)

\* The times left are numbers, and the deadline of an admission is not before
\* either of its restrictions.
LEMMA LeftFacts ==
    ASSUME Types
    PROVE  /\ \A g \in Groups : QuotaLeft(g) \in Nat
           /\ \A e \in Egresses :
                 /\ TransportLeft(e) \in Nat /\ ProbeAfter(e) \in Nat
                 /\ quota[Group[e]].pending => QuotaLeft(Group[e]) <= ProbeAfter(e)
                 /\ egress[e].fails > 0 => TransportLeft(e) <= ProbeAfter(e)
<1>1. ASSUME NEW g \in Groups PROVE QuotaLeft(g) \in Nat
  <2>1. quota[g].ban \in Int /\ quota[g].cooldown \in Int
    BY DEF Types
  <2> QED
    BY <2>1 DEF QuotaLeft, MaxOf
<1>2. ASSUME NEW e \in Egresses
      PROVE  /\ TransportLeft(e) \in Nat /\ ProbeAfter(e) \in Nat
             /\ quota[Group[e]].pending => QuotaLeft(Group[e]) <= ProbeAfter(e)
             /\ egress[e].fails > 0 => TransportLeft(e) <= ProbeAfter(e)
  <2>1. egress[e].cooldown \in Int
    BY DEF Types
  <2>2. TransportLeft(e) \in Nat
    BY <2>1 DEF TransportLeft, MaxOf
  <2>3. QuotaLeft(Group[e]) \in Nat
    BY <1>1, GroupFacts
  <2> QED
    BY <2>2, <2>3 DEF ProbeAfter, MaxOf
<1> QED
  BY <1>1, <1>2

\* The admission itself, from whichever state of the process.
LEMMA AdmittedFacts ==
    ASSUME Types, NEW r \in Process
    PROVE  LET n == Admitted(r) IN
           /\ n \in Process /\ n.pc = "admitted" /\ n.told = owed
           /\ n.health = [e \in {x \in Egresses : Restricted(x)} |-> ProbeAfter(e)]
           /\ n.quotaProbe = [g \in {x \in Groups : quota[x].pending} |->
                                [rev |-> quota[g].rev, after |-> QuotaLeft(g)]]
           /\ n.transportProbe = [e \in {x \in Egresses : egress[x].fails > 0} |->
                                    [rev |-> egress[e].rev, after |-> TransportLeft(e)]]
<1> DEFINE h == [e \in {x \in Egresses : Restricted(x)} |-> ProbeAfter(e)]
           q == [g \in {x \in Groups : quota[x].pending} |-> [rev |-> quota[g].rev, after |-> QuotaLeft(g)]]
           t == [e \in {x \in Egresses : egress[x].fails > 0} |->
                   [rev |-> egress[e].rev, after |-> TransportLeft(e)]]
<1>1. h \in Maps(Egresses, Nat)
  <2>1. h \in [{x \in Egresses : Restricted(x)} -> Nat]
    BY LeftFacts
  <2> QED
    BY <2>1, MapFacts
<1>2. q \in Maps(Groups, Token)
  <2>1. \A g \in Groups : [rev |-> quota[g].rev, after |-> QuotaLeft(g)] \in Token
    BY LeftFacts DEF Token, Types
  <2>2. q \in [{x \in Groups : quota[x].pending} -> Token]
    BY <2>1
  <2> QED
    BY <2>2, MapFacts
<1>3. t \in Maps(Egresses, Token)
  <2>1. \A e \in Egresses : [rev |-> egress[e].rev, after |-> TransportLeft(e)] \in Token
    BY LeftFacts DEF Token, Types
  <2>2. t \in [{x \in Egresses : egress[x].fails > 0} -> Token]
    BY <2>1
  <2> QED
    BY <2>2, MapFacts
<1>4. owed \in Maps(Things, Nat)
  BY MapFacts DEF Types
<1>5. Admitted(r) = [r EXCEPT !.pc = "admitted", !.told = owed, !.health = h, !.quotaProbe = q,
                              !.transportProbe = t]
  BY DEF Admitted
<1> HIDE DEF h, q, t
<1>6. Admitted(r) \in Process
  BY <1>1, <1>2, <1>3, <1>4, <1>5 DEF Process, Pcs
<1>7. /\ Admitted(r).pc = "admitted" /\ Admitted(r).told = owed /\ Admitted(r).health = h
      /\ Admitted(r).quotaProbe = q /\ Admitted(r).transportProbe = t
  BY <1>5 DEF Process
<1> QED
  BY <1>6, <1>7 DEF h, q, t

LEMMA AdmitStep ==
    ASSUME IInv, NEW w \in Workers, AdmitHealth(w)
    PROVE  IInv'
<1>0. Types /\ RowsCover
  BY DEF IInv
<1>1. PICK r \in Process : worker' = [worker EXCEPT ![w] = Admitted(r)]
  <2>1. CASE worker' = [worker EXCEPT ![w] = Admitted([Idle EXCEPT !.deadline = Budget])]
    <3>1. Budget \in Int
      BY EgressAssumption
    <3>2. [Idle EXCEPT !.deadline = Budget] \in Process
      BY <3>1, IdleFacts DEF Process
    <3> QED
      BY <2>1, <3>2
  <2>2. CASE worker' = [worker EXCEPT ![w] = Admitted(worker[w])]
    BY <1>0, <2>2, ProcessFacts
  <2> QED
    BY <2>1, <2>2 DEF AdmitHealth
<1> DEFINE n == Admitted(r)
<1>2. /\ n \in Process /\ n.pc = "admitted" /\ n.told = owed
      /\ n.health = [e \in {x \in Egresses : Restricted(x)} |-> ProbeAfter(e)]
      /\ n.quotaProbe = [g \in {x \in Groups : quota[x].pending} |->
                           [rev |-> quota[g].rev, after |-> QuotaLeft(g)]]
      /\ n.transportProbe = [e \in {x \in Egresses : egress[x].fails > 0} |->
                               [rev |-> egress[e].rev, after |-> TransportLeft(e)]]
  BY <1>0, AdmittedFacts
<1> HIDE DEF n
<1>3. UNCHANGED <<quota, egress, owed>>
  BY DEF AdmitHealth
<1>4. /\ worker' \in [Workers -> Process] /\ worker'[w] = n
      /\ \A v \in Workers \ {w} : worker'[v] = worker[v]
  BY <1>0, <1>1, <1>2 DEF Types, n
<1>5. Types'
  <2>1. DOMAIN owed = Things
    BY <1>0 DEF Types
  <2> QED
    BY <1>0, <1>2, <1>3, <1>4, <2>1 DEF Types
<1>6. RowsCover'
  BY <1>0, <1>3 DEF RowsCover, QuotaLeft, TransportLeft
<1>7. ASSUME NEW v \in Workers PROVE TokensCover(v)' /\ HealthCovers(v)'
  <2>1. CASE v # w
    BY <1>3, <1>4, <2>1 DEF IInv, TokensCover, HealthCovers
  <2>2. CASE v = w
    <3>1. TokensCover(w)'
      <4>1. ASSUME NEW g \in DOMAIN n.quotaProbe PROVE TokenCovers(n.quotaProbe[g], quota[g], owed[g])
        <5>1. g \in Groups /\ n.quotaProbe[g] = [rev |-> quota[g].rev, after |-> QuotaLeft(g)]
          BY <1>2
        <5>2. quota[g].rev \in Nat /\ owed[g] <= QuotaLeft(g)
          BY <1>0, <5>1 DEF Types, RowsCover
        <5> QED
          BY <5>1, <5>2 DEF TokenCovers
      <4>2. ASSUME NEW e \in DOMAIN n.transportProbe
            PROVE  TokenCovers(n.transportProbe[e], egress[e], owed[e])
        <5>1. e \in Egresses /\ n.transportProbe[e] = [rev |-> egress[e].rev, after |-> TransportLeft(e)]
          BY <1>2
        <5>2. egress[e].rev \in Nat /\ owed[e] <= TransportLeft(e)
          BY <1>0, <5>1 DEF Types, RowsCover
        <5> QED
          BY <5>1, <5>2 DEF TokenCovers
      <4> QED
        BY <1>3, <1>4, <4>1, <4>2 DEF TokensCover
    <3>2. ASSUME NEW e \in Egresses
          PROVE  IF e \in DOMAIN n.health
                 THEN owed[Group[e]] <= n.health[e] /\ owed[e] <= n.health[e]
                 ELSE owed[Group[e]] = 0 /\ owed[e] = 0
      <4>1. Group[e] \in Groups /\ owed[Group[e]] \in Nat /\ owed[e] \in Nat
        BY <1>0, GroupFacts DEF Types, Things
      <4>2. /\ owed[Group[e]] <= QuotaLeft(Group[e]) /\ (owed[Group[e]] > 0 => quota[Group[e]].pending)
            /\ owed[e] <= TransportLeft(e) /\ (owed[e] > 0 => egress[e].fails > 0)
        BY <1>0, <4>1 DEF RowsCover
      <4>3. e \in DOMAIN n.health <=> Restricted(e)
        BY <1>2
      <4>4. CASE e \in DOMAIN n.health
        <5>1. n.health[e] = ProbeAfter(e)
          BY <1>2, <4>4
        <5> QED
          BY <1>0, <4>1, <4>2, <4>4, <5>1, LeftFacts
      <4>5. CASE e \notin DOMAIN n.health
        BY <4>1, <4>2, <4>3, <4>5 DEF Restricted
      <4> QED
        BY <4>4, <4>5
    <3>3. HealthCovers(w)'
      BY <1>2, <1>4, <3>2 DEF HealthCovers
    <3> QED
      BY <2>2, <3>1, <3>3
  <2> QED
    BY <2>1, <2>2
<1> QED
  BY <1>5, <1>6, <1>7 DEF IInv
-----------------------------------------------------------------------------
(* Clocks *)

LEMMA WallStep ==
    ASSUME IInv, WallStepsBack
    PROVE  IInv'
<1>0. Types /\ RowsCover /\ UNCHANGED <<owed, worker>>
  BY DEF IInv, WallStepsBack
<1>1. ASSUME NEW g \in Groups
      PROVE  /\ quota[g] \in [ban : Int, cooldown : Int, pending : BOOLEAN, rev : Nat]
             /\ quota'[g] \in [ban : Int, cooldown : Int, pending : BOOLEAN, rev : Nat]
             /\ quota'[g].ban = quota[g].ban + 1 /\ quota'[g].cooldown = quota[g].cooldown + 1
             /\ quota'[g].pending = quota[g].pending /\ quota'[g].rev = quota[g].rev
  <2>1. quota[g] \in [ban : Int, cooldown : Int, pending : BOOLEAN, rev : Nat]
    BY <1>0 DEF Types
  <2>2. quota'[g] = [quota[g] EXCEPT !.ban = quota[g].ban + 1, !.cooldown = quota[g].cooldown + 1]
    BY <2>1 DEF WallStepsBack
  <2>3. quota[g].ban + 1 \in Int /\ quota[g].cooldown + 1 \in Int
    BY <2>1
  <2> QED
    BY <2>1, <2>2, <2>3
<1>2. ASSUME NEW e \in Egresses
      PROVE  /\ egress[e] \in [fails : Nat, cooldown : Int, rev : Nat]
             /\ egress'[e] \in [fails : Nat, cooldown : Int, rev : Nat]
             /\ egress'[e].cooldown = egress[e].cooldown + 1
             /\ egress'[e].fails = egress[e].fails /\ egress'[e].rev = egress[e].rev
  <2>1. egress[e] \in [fails : Nat, cooldown : Int, rev : Nat]
    BY <1>0 DEF Types
  <2>2. egress'[e] = [egress[e] EXCEPT !.cooldown = egress[e].cooldown + 1]
    BY <2>1 DEF WallStepsBack
  <2>3. egress[e].cooldown + 1 \in Int
    BY <2>1
  <2> QED
    BY <2>1, <2>2, <2>3
<1>3. /\ quota' \in [Groups -> [ban : Int, cooldown : Int, pending : BOOLEAN, rev : Nat]]
      /\ egress' \in [Egresses -> [fails : Nat, cooldown : Int, rev : Nat]]
  BY <1>1, <1>2 DEF WallStepsBack
<1>4. Types'
  BY <1>0, <1>3 DEF Types
<1>5. ASSUME NEW g \in Groups
      PROVE  /\ owed'[g] <= QuotaLeft(g)' /\ (owed'[g] > 0 => quota'[g].pending)
             /\ quota[g].rev <= quota'[g].rev /\ (quota[g].rev = quota'[g].rev => owed'[g] <= owed[g])
  <2>1. owed[g] \in Nat /\ owed[g] <= QuotaLeft(g) /\ (owed[g] > 0 => quota[g].pending)
    BY <1>0 DEF RowsCover, Types, Things
  <2> QED
    BY <1>0, <1>1, <2>1 DEF QuotaLeft, MaxOf
<1>6. ASSUME NEW e \in Egresses
      PROVE  /\ owed'[e] <= TransportLeft(e)' /\ (owed'[e] > 0 => egress'[e].fails > 0)
             /\ egress[e].rev <= egress'[e].rev /\ (egress[e].rev = egress'[e].rev => owed'[e] <= owed[e])
  <2>1. owed[e] \in Nat /\ owed[e] <= TransportLeft(e) /\ (owed[e] > 0 => egress[e].fails > 0)
    BY <1>0 DEF RowsCover, Types, Things
  <2> QED
    BY <1>0, <1>2, <2>1 DEF TransportLeft, MaxOf
<1>7. RowsCover'
  BY <1>5, <1>6 DEF RowsCover
<1> QED
  BY <1>0, <1>4, <1>5, <1>6, <1>7, QuietStep

\* What Tick does to the maps of a process.
LEMMA LowerFacts ==
    ASSUME NEW keys, NEW m \in [keys -> Nat]
    PROVE  /\ Lower(m) \in [keys -> Nat]
           /\ \A x \in keys : Lower(m)[x] = MaxOf(0, m[x] - 1)
<1>1. DOMAIN m = keys
  OBVIOUS
<1>2. \A x \in keys : MaxOf(0, m[x] - 1) \in Nat
  BY DEF MaxOf
<1> QED
  BY <1>1, <1>2 DEF Lower

LEMMA TokensFacts ==
    ASSUME NEW keys, NEW m \in [keys -> Token]
    PROVE  /\ Tokens(m) \in [keys -> Token]
           /\ \A x \in keys : /\ m[x].rev \in Nat /\ m[x].after \in Nat
                              /\ Tokens(m)[x].rev = m[x].rev
                              /\ Tokens(m)[x].after = MaxOf(0, m[x].after - 1)
<1>1. DOMAIN m = keys
  OBVIOUS
<1>2. ASSUME NEW x \in keys
      PROVE  /\ m[x].rev \in Nat /\ m[x].after \in Nat /\ Tokens(m)[x] \in Token
             /\ Tokens(m)[x].rev = m[x].rev /\ Tokens(m)[x].after = MaxOf(0, m[x].after - 1)
  <2>1. m[x] \in [rev : Nat, after : Nat]
    BY DEF Token
  <2>2. MaxOf(0, m[x].after - 1) \in Nat
    BY <2>1 DEF MaxOf
  <2>3. Tokens(m)[x] = [m[x] EXCEPT !.after = MaxOf(0, m[x].after - 1)]
    BY <1>1, <2>1 DEF Tokens
  <2> QED
    BY <2>1, <2>2, <2>3 DEF Token
<1>3. Tokens(m) \in [keys -> Token]
  BY <1>1, <1>2 DEF Tokens
<1> QED
  BY <1>2, <1>3

LEMMA TickedProcess ==
    ASSUME Types, Tick, NEW v \in Workers
    PROVE  LET r == worker[v]  n == worker'[v] IN
           /\ n \in Process /\ n.pc = r.pc /\ n.on = r.on
           /\ n.health = Lower(r.health) /\ n.told = Lower(r.told)
           /\ n.quotaProbe = Tokens(r.quotaProbe) /\ n.transportProbe = Tokens(r.transportProbe)
           /\ DOMAIN n.told = DOMAIN r.told
<1> DEFINE r == worker[v]
           h == Lower(r.health)
           t == Lower(r.told)
           q == Tokens(r.quotaProbe)
           p == Tokens(r.transportProbe)
           dl == MaxOf(-1, r.deadline - 1)
           wk == MaxOf(0, r.wake - 1)
<1>1. r \in Process
  BY ProcessFacts
<1>2. worker'[v] = [r EXCEPT !.health = h, !.told = t, !.quotaProbe = q, !.transportProbe = p,
                             !.deadline = dl, !.wake = wk]
  BY DEF Tick
<1>3. h \in Maps(Egresses, Nat) /\ t \in Maps(Things, Nat) /\ DOMAIN t = DOMAIN r.told
  <2>1. /\ h \in [DOMAIN r.health -> Nat] /\ DOMAIN r.health \subseteq Egresses
        /\ t \in [DOMAIN r.told -> Nat]
    BY ProcessFacts, LowerFacts
  <2>2. DOMAIN r.told \subseteq Things
    BY <1>1, MapFacts DEF Process
  <2> HIDE DEF h, t, r
  <2> QED
    BY <2>1, <2>2, MapFacts
<1>4. q \in Maps(Groups, Token) /\ p \in Maps(Egresses, Token)
  <2>1. /\ q \in [DOMAIN r.quotaProbe -> Token] /\ DOMAIN r.quotaProbe \subseteq Groups
        /\ p \in [DOMAIN r.transportProbe -> Token] /\ DOMAIN r.transportProbe \subseteq Egresses
    BY ProcessFacts, TokensFacts
  <2> HIDE DEF q, p, r
  <2> QED
    BY <2>1, MapFacts
<1>5. dl \in Int /\ wk \in Nat
  <2>1. r.deadline \in Int /\ r.wake \in Nat
    BY ProcessFacts
  <2> QED
    BY <2>1 DEF MaxOf
<1> HIDE DEF r, h, t, q, p, dl, wk
<1>6. worker'[v] \in Process
  BY <1>1, <1>2, <1>3, <1>4, <1>5 DEF Process
<1>7. /\ worker'[v].pc = r.pc /\ worker'[v].on = r.on
      /\ worker'[v].health = h /\ worker'[v].told = t
      /\ worker'[v].quotaProbe = q /\ worker'[v].transportProbe = p
  BY <1>1, <1>2 DEF Process
<1> QED
  BY <1>3, <1>6, <1>7 DEF r, h, t, q, p

LEMMA TickStep ==
    ASSUME IInv, Tick
    PROVE  IInv'
<1>0. Types /\ RowsCover /\ MaxBack \in Nat
  BY EgressAssumption DEF IInv
<1>1. ASSUME NEW g \in Groups
      PROVE  /\ quota[g] \in [ban : Int, cooldown : Int, pending : BOOLEAN, rev : Nat]
             /\ quota'[g] \in [ban : Int, cooldown : Int, pending : BOOLEAN, rev : Nat]
             /\ quota'[g].ban = Less(quota[g].ban) /\ quota'[g].cooldown = Less(quota[g].cooldown)
             /\ quota'[g].pending = quota[g].pending /\ quota'[g].rev = quota[g].rev
  <2>1. quota[g] \in [ban : Int, cooldown : Int, pending : BOOLEAN, rev : Nat]
    BY <1>0 DEF Types
  <2>2. quota'[g] = [quota[g] EXCEPT !.ban = Less(quota[g].ban), !.cooldown = Less(quota[g].cooldown)]
    BY <2>1 DEF Tick
  <2>3. Less(quota[g].ban) \in Int /\ Less(quota[g].cooldown) \in Int
    BY <1>0, <2>1 DEF Less, MaxOf
  <2> QED
    BY <2>1, <2>2, <2>3
<1>2. ASSUME NEW e \in Egresses
      PROVE  /\ egress[e] \in [fails : Nat, cooldown : Int, rev : Nat]
             /\ egress'[e] \in [fails : Nat, cooldown : Int, rev : Nat]
             /\ egress'[e].cooldown = Less(egress[e].cooldown)
             /\ egress'[e].fails = egress[e].fails /\ egress'[e].rev = egress[e].rev
  <2>1. egress[e] \in [fails : Nat, cooldown : Int, rev : Nat]
    BY <1>0 DEF Types
  <2>2. egress'[e] = [egress[e] EXCEPT !.cooldown = Less(egress[e].cooldown)]
    BY <2>1 DEF Tick
  <2>3. Less(egress[e].cooldown) \in Int
    BY <1>0, <2>1 DEF Less, MaxOf
  <2> QED
    BY <2>1, <2>2, <2>3
<1>3. /\ quota' \in [Groups -> [ban : Int, cooldown : Int, pending : BOOLEAN, rev : Nat]]
      /\ egress' \in [Egresses -> [fails : Nat, cooldown : Int, rev : Nat]]
  BY <1>1, <1>2 DEF Tick
<1>4. owed' \in [Things -> Nat] /\ \A x \in Things : owed[x] \in Nat /\ owed'[x] = MaxOf(0, owed[x] - 1)
  <2>1. owed \in [Things -> Nat] /\ owed' = Lower(owed)
    BY <1>0 DEF Types, Tick
  <2> QED
    BY <2>1, LowerFacts
<1>5. worker' \in [Workers -> Process]
  BY <1>0, TickedProcess DEF Tick
<1>6. Types'
  BY <1>0, <1>3, <1>4, <1>5, TickedProcess DEF Types
<1>7. RowsCover'
  <2>1. ASSUME NEW g \in Groups PROVE owed'[g] <= QuotaLeft(g)' /\ (owed'[g] > 0 => quota'[g].pending)
    <3>1. owed[g] <= QuotaLeft(g) /\ (owed[g] > 0 => quota[g].pending) /\ g \in Things
      BY <1>0 DEF RowsCover, Things
    <3> QED
      BY <1>0, <1>1, <1>4, <3>1 DEF QuotaLeft, Less, MaxOf
  <2>2. ASSUME NEW e \in Egresses
        PROVE  owed'[e] <= TransportLeft(e)' /\ (owed'[e] > 0 => egress'[e].fails > 0)
    <3>1. owed[e] <= TransportLeft(e) /\ (owed[e] > 0 => egress[e].fails > 0) /\ e \in Things
      BY <1>0 DEF RowsCover, Things
    <3> QED
      BY <1>0, <1>2, <1>4, <3>1 DEF TransportLeft, Less, MaxOf
  <2> QED
    BY <2>1, <2>2 DEF RowsCover
<1>8. ASSUME NEW v \in Workers PROVE TokensCover(v)'
  <2> DEFINE q == worker[v].quotaProbe
             p == worker[v].transportProbe
  <2>0. TokensCover(v)
    BY DEF IInv
  <2>1. /\ DOMAIN q \subseteq Groups /\ q \in [DOMAIN q -> Token]
        /\ DOMAIN p \subseteq Egresses /\ p \in [DOMAIN p -> Token]
        /\ worker'[v].quotaProbe = Tokens(q) /\ worker'[v].transportProbe = Tokens(p)
    BY <1>0, ProcessFacts, TickedProcess
  <2>2. DOMAIN Tokens(q) = DOMAIN q /\ DOMAIN Tokens(p) = DOMAIN p
    BY DEF Tokens
  <2>3. ASSUME NEW g \in DOMAIN q PROVE TokenCovers(Tokens(q)[g], quota'[g], owed'[g])
    <3>1. TokenCovers(q[g], quota[g], owed[g]) /\ g \in Groups /\ g \in Things
      BY <2>0, <2>1 DEF TokensCover, Things
    <3>2. /\ q[g].rev \in Nat /\ q[g].after \in Nat /\ Tokens(q)[g].rev = q[g].rev
          /\ Tokens(q)[g].after = MaxOf(0, q[g].after - 1)
      BY <2>1, TokensFacts
    <3> HIDE DEF q
    <3> QED
      BY <1>1, <1>4, <3>1, <3>2 DEF TokenCovers, MaxOf
  <2>4. ASSUME NEW e \in DOMAIN p PROVE TokenCovers(Tokens(p)[e], egress'[e], owed'[e])
    <3>1. TokenCovers(p[e], egress[e], owed[e]) /\ e \in Egresses /\ e \in Things
      BY <2>0, <2>1 DEF TokensCover, Things
    <3>2. /\ p[e].rev \in Nat /\ p[e].after \in Nat /\ Tokens(p)[e].rev = p[e].rev
          /\ Tokens(p)[e].after = MaxOf(0, p[e].after - 1)
      BY <2>1, TokensFacts
    <3> HIDE DEF p
    <3> QED
      BY <1>2, <1>4, <3>1, <3>2 DEF TokenCovers, MaxOf
  <2> HIDE DEF q, p
  <2> QED
    BY <2>1, <2>2, <2>3, <2>4 DEF TokensCover
<1>9. ASSUME NEW v \in Workers PROVE HealthCovers(v)'
  <2> DEFINE h == worker[v].health
             told == worker[v].told
  <2>1. /\ worker'[v].pc = worker[v].pc /\ worker'[v].health = Lower(h) /\ worker'[v].told = Lower(told)
        /\ h \in [DOMAIN h -> Nat] /\ told \in [DOMAIN told -> Nat]
    BY <1>0, ProcessFacts, TickedProcess
  <2> SUFFICES ASSUME worker[v].pc # "idle", NEW e \in Egresses
               PROVE  IF e \in DOMAIN Lower(h)
                      THEN Lower(told)[Group[e]] <= Lower(h)[e] /\ Lower(told)[e] <= Lower(h)[e]
                      ELSE Lower(told)[Group[e]] = 0 /\ Lower(told)[e] = 0
    BY <2>1 DEF HealthCovers
  <2>2. DOMAIN told = Things
    BY <1>0 DEF Types
  <2>3. Group[e] \in DOMAIN told /\ e \in DOMAIN told
    BY <2>2, GroupFacts DEF Things
  <2>4. IF e \in DOMAIN h THEN told[Group[e]] <= h[e] /\ told[e] <= h[e]
                          ELSE told[Group[e]] = 0 /\ told[e] = 0
    BY DEF IInv, HealthCovers
  <2>5. DOMAIN Lower(h) = DOMAIN h
    BY DEF Lower
  <2>6. /\ told[Group[e]] \in Nat /\ told[e] \in Nat
        /\ Lower(told)[Group[e]] = MaxOf(0, told[Group[e]] - 1) /\ Lower(told)[e] = MaxOf(0, told[e] - 1)
    BY <2>1, <2>3, LowerFacts
  <2>7. e \in DOMAIN h => h[e] \in Nat /\ Lower(h)[e] = MaxOf(0, h[e] - 1)
    BY <2>1, LowerFacts
  <2> HIDE DEF h, told
  <2> QED
    BY <2>4, <2>5, <2>6, <2>7 DEF MaxOf
<1> QED
  BY <1>6, <1>7, <1>8, <1>9 DEF IInv
-----------------------------------------------------------------------------
(* The steps together *)

LEMMA StutterStep ==
    ASSUME IInv, UNCHANGED vars
    PROVE  IInv'
<1>1. quota' = quota /\ egress' = egress /\ owed' = owed /\ worker' = worker
  BY DEF vars
<1> QED
  BY <1>1 DEF IInv, Types, RowsCover, QuotaLeft, TransportLeft, TokensCover, HealthCovers

LEMMA StepIInv == IInv /\ [Next]_vars => IInv'
<1> SUFFICES ASSUME IInv, [Next]_vars PROVE IInv'
  OBVIOUS
<1>1. ASSUME NEW w \in Workers, NEW jitter \in 0 .. ExponentialLimit(worker[w].attempt), NEW delay \in Delays,
             \/ RestrictedReply(w, delay, jitter) \/ FailedReply(w, delay, jitter)
             \/ OtherReply(w, delay, jitter)
      PROVE  IInv'
  <2>1. delay \in Nat /\ jitter \in Nat
    BY EgressAssumption, JitterFacts
  <2> QED
    BY <1>1, <2>1, RestrictedReplyStep, FailedReplyStep, OtherReplyStep
<1>2. ASSUME NEW g \in Groups, NEW delay \in Delays, RecordCooldown(g, delay) PROVE IInv'
  BY <1>2, CooldownStep, EgressAssumption
<1> QED
  BY <1>1, <1>2, StutterStep, AdmitStep, ChooseEgressStep, GoodReplyStep, QuotaProbeStep, TransportProbeStep,
     CrashStep, TickStep, WallStep DEF Next

\* The inductive invariant holds in every reachable state.
THEOREM IInvAlways == Spec => []IInv
<1>1. Init => IInv
  BY InitIInv
<1>2. IInv /\ [Next]_vars => IInv'
  BY StepIInv
<1> QED
  BY <1>1, <1>2, PTL DEF Spec
-----------------------------------------------------------------------------
(* The properties *)

\* Which steps lift a restriction, and of which row.
LEMMA QuotaLifted ==
    ASSUME IInv, [Next]_vars, NEW g \in Groups, quota[g].pending, ~quota'[g].pending
    PROVE  owed[g] = 0
<1>0. Types
  BY DEF IInv
<1>1. ASSUME NEW w \in Workers, QuotaProbeSuccess(w) PROVE owed[g] = 0
  <2> DEFINE h == Group[worker[w].on]
             clears == /\ h \in DOMAIN worker[w].quotaProbe /\ Stands(worker[w].quotaProbe[h], quota[h])
                       /\ quota[h].pending
  <2>1. clears
    BY <1>1 DEF QuotaProbeSuccess
  <2>2. g = h
    BY <1>0, <1>1, <2>1 DEF QuotaProbeSuccess, Types
  <2> QED
    BY <2>1, <2>2, QuotaServed
<1>2. ASSUME NEW w \in Workers, NEW retryAfter \in Nat, NEW jitter \in Nat,
             RestrictedReply(w, retryAfter, jitter)
      PROVE  FALSE
  <2> DEFINE h == Group[worker[w].on]
             d == Decide(worker[w], retryAfter, jitter)
             q == RecordRestriction(quota[h], "ban", d.delay)
  <2>1. h \in Groups /\ d.delay \in Nat
    BY <1>0, <1>2, GroupFacts, DecisionFacts DEF RestrictedReply, Types
  <2>2. quota' = [quota EXCEPT ![h] = q]
    BY <1>0, <1>2, <2>1 DEF RestrictedReply, Types
  <2>3. q.pending = TRUE
    BY <1>0, <2>1, RestrictFacts
  <2> HIDE DEF h, q
  <2> QED
    BY <1>0, <2>1, <2>2, <2>3 DEF Types
<1>3. CASE Tick
  <2>1. quota'[g].pending = quota[g].pending
    BY <1>0, <1>3 DEF Tick, Types
  <2> QED
    BY <2>1
<1>4. CASE WallStepsBack
  <2>1. quota'[g].pending = quota[g].pending
    BY <1>0, <1>4 DEF WallStepsBack, Types
  <2> QED
    BY <2>1
<1>5. CASE UNCHANGED quota
  BY <1>5
<1>6. ASSUME NEW w \in Workers, NEW jitter \in 0 .. ExponentialLimit(worker[w].attempt), NEW delay \in Delays
      PROVE  delay \in Nat /\ jitter \in Nat
  BY EgressAssumption, JitterFacts
<1>7. ASSUME NEW h \in Groups, NEW cooldown \in Delays, RecordCooldown(h, cooldown) PROVE FALSE
  <2> DEFINE q == RecordRestriction(quota[h], "cooldown", cooldown)
  <2>1. quota' = [quota EXCEPT ![h] = q]
    BY <1>0, <1>7 DEF RecordCooldown, Types
  <2>2. q.pending = TRUE
    BY <1>0, RestrictFacts, EgressAssumption
  <2> HIDE DEF q
  <2> QED
    BY <1>0, <2>1, <2>2 DEF Types
<1> QED
  BY <1>1, <1>2, <1>3, <1>4, <1>5, <1>6, <1>7
     DEF Next, vars, AdmitHealth, ChooseEgress, GoodReply, OtherReply, TransportProbeSuccess, Crash,
         FailedReply

LEMMA TransportLifted ==
    ASSUME IInv, [Next]_vars, NEW e \in Egresses, egress[e].fails > 0, egress'[e].fails = 0
    PROVE  owed[e] = 0
<1>0. Types /\ egress[e].fails \in Nat
  BY DEF IInv, Types
<1>1. ASSUME NEW w \in Workers, TransportProbeSuccess(w) PROVE owed[e] = 0
  <2> DEFINE f == worker[w].on
             clears == /\ f \in DOMAIN worker[w].transportProbe
                       /\ Stands(worker[w].transportProbe[f], egress[f]) /\ egress[f].fails > 0
  <2>1. clears
    BY <1>0, <1>1 DEF TransportProbeSuccess
  <2>2. e = f
    BY <1>0, <1>1, <2>1 DEF TransportProbeSuccess, Types
  <2> QED
    BY <2>1, <2>2, TransportServed
<1>2. ASSUME NEW w \in Workers, NEW cooldown, NEW jitter, FailedReply(w, cooldown, jitter)
      PROVE  FALSE
  <2> DEFINE f == worker[w].on
  <2>1. f \in Egresses
    BY <1>0, <1>2 DEF FailedReply, Types
  <2>2. egress'[f].fails = egress[f].fails + 1 /\ \A x \in Egresses \ {f} : egress'[x] = egress[x]
    BY <1>0, <1>2, <2>1 DEF FailedReply, Types
  <2>3. egress[f].fails \in Nat
    BY <1>0, <2>1 DEF Types
  <2> HIDE DEF f
  <2> QED
    BY <1>0, <2>1, <2>2, <2>3
<1>3. CASE Tick
  <2>1. egress'[e].fails = egress[e].fails
    BY <1>0, <1>3 DEF Tick, Types
  <2> QED
    BY <1>0, <2>1
<1>4. CASE WallStepsBack
  <2>1. egress'[e].fails = egress[e].fails
    BY <1>0, <1>4 DEF WallStepsBack, Types
  <2> QED
    BY <1>0, <2>1
<1>5. CASE UNCHANGED egress
  BY <1>0, <1>5
<1> QED
  BY <1>1, <1>2, <1>3, <1>4, <1>5
     DEF Next, vars, AdmitHealth, ChooseEgress, GoodReply, OtherReply, QuotaProbeSuccess, Crash,
         RestrictedReply, RecordCooldown

\* RestrictionServed: whatever the interleaving of processes, replies, crashes
\* and clock steps, record_quota_probe_success and
\* record_transport_probe_success lift only what has run out in real time.
THEOREM RestrictionAlwaysServed == Spec => RestrictionServed
<1>1. IInv /\ [Next]_vars =>
        [/\ \A g \in Groups : (quota[g].pending /\ ~quota'[g].pending) => owed[g] = 0
         /\ \A e \in Egresses : (egress[e].fails > 0 /\ egress'[e].fails = 0) => owed[e] = 0]_vars
  BY QuotaLifted, TransportLifted
<1> QED
  BY <1>1, IInvAlways, PTL DEF Spec, RestrictionServed

LEMMA SentStep ==
    ASSUME IInv, [Next]_vars, NEW w \in Workers, worker[w].pc = "admitted", worker'[w].pc = "sent"
    PROVE  LET e == worker'[w].on IN worker[w].told[Group[e]] = 0 /\ worker[w].told[e] = 0
<1>0. Types /\ worker[w] \in Process /\ HealthCovers(w)
  BY ProcessFacts DEF IInv
<1>1. ASSUME NEW v \in Workers, ChooseEgress(v), v = w
      PROVE  LET e == worker'[w].on IN worker[w].told[Group[e]] = 0 /\ worker[w].told[e] = 0
  <2>1. worker' # [worker EXCEPT ![w] = Idle]
    BY <1>0, IdleFacts DEF Types
  <2>2. PICK e \in Available(worker[w]) \cup MayProbe(worker[w]) :
           worker' = [worker EXCEPT ![w].pc = "sent", ![w].on = e]
    BY <1>1, <2>1 DEF ChooseEgress
  <2>3. worker'[w].on = e
    BY <1>0, <2>2 DEF Types, Process
  <2>4. DOMAIN worker[w].health \subseteq Egresses
    BY <1>0, ProcessFacts
  <2>5. e \in Egresses
    BY <2>4 DEF Available, MayProbe
  <2>6. worker[w].told[Group[e]] \in Nat /\ worker[w].told[e] \in Nat
    <3>1. DOMAIN worker[w].told = Things /\ Group[e] \in Things /\ e \in Things
      BY <1>0, <2>5, GroupFacts DEF Types, Things
    <3> QED
      BY <1>0, <3>1, ProcessFacts
  <2>7. CASE e \in DOMAIN worker[w].health
    <3>1. worker[w].health[e] = 0
      BY <2>2, <2>7 DEF Available, MayProbe
    <3> QED
      BY <1>0, <2>3, <2>5, <2>6, <2>7, <3>1 DEF HealthCovers
  <2>8. CASE e \notin DOMAIN worker[w].health
    BY <1>0, <2>3, <2>5, <2>8 DEF HealthCovers
  <2> QED
    BY <2>7, <2>8
<1>2. ASSUME NEW v \in Workers, NEW r, worker' = [worker EXCEPT ![v] = r], r.pc # "sent" \/ v # w
      PROVE  FALSE
  BY <1>0, <1>2 DEF Types
<1>3. ASSUME NEW v \in Workers, AdmitHealth(v) PROVE FALSE
  <2>1. ASSUME NEW r \in Process, worker' = [worker EXCEPT ![v] = Admitted(r)] PROVE FALSE
    BY <1>0, <1>2, <2>1, AdmittedFacts
  <2>2. Budget \in Int
    BY EgressAssumption
  <2>3. [Idle EXCEPT !.deadline = Budget] \in Process
    BY <2>2, IdleFacts DEF Process
  <2>4. worker[v] \in Process
    BY <1>0, ProcessFacts
  <2> QED
    BY <1>3, <2>1, <2>3, <2>4 DEF AdmitHealth
<1>4. ASSUME NEW v \in Workers, ChooseEgress(v), v # w PROVE FALSE
  BY <1>0, <1>4 DEF ChooseEgress, Types
<1>5. ASSUME NEW v \in Workers, GoodReply(v) PROVE FALSE
  <2>1. v # w
    BY <1>5 DEF GoodReply
  <2> QED
    BY <1>0, <1>5, <2>1 DEF GoodReply, Types
<1>6. ASSUME NEW v \in Workers, QuotaProbeSuccess(v) \/ TransportProbeSuccess(v) PROVE FALSE
  <2>1. v # w
    BY <1>6 DEF QuotaProbeSuccess, TransportProbeSuccess
  <2>2. worker'[w] = worker[w]
    BY <1>0, <1>6, <2>1 DEF QuotaProbeSuccess, TransportProbeSuccess, Types
  <2> QED
    BY <2>2
<1>7. ASSUME NEW v \in Workers, Crash(v) PROVE FALSE
  BY <1>0, <1>2, <1>7, IdleFacts DEF Crash
<1>8. ASSUME NEW v \in Workers, NEW retryAfter, NEW jitter,
             \/ RestrictedReply(v, retryAfter, jitter) \/ FailedReply(v, retryAfter, jitter)
             \/ OtherReply(v, retryAfter, jitter)
      PROVE  FALSE
  <2>1. v # w
    BY <1>8 DEF RestrictedReply, FailedReply, OtherReply
  <2>2. worker'[w] = worker[w]
    BY <1>0, <1>8, <2>1 DEF RestrictedReply, FailedReply, OtherReply, Types
  <2> QED
    BY <2>2
<1>9. CASE Tick
  BY <1>0, <1>9, TickedProcess
<1>10. CASE UNCHANGED worker
  BY <1>10
<1> QED
  BY <1>1, <1>3, <1>4, <1>5, <1>6, <1>7, <1>8, <1>9, <1>10 DEF Next, vars, WallStepsBack, RecordCooldown

\* ProbeWaits: no request leaves through an egress inside a restriction that was
\* known when choose_egress's health was admitted.
THEOREM ProbeAlwaysWaits == Spec => ProbeWaits
<1>1. IInv /\ [Next]_vars =>
        [\A w \in Workers : (worker[w].pc = "admitted" /\ worker'[w].pc = "sent") =>
           LET e == worker'[w].on IN worker[w].told[Group[e]] = 0 /\ worker[w].told[e] = 0]_vars
  BY SentStep
<1> QED
  BY <1>1, IInvAlways, PTL DEF Spec, ProbeWaits
=============================================================================
