------------------------- MODULE MCProbeAllocation -------------------------
(* Instance of ProbeAllocation for TLC: two markets, two egresses of one or  *)
(* two quota groups, one endpoint of work for each depth.                    *)
EXTENDS ProbeAllocation

Candidate(prio, at, policy, deep) == [prio |-> prio, at |-> at, policy |-> policy, deep |-> deep]
Deep(depth, every, overload) == {[depth |-> depth, every |-> every, overload |-> overload]}
Work(endpoint, depth, cost, jobs) == [endpoint |-> endpoint, depth |-> depth, cost |-> cost, jobs |-> jobs]

Fixed == Candidate("fixed", 0, "degrade", Deep(1, 2, "fail"))
Young == Candidate("new", 7, "degrade", Deep(1, 3, "stretch"))
Kept == Candidate("new", 5, "fail", Deep(2, 2, "stretch"))
Quiet == Candidate("new", 7, "degrade", {})
Top(rank) == Candidate("top", rank, "degrade", Deep(1, 2, "stretch"))
Strained(rank) == Candidate("top", rank, "degrade", Deep(1, 2, "fail"))
Eager(rank) == Candidate("top", rank, "degrade", Deep(2, 6, "stretch"))

First == {<<Fixed, Top(1), Young>>, <<Fixed, Fixed, Top(1)>>, <<Young, Quiet, Top(1)>>,
          <<Top(1), Top(1), Kept>>, <<Fixed, Strained(1), Top(2)>>}
Second == {<<Top(1)>>, <<Kept, Top(2)>>, <<Fixed, Strained(1)>>, <<Eager(1), Young>>}
Ranks == {[k \in 1..3 |-> <<1, 2>>], [k \in 1..3 |-> IF k = 2 THEN <<1, 2>> ELSE <<2, 1>>]}
AllWork == {Work(1, 1, 1, 1), Work(2, 2, 1, 2)}

Pools == {<<[conns |-> a, group |-> 1, up |-> TRUE], [conns |-> 1, group |-> 2, up |-> b]>> :
             a \in 1..2, b \in BOOLEAN}
\* Tokens of the first and of the second endpoint, for each of two groups.
Budgets(a, b) == [ge \in {<<1, 1>>, <<2, 1>>, <<1, 2>>, <<2, 2>>} |-> IF ge[2] = 1 THEN a ELSE b]
AllBudgets == {Budgets(0, 1), Budgets(1, 1), Budgets(2, 1), [ge \in {<<1, 1>>, <<1, 2>>} |-> 1]}

Market(draft, per, entry, work, rank) ==
    [draft |-> draft, per |-> per, entry |-> entry, work |-> work, rank |-> rank]
Case(first, second, pool, budget) ==
    [egress |-> pool, market |-> <<first, second>>, budget |-> budget, maximum |-> 5]
MCCases ==
    {Case(Market(TRUE, per, one, AllWork, rank), Market(TRUE, 1, two, AllWork, rank), pool, budget) :
        per \in 1..2, one \in First, two \in Second, rank \in Ranks, pool \in Pools,
        budget \in AllBudgets}
    \cup {Case(Market(TRUE, 1, one, {Work(1, 1, 1, 1)}, rank), Market(draft, per, <<Top(1)>>, AllWork, rank),
               pool, Budgets(1, 1)) :
        draft \in BOOLEAN, per \in 0..1, one \in First, rank \in Ranks, pool \in Pools}
=============================================================================
