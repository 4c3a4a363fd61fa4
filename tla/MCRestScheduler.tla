-------------------------- MODULE MCRestScheduler --------------------------
(* Four jobs on two budgets: an urgent dear job, a sticky one of the   *)
(* lowest priority, and two occurrences of one replaceable snapshot.         *)
EXTENDS RestScheduler

CONSTANTS p, q, boot, meta, snap1, snap2, k1, k2, snapshot

Job(prio, keys, eligible, cost, due, deadline, lkey, sched) ==
    [prio |-> prio, keys |-> keys, eligible |-> eligible, cost |-> cost, ready |-> due,
     deadline |-> deadline, lkey |-> lkey, replaceable |-> lkey # NoKey, sched |-> sched]

AnyOrder == Permutations(Dispatchers)

FourJobs ==
    [j \in Jobs |->
       CASE j = boot -> Job(0, <<k1>>, {k1}, 2, 0, Never, NoKey, 0)
         [] j = meta -> Job(4, <<k1, k2>>, {k2}, 1, 1, Never, NoKey, 0)
         [] j = snap1 -> Job(3, <<k1, k2>>, {k1, k2}, 1, 0, 1, snapshot, 1)
         [] j = snap2 -> Job(3, <<k2, k1>>, {k1, k2}, 2, 2, 2, snapshot, 2)]
=============================================================================
