-------------------------- MODULE RecoveryOutcomes --------------------------
(***************************************************************************)
(* What startup recovery promises, whatever stops it and however often: a  *)
(* source left behind is settled once, its outcome is told on the control  *)
(* stream once, then the transaction is done; nothing of that is ever      *)
(* taken back; and the service opens only when no settled source is left   *)
(* untold.  Recovery implements this specification.                        *)
(***************************************************************************)
EXTENDS Naturals

CONSTANT Parts

VARIABLES stage,   \* part -> "open", "settled", "done"
          told,    \* the parts whose outcome the control stream shows for good
          up       \* the service is open

outcomeVars == <<stage, told, up>>

OutcomesInit == stage = [p \in Parts |-> "open"] /\ told = {} /\ up = FALSE

Settle(p) ==
    /\ stage[p] = "open" /\ p \notin told /\ ~up
    /\ stage' = [stage EXCEPT ![p] = "settled"] /\ UNCHANGED <<told, up>>

Tell(p) ==
    /\ stage[p] = "settled" /\ p \notin told /\ ~up
    /\ told' = told \cup {p} /\ UNCHANGED <<stage, up>>

Finish(p) ==
    /\ stage[p] = "settled" /\ p \in told /\ ~up
    /\ stage' = [stage EXCEPT ![p] = "done"] /\ UNCHANGED <<told, up>>

Open ==
    /\ ~up /\ \A p \in Parts : stage[p] # "settled"
    /\ up' = TRUE /\ UNCHANGED <<stage, told>>

Stop == up /\ up' = FALSE /\ UNCHANGED <<stage, told>>

OutcomesNext == (\E p \in Parts : Settle(p) \/ Tell(p) \/ Finish(p)) \/ Open \/ Stop

OutcomesSpec == OutcomesInit /\ [][OutcomesNext]_outcomeVars
=============================================================================
