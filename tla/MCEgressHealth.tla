--------------------------- MODULE MCEgressHealth ---------------------------
(* Two processes over two egresses of two quota groups. *)
EXTENDS EgressHealth, TLC

MCGroup == [e \in Egresses |-> IF e = "e1" THEN "g1" ELSE "g2"]
Sym == Permutations(Workers)
=============================================================================
