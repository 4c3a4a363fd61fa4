--------------------------- MODULE MCPublication ---------------------------
(* The instances of Publication that TLC checks. *)
EXTENDS Publication

NoneTaken == {{}}
AnyTaken == SUBSET {"final", "mfinal"}
=============================================================================
