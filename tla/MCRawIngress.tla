--------------------------- MODULE MCRawIngress ---------------------------
(* The instance of RawIngress that TLC checks. *)
EXTENDS RawIngress, TLC

\* The native streams are interchangeable, and so are their shards.
Symmetry == Permutations(NormalKeys) \cup Permutations(NormalShards)
=============================================================================
