----------------------------- MODULE MCFhCache -----------------------------
(* Instances of FhCache for TLC. *)
EXTENDS FhCache, TLC

\* The objects that are neither a root nor an export point are interchangeable.
Symmetry == Permutations(Objects \ (Roots \cup Exports))
=============================================================================
