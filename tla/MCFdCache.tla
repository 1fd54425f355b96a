----------------------------- MODULE MCFdCache -----------------------------
(* Instances of FdCache for TLC. *)
EXTENDS FdCache, TLC

\* Files and descriptors are interchangeable, and so are verifier values.
Symmetry == Permutations(Handles) \cup Permutations(Fds) \cup Permutations(Verifiers)
=============================================================================
