------------------------------ MODULE MCMirror ------------------------------
(* Instances of Mirror for TLC. *)
EXTENDS Mirror

\* f has an ordinary name; w is called "f ...", which the shell cuts at the
\* space.
ShellWord == [n \in Names |-> "f"]
=============================================================================
