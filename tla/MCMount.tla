------------------------------ MODULE MCMount ------------------------------
(* Instances of Mount for TLC: a fixed directory with a password and a       *)
(* removable medium.                                                         *)
EXTENDS Mount, TLC

CONSTANTS a, b, locked, medium

\* Only host a may mount the medium.
AllButOne == {<<a, locked>>, <<a, medium>>, <<b, locked>>}

Symmetry == Permutations(Nonces)
=============================================================================
