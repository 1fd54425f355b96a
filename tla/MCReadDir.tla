----------------------------- MODULE MCReadDir -----------------------------
(* An instance of ReadDir for TLC: names of two lengths, replies with room for *)
(* no, one or two entries, and a limit of two entries.                        *)
EXTENDS ReadDir, TLC

MCSizes == [n \in Names |-> IF n = "long" THEN 2 ELSE 1]
=============================================================================
