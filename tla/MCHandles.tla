----------------------------- MODULE MCHandles -----------------------------
(* Instances of Handles for TLC. *)
EXTENDS Handles, TLC

\* Two of the inodes have the same hash, and so have the root and one of them.
MCHash == [i \in Inodes \cup {RootIno, 0} |-> i % 2]
MCExport == <<"a">>
=============================================================================
