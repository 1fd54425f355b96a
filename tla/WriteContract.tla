--------------------------- MODULE WriteContract ---------------------------
(***************************************************************************)
(* What the server promises the clients that WRITE, without descriptors,   *)
(* cache or time: the contract described at the top of fd_cache.c.         *)
(*                                                                         *)
(* The state of a file is that of the data acknowledged for it under the   *)
(* write verifier in force: all of it settled, some of it unsynced, or     *)
(* some of it lost.  A new verifier tells every client to send again what  *)
(* it does not know to be settled, so it starts every file afresh.         *)
(***************************************************************************)
CONSTANTS Files, NoFile

VARIABLES promise,   \* file -> "settled", "unsynced" or "lost"
          reply      \* the reply just given to a WRITE, if any

vars == <<promise, reply>>

Reply(f, status, stable) == [fh |-> f, status |-> status, stable |-> stable]
NoReply == Reply(NoFile, "none", FALSE)

AllSettled == [f \in Files |-> "settled"]

Init == promise = AllSettled /\ reply = NoReply

\* A WRITE that need not be stable succeeds; its data may wait for a sync.
Unstable(f) ==
    /\ promise[f] # "lost"
    /\ \E p \in {"settled", "unsynced"} : promise' = [promise EXCEPT ![f] = p]
    /\ reply' = Reply(f, "ok", FALSE)

\* A stable WRITE succeeds: what was acknowledged before it is synced as well.
Stable(f) ==
    /\ promise[f] # "lost"
    /\ promise' = [promise EXCEPT ![f] = "settled"]
    /\ reply' = Reply(f, "ok", TRUE)

\* A WRITE fails; it may have synced what was acknowledged before.
Fail(f, stable) ==
    /\ \/ UNCHANGED promise
       \/ /\ promise[f] = "unsynced"
          /\ promise' = [promise EXCEPT ![f] = "settled"]
    /\ reply' = Reply(f, "error", stable)

\* A WRITE reports a failure and the verifier changes.
Report(f, stable) ==
    /\ promise' = AllSettled
    /\ reply' = Reply(f, "error", stable)

\* Unsynced data is synced, or lost, while no client waits for it.
Background ==
    /\ promise' \in [Files -> {"settled", "unsynced", "lost"}]
    /\ \A f \in Files : promise[f] # "unsynced" => promise'[f] = promise[f]
    /\ reply' = NoReply

NewVerifier == promise' = AllSettled /\ reply' = NoReply

Next == \/ \E f \in Files : Unstable(f) \/ Stable(f)
        \/ \E f \in Files, stable \in BOOLEAN : Fail(f, stable) \/ Report(f, stable)
        \/ Background
        \/ NewVerifier

Spec == Init /\ [][Next]_vars
=============================================================================
