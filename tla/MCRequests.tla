---------------------------- MODULE MCRequests ----------------------------
(* An instance of Requests for TLC: one bit of address, ids 0 (root), 1 and  *)
(* 9 (nobody), the export /a/b below the export /a, a sibling /ab that is     *)
(* not exported, and three versions of the exports file.                      *)
EXTENDS Requests, TLC

A == <<"/", "a">>
AB == <<"/", "a", "/", "b">>
Sibling == <<"/", "a", "b">>
ASlash == <<"/", "a", "/">>

MCRealpath == (A :> A) @@ (AB :> AB) @@ (ASlash :> A)
MCFsid == (A :> 101) @@ (AB :> 102) @@ (ASlash :> 103)
MCPaths == {A, AB}
MCSiblings == {A, Sibling}
MCFnv == ("" :> 0) @@ ("p" :> 1)

Anyone == [kind |-> "anon", addr |-> {}, resolves |-> TRUE]
Net == [kind |-> "NET", addr |-> {1}, bits |-> 1, resolves |-> TRUE]
Host == [kind |-> "IP", addr |-> {1}, resolves |-> TRUE]

Spec1(name, words, pw, uid) ==
    [name |-> name, words |-> words, password |-> pw, anonuid |-> uid, anongid |-> -1]
Line(path, hosts) == [path |-> path, hosts |-> hosts, wellformed |-> TRUE]

Before ==
    [readable |-> TRUE, public |-> TRUE, lines |->
        <<Line(AB, <<Spec1(Net, <<"rw", "no_root_squash", "all_squash">>, "", 1)>>),
          Line(A, <<Spec1(Host, <<"rw", "no_root_squash">>, "", -1),
                    Spec1(Anyone, <<"ro", "rw">>, "", -1)>>)>>]
After ==
    [readable |-> TRUE, public |-> FALSE, lines |->
        <<Line(ASlash, <<Spec1(Anyone, <<"removable", "rw">>, "p", -1)>>), Line(AB, <<>>)>>]
Broken ==
    [readable |-> TRUE, public |-> TRUE, lines |->
        <<Line(A, <<>>), [Line(AB, <<>>) EXCEPT !.wellformed = FALSE]>>]
MCFiles == {Before, After, Broken}

MCSetups ==
    {[uid |-> 0, gid |-> 0, opt_singleuser |-> FALSE],
     [uid |-> 1, gid |-> 1, opt_singleuser |-> FALSE]}
MCNobody == [uid |-> 9, gid |-> 9]

MCCreds ==
    {[flavor |-> "AUTH_UNIX", uid |-> 0, gid |-> 0, gids |-> <<>>],
     [flavor |-> "AUTH_UNIX", uid |-> 1, gid |-> 1, gids |-> <<0>>]}

MCObjects ==
    {[uid |-> 1, gid |-> 9, mode |-> {"XGRP", "XOTH"}, dir |-> FALSE],
     [uid |-> 0, gid |-> 1, mode |-> {"WUSR", "XUSR"}, dir |-> FALSE]}
=============================================================================
