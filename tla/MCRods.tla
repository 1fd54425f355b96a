------------------------------- MODULE MCRods -------------------------------
(* Instances of Rods for TLC: three users, the number of one of them the       *)
(* beginning of another's, and one who is not in the password file.           *)
EXTENDS Rods, TLC

MCMe == <<"1", "0">>
MCUids == {MCMe, <<"2", "0">>, <<"1">>, <<"9">>}
MCNames == (MCMe :> <<"a">>) @@ (<<"2", "0">> :> <<"b">>) @@ (<<"1">> :> <<"c">>)
MCModes == {<<6, 4, 4>>, <<2, 0, 0>>, <<0, 0, 0>>}
MCMode == {<<6, 4, 4>>}
MCExport == <<"/", "e">>
MCLeftovers == {<<>>, <<"/", "x">>}

\* In the export e, the file is /e/10/f or /e/10/e/20/f, and /e/f without private
\* collections.
Top == <<>>
Deep == <<"/", "e", "/", "2", "0">>
Conf(private, pub, honours, dir, ops) ==
    [private |-> private, pub |-> pub, honours |-> honours, dir |-> dir, ops |-> ops]

\* Clients that work on the data, and clients that work on the attributes.
MCConfs == {Conf(TRUE, FALSE, TRUE, Top, {"ACCESS", "WRITE", "READDIR"}),
            Conf(TRUE, FALSE, FALSE, Top, {"READ", "GETATTR", "READDIR"}),
            Conf(TRUE, FALSE, TRUE, Top, {"SETATTR", "GETATTR", "READDIR"}),
            Conf(TRUE, FALSE, TRUE, Deep, {"ACCESS", "READDIR"}),
            Conf(FALSE, FALSE, TRUE, Top, {"READ", "READDIR", "OTHER"}),
            Conf(TRUE, TRUE, TRUE, Top, {"ACCESS", "READDIR"})}

MCReaders == {Conf(TRUE, FALSE, honours, Top, {"READ", "READDIR"}) : honours \in BOOLEAN}
MCWriters == {Conf(TRUE, FALSE, TRUE, Top, {"WRITE", "READDIR"})}
MCSetters == {Conf(TRUE, FALSE, TRUE, Top, {"SETATTR", "READDIR"})}
MCPaths == {Conf(TRUE, FALSE, TRUE, dir, {"ACCESS", "WRITE", "READDIR"}) : dir \in {Top, Deep}}
=============================================================================
