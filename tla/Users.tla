------------------------------- MODULE Users -------------------------------
(***************************************************************************)
(* Whose rights the server acts with (user.c).  The process changes its    *)
(* effective user for every request; squashing replaces some users by      *)
(* "nobody" or by the anonymous user of the export.  The operators read    *)
(* the globals the code reads: the options the last exports_options found. *)
(*                                                                         *)
(* A credential is [flavor, uid, gid, gids]; gids is the sequence of       *)
(* auxiliary groups.                                                       *)
(***************************************************************************)
EXTENDS Exports

CONSTANTS
    Setups,          \* ways to start the server: [uid, gid, opt_singleuser]
    NobodyIds,       \* [uid, gid] of "nobody", 65534 if there is no such user
    ROOT             \* id 0

VARIABLES
    setup,           \* the ids the process was started with, and its option -s
    can_switch,      \* seteuid and setegid may be used
    squash,          \* [uid, gid] to squash to
    effective        \* [uid, gid, groups] of the process

userVars == <<setup, can_switch, squash, effective>>

ServerIds == [uid |-> setup.uid, gid |-> setup.gid]
StartedAs(s) == [uid |-> s.uid, gid |-> s.gid, groups |-> {}]

UsersInit ==
    /\ setup \in Setups
    /\ can_switch = TRUE
    /\ squash = NobodyIds
    /\ effective = StartedAs(setup)

\* Nothing is looked up once can_switch is off: the ids are the server's.
get_squash_ids == squash' = IF can_switch THEN NobodyIds ELSE squash

----------------------------------------------------------------------------
(* Mangling *)

\* Mutant: the options are tested in the wrong order.
NoRootSquashFirst(id, to) ==
    IF "NO_ROOT_SQUASH" \in exports_opts THEN id
    ELSE IF ~can_switch \/ "ALL_SQUASH" \in exports_opts \/ id = ROOT THEN to
    ELSE id

mangle(id, to) ==
    IF ~can_switch \/ "ALL_SQUASH" \in exports_opts THEN to
    ELSE IF "NO_ROOT_SQUASH" \in exports_opts THEN id
    ELSE IF id = ROOT THEN to
    ELSE id

squash_uid == IF last_anonuid # ANON_NOTSPECIAL THEN last_anonuid ELSE squash.uid
squash_gid == IF last_anongid # ANON_NOTSPECIAL THEN last_anongid ELSE squash.gid

mangle_uid(id) == mangle(id, squash_uid)
mangle_gid(id) == mangle(id, squash_gid)

get_uid(cred) ==
    IF cred.flavor = "AUTH_UNIX" THEN mangle_uid(cred.uid) ELSE squash_uid
get_gid(cred) ==
    IF cred.flavor = "AUTH_UNIX" THEN mangle_gid(cred.gid) ELSE squash_gid

is_owner(owner, cred) == owner = get_uid(cred)

\* Unlike get_gid this does not look at the export's anonymous group.
has_group(group, cred) ==
    /\ cred.flavor = "AUTH_UNIX"
    /\ \/ mangle(cred.gid, squash.gid) = group
       \/ \E i \in DOMAIN cred.gids : mangle(cred.gids[i], squash.gid) = group

----------------------------------------------------------------------------
(* Switching *)

CanBecomeRoot == setup.uid = ROOT

\* setegid and seteuid fail, unnoticed, in a server not started by root.
SwitchedToRoot(e) ==
    IF can_switch /\ CanBecomeRoot THEN [e EXCEPT !.uid = ROOT, !.gid = ROOT] ELSE e

switch_to_root == effective' = SwitchedToRoot(effective)

\* switch_groups: at most 32 auxiliary groups, each mangled in the credential
\* itself.
MaxGroups == 32
switch_groups(cred) ==
    {mangle(cred.gids[i], squash.gid) : i \in {k \in DOMAIN cred.gids : k <= MaxGroups}}

\* switch_user: the first request of a server that cannot or must not switch
\* turns switching off for good.  Without AUTH_UNIX the groups are taken from
\* where a credential would be: whatever is there, mangled.
switch_user(cred) ==
    IF ~can_switch THEN UNCHANGED userVars
    ELSE IF setup.opt_singleuser \/ ~CanBecomeRoot
    THEN /\ squash' = ServerIds
         /\ can_switch' = FALSE
         /\ UNCHANGED <<setup, effective>>
    ELSE /\ effective' \in [uid : {get_uid(cred)}, gid : {get_gid(cred)},
              groups : IF cred.flavor = "AUTH_UNIX" THEN {switch_groups(cred)}
                       ELSE {{}, {mangle(ROOT, squash.gid)}}]
         /\ UNCHANGED <<setup, can_switch, squash>>

----------------------------------------------------------------------------
(* Back to root where the caller may do what the mode of the file denies.  A  *)
(* file is [uid, gid, mode]; a mode is a set of permission names.             *)

\* read_executable: an executable the caller may execute and not read.
exec_only(file, cred) ==
    CASE is_owner(file.uid, cred) -> "XUSR" \in file.mode /\ "RUSR" \notin file.mode
      [] ~is_owner(file.uid, cred) /\ has_group(file.gid, cred) ->
            "XGRP" \in file.mode /\ "RGRP" \notin file.mode
      [] OTHER -> "XOTH" \in file.mode /\ "ROTH" \notin file.mode

\* read_by_owner, write_by_owner: the owner of a file whose mode shuts him out.
owner_denied(file, cred, u, g, o) ==
    /\ is_owner(file.uid, cred)
    /\ ~ \/ u \in file.mode
         \/ has_group(file.gid, cred) /\ g \in file.mode
         \/ o \in file.mode

read_executable(file, cred) == exec_only(file, cred)
read_by_owner(file, cred) == owner_denied(file, cred, "RUSR", "RGRP", "ROTH")
write_by_owner(file, cred) == owner_denied(file, cred, "WUSR", "WGRP", "WOTH")

\* The switches back test nothing but the file and the caller: where no user
\* can be switched, seteuid does nothing or fails.
Elevated(e) == IF CanBecomeRoot THEN [e EXCEPT !.uid = ROOT, !.gid = ROOT] ELSE e
=============================================================================
