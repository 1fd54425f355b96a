----------------------------- MODULE Requests -----------------------------
(***************************************************************************)
(* One request after another, from its arrival to its reply, with signals  *)
(* in between: the composition of the export list and the user switching.  *)
(* PREP and the procedures (nfs.c) and MNT (mount.c) are split wherever a  *)
(* SIGHUP can change what the rest of the request sees.                    *)
(*                                                                         *)
(* Simplifications: switch_to_root and fh_decomp (FhCache has its details) *)
(* are one step; the search that fh_comp makes in MNT is part of the step  *)
(* that issues the handle; a mount command other than "@password:" is not  *)
(* told apart (Mount has them).                                            *)
(***************************************************************************)
EXTENDS Users

CONSTANTS
    Remotes,      \* client addresses
    Creds,        \* credentials in requests
    MountPaths,   \* paths clients mount, as realpath returns them
    Passwords,    \* passwords clients give, "" for none
    Files,        \* owner, group and mode of files: [uid, gid, mode]
    opt_readable_executables

\* A credential carries no more groups than switch_groups copies: the protocol
\* allows 16.
ASSUME RequestsAssumption ==
    /\ \A remote \in Remotes : remote \subseteq AllOnes
    /\ \A cred \in Creds : DOMAIN cred.gids \subseteq 1..MaxGroups

VARIABLES
    pc,        \* what the server does next
    cur,       \* the request being served
    granted,   \* history: the item and host the file names for the request,
               \* and whether no other item is a mere prefix of its path
    loaded,    \* history: the exports file as the server last read it
    searched   \* history: the same when the last search began

histVars == <<granted, loaded, searched>>
requestVars == <<pc, cur, histVars>>
vars == <<exportVars, userVars, requestVars>>

\* A handle of an export point marked removable holds the hash of its path;
\* any other leads to a path as long as the object exists.
NoHandle == [kind |-> "none", at |-> NoPath, pwhash |-> 0]
\* The handles clients may hold: of every path, and of every removable export
\* point of any version of the file, made while any of the passwords was set,
\* before or after a restart.
Removables ==
    UNION {{get_free_fsid[file.lines[i].path] :
               i \in {k \in DOMAIN file.lines : removable_for_all(file.lines[k])}} :
           file \in ExportFiles}
PwHashes == {fnv1a_32[pw] : pw \in Passwords}
Handles == [kind : {"path"}, at : MountPaths, pwhash : PwHashes]
           \cup [kind : {"export"}, at : Removables, pwhash : PwHashes]

NoHost == [path |-> NoPath, host |-> AnonHost, apart |-> FALSE]
AnyFile == CHOOSE f \in Files : TRUE
Idle == [op |-> "NONE", remote |-> {}, cred |-> CHOOSE c \in Creds : TRUE,
         handle |-> NoHandle, path |-> NoPath, tofh |-> NoHandle, to |-> NoPath, given |-> "",
         authenticated |-> FALSE, prev |-> <<>>, elevated |-> FALSE,
         file |-> AnyFile, access |-> {}, status |-> "none"]

\* exports_parse opens the file with the rights of whom the server acts for.
AsSeenBy(e) == [efile EXCEPT !.readable = @ /\ (efile.public \/ e.uid = ROOT)]

Init ==
    /\ UsersInit
    /\ efile \in ExportFiles
    /\ ExportsInit(AsSeenBy(effective))
    /\ pc = "idle"
    /\ cur = Idle
    /\ granted = NoHost
    /\ loaded = AsSeenBy(effective)
    /\ searched = loaded

Goto(l) == pc' = l
Reply(status) ==
    /\ pc' = "reply"
    /\ cur' = [cur EXCEPT !.status = status]

----------------------------------------------------------------------------
(* Arrival: the handle is resolved as root, then the search of the list begins. *)
(* A SIGHUP between the two frees the list that the path may be a part of.      *)

BeginSearch(path, walk, check) ==
    /\ exports_options_begin(path)
    /\ Goto(IF exports_access' THEN walk ELSE check)
    /\ searched' = loaded

fh_decomp(h) ==
    IF h.kind = "export"
    THEN IF export_point_from_fsid(h.at) = {} THEN {NoPath}
         ELSE {export_list[i].path : i \in export_point_from_fsid(h.at)}
    ELSE {h.at, NoPath}

\* The path of an export point is the one in the list, not a copy.
Kept(h, path) == IF h.kind = "export" /\ path # NoPath THEN "list" ELSE "own"

\* What a path yields when it is read: of a freed one whatever is there.
Reads(path) == IF held = "freed" THEN MountPaths \cup {path} ELSE {path}

\* The other procedures do what ACCESS does until the path is translated.
Procedures == {"READ", "WRITE", "ACCESS", "RENAME"}

ArriveNfs ==
    /\ pc = "idle"
    /\ \E op \in Procedures, remote \in Remotes, cred \in Creds, h \in Handles :
         \E path \in fh_decomp(h) :
            /\ cur' = [Idle EXCEPT !.op = op, !.remote = remote, !.cred = cred,
                                   !.handle = h, !.path = path]
            /\ held' = Kept(h, path)
    /\ Goto("prep")
    /\ switch_to_root
    /\ UNCHANGED <<efile, listVars, exports_access, foundVars, cursor,
                   setup, can_switch, squash, histVars>>

PrepSearch ==
    /\ pc = "prep"
    /\ \E path \in Reads(cur.path) :
          /\ cur' = [cur EXCEPT !.path = path]
          /\ BeginSearch(path, "walk", "check")
    /\ UNCHANGED <<userVars, granted, loaded>>

\* MNT: with "@password:" the list is searched for the password first.
ArriveMnt ==
    /\ pc = "idle"
    /\ \E remote \in Remotes, path \in MountPaths, given \in Passwords :
         /\ cur' = [Idle EXCEPT !.op = "MNT", !.remote = remote, !.path = path,
                                !.given = given]
         /\ IF given = "" THEN BeginSearch(path, "walk", "check")
                          ELSE BeginSearch(path, "auth_walk", "auth_check")
    /\ UNCHANGED <<userVars, granted, loaded>>

\* The rest of exports_options.
SearchPath == IF pc \in {"compat_walk", "compat_check"} THEN cur.to ELSE cur.path
Walked == [auth_walk |-> "auth_check", walk |-> "check", compat_walk |-> "compat_check"]

SearchStep ==
    /\ pc \in DOMAIN Walked
    /\ exports_options_step(SearchPath, cur.remote)
    /\ UNCHANGED <<userVars, requestVars>>

SearchEnd ==
    /\ pc \in DOMAIN Walked
    /\ exports_options_end
    /\ Goto(Walked[pc])
    /\ UNCHANGED <<userVars, cur, histVars>>

----------------------------------------------------------------------------
(* What the search should find: unfsd.8 on the exports file. *)

\* The lines in force: a file with an error in it exports nothing.
Lines(file) ==
    IF file.readable /\ \A i \in DOMAIN file.lines : ~e_error(file.lines[i])
    THEN file.lines ELSE <<>>

\* The client is the named host, or in the named network, or nobody is named.  A
\* network whose address has bits beyond its mask is nobody's.
Concerns(name, remote) ==
    CASE name.kind = "anon" -> TRUE
      [] name.kind \in {"ID", "IP"} -> remote = name.addr
      [] name.kind = "NET" -> /\ \A i \in 1..name.bits : i \in remote <=> i \in name.addr
                              /\ name.addr \subseteq 1..name.bits
      [] name.kind = "OLDNET" -> /\ \A i \in name.mask : i \in remote <=> i \in name.addr
                                 /\ name.addr \subseteq name.mask
First(S) == {i \in S : \A j \in S : i <= j}
HostsFor(line, remote) ==
    IF line.hosts = <<>> THEN {AnonHost}
    ELSE {add_host(line.hosts[i]) :
             i \in First({k \in DOMAIN line.hosts : Concerns(line.hosts[k].name, remote)})}

\* A line exports a directory, with what is in it: the path is the directory's
\* name, or goes on below it.
within(path, dir) ==
    /\ begins_with(path, dir)
    /\ \/ dir = <<"/">>
       \/ Len(path) = Len(dir)
       \/ path[Len(dir) + 1] = "/"

\* What the client is granted at a path: the first of its hosts in the line with
\* the innermost directory that the path is in, the first such line.
Matching(lines, path, remote) ==
    {i \in DOMAIN lines : /\ within(path, item_path(lines[i]))
                          /\ HostsFor(lines[i], remote) # {}}
Grants(file, path, remote) ==
    LET lines == Lines(file)
        all == Matching(lines, path, remote)
        longest == {i \in all : \A j \in all :
                       Len(item_path(lines[j])) <= Len(item_path(lines[i]))}
    IN  IF has_updir(path) THEN {}
        ELSE UNION {{[path |-> item_path(lines[i]), host |-> h] :
                         h \in HostsFor(lines[i], remote)} : i \in First(longest)}
\* A table, for TLC.
GrantTable ==
    [file \in ExportFiles |-> [path \in MountPaths |-> [remote \in Remotes |->
        Grants(file, path, remote)]]]
GrantsFor(file, path, remote) ==
    IF path = NoPath THEN {}
    ELSE IF file \in ExportFiles /\ path \in MountPaths THEN GrantTable[file][path][remote]
    ELSE Grants(file, path, remote)

\* No line's directory is a prefix of the path without the path being in it, as
\* /a is of /ab.
Apart(file, path) ==
    LET lines == Lines(file) IN
    \A i \in DOMAIN lines :
        begins_with(path, item_path(lines[i])) => within(path, item_path(lines[i]))
ApartTable == [file \in ExportFiles |-> [path \in MountPaths |-> Apart(file, path)]]
IsApart(file, path) ==
    IF path = NoPath THEN TRUE
    ELSE IF file \in ExportFiles /\ path \in MountPaths THEN ApartTable[file][path]
    ELSE Apart(file, path)

----------------------------------------------------------------------------
(* MNT *)

\* What a reference into a freed list yields: anything.
Password == IF export_path.live THEN {password} ELSE Passwords

MntAuth ==
    /\ pc = "auth_check"
    /\ \E word \in Password :
         cur' = [cur EXCEPT !.authenticated = exports_opts # NotExported /\ cur.given = word]
    /\ BeginSearch(cur.path, "walk", "check")
    /\ UNCHANGED <<userVars, granted, loaded>>

\* The handle of an export point is a special one if the export is removable.
fh_comp(path) ==
    IF export_point(path) /\ "REMOVABLE" \in exports_opts
    THEN {[kind |-> "export", at |-> export_list[i].fsid, pwhash |-> export_password_hash] :
             i \in {k \in DOMAIN export_list : export_list[k].path = path}}
    ELSE {[kind |-> "path", at |-> path, pwhash |-> export_password_hash]}

MntCheck ==
    /\ pc = "check" /\ cur.op = "MNT"
    /\ \E word \in Password :
         IF exports_opts = NotExported \/ (~cur.authenticated /\ word # "")
         THEN Reply("ACCES")
         ELSE \/ \E h \in fh_comp(cur.path) :
                   /\ cur' = [cur EXCEPT !.handle = h, !.status = "OK"]
                   /\ Goto("reply")
              \/ Reply("ACCES")   \* port; not a directory
    /\ UNCHANGED <<exportVars, userVars, histVars>>

----------------------------------------------------------------------------
(* The rest of PREP *)

\* Mutant: the password hash in the handle is not looked at.
RefusedUnexported == exports_opts = NotExported

Refused == exports_opts = NotExported \/ cur.handle.pwhash # export_password_hash

PrepRefuses ==
    /\ pc = "check" /\ cur.op # "MNT" /\ Refused
    /\ Reply(IF exports_opts = NotExported /\ cur.path # NoPath THEN "ACCES" ELSE "STALE")
    /\ UNCHANGED <<exportVars, userVars, histVars>>

PrepAdmits ==
    /\ pc = "check" /\ cur.op # "MNT" /\ ~Refused
    /\ switch_user(cur.cred)
    /\ granted' \in LET grants == GrantsFor(searched, cur.path, cur.remote)
                    IN  IF grants = {} THEN {NoHost}
                        ELSE {[path |-> g.path, host |-> g.host,
                               apart |-> IsApart(searched, cur.path)] : g \in grants}
    /\ Goto(CASE cur.op = "READ" -> "elevate"
              [] cur.op = "RENAME" -> "rename"
              [] OTHER -> "translate")
    /\ UNCHANGED <<exportVars, cur, loaded, searched>>

\* seteuid, setegid or setgroups fails: daemon_exit(CRISIS).
SwitchFails ==
    /\ pc = "check" /\ cur.op # "MNT" /\ ~Refused
    /\ can_switch /\ ~setup.opt_singleuser /\ CanBecomeRoot
    /\ Goto("dead")
    /\ UNCHANGED <<exportVars, userVars, cur, histVars>>

----------------------------------------------------------------------------
(* Procedures *)

\* RENAME: the second directory is looked up in the export list, too; the hash in
\* its handle is not.  (The call's second handle is chosen where it is first read.)
RenameDecomp ==
    /\ pc = "rename"
    /\ IF exports_rw
       THEN \E h \in Handles : \E path \in fh_decomp(h) :
               /\ cur' = [cur EXCEPT !.tofh = h, !.to = path]
               /\ held' = Kept(h, path)
               /\ Goto("compat")
       ELSE Reply("ROFS") /\ UNCHANGED held
    /\ UNCHANGED <<efile, listVars, exports_access, foundVars, cursor, userVars, histVars>>

RenameCompat ==
    /\ pc = "compat"
    /\ \E path \in Reads(cur.to) :
          /\ cur' = [cur EXCEPT !.to = path,
                                !.prev = <<exports_opts, last_anonuid, last_anongid>>]
          /\ BeginSearch(path, "compat_walk", "compat_check")
    /\ UNCHANGED <<userVars, granted, loaded>>

exports_compat ==
    CASE <<exports_opts, last_anonuid, last_anongid>> = cur.prev -> "OK"
      [] exports_opts = NotExported -> "ACCES"
      [] OTHER -> "XDEV"

RenameChecked ==
    /\ pc = "compat_check"
    /\ cur' = [cur EXCEPT !.status = IF cur.to = NoPath THEN "STALE" ELSE exports_compat]
    /\ Goto("translate")
    /\ UNCHANGED <<exportVars, userVars, histVars>>

\* isPublic and getRealPathNFS read the path and export_path, by which they leave
\* the place of the object; what comes after needs only to know that they return.
Translate ==
    /\ pc = "translate" /\ export_path.path # NoPath
    /\ CASE cur.op = "WRITE" -> Goto("elevate") /\ UNCHANGED cur
         [] cur.op = "ACCESS" -> Goto("access") /\ UNCHANGED cur
         [] OTHER -> Reply(IF cur.status = "none" THEN "OK" ELSE cur.status)
    /\ UNCHANGED <<exportVars, userVars, histVars>>

\* Without an export_path the process gets a SIGSEGV and exits through
\* daemon_exit; it may where a path or export_path is of a list freed since.
Crash ==
    /\ \/ pc = "translate" /\ (export_path.path = NoPath \/ ~export_path.live)
       \/ pc \in {"prep", "compat", "translate"} /\ held = "freed"
    /\ Goto("dead")
    /\ UNCHANGED <<exportVars, userVars, cur, histVars>>

\* READ and WRITE go back to root for what the caller may do all the same.
Elevate ==
    /\ pc = "elevate"
    /\ \E file \in Files :
       LET root == IF cur.op = "READ"
                   THEN read_executable(file, cur.cred) \/ read_by_owner(file, cur.cred)
                   ELSE write_by_owner(file, cur.cred)
       IN  /\ effective' = IF root THEN Elevated(effective) ELSE effective
           /\ cur' = [cur EXCEPT !.file = file, !.elevated = root,
                                 !.status = IF cur.op = "READ" \/ exports_rw THEN "none"
                                            ELSE "ROFS"]
    /\ Goto(IF cur.op = "READ" THEN "translate" ELSE "transfer")
    /\ UNCHANGED <<exportVars, setup, can_switch, squash, histVars>>

\* The file is opened, or created, with the rights in force now.
Transfer ==
    /\ pc = "transfer"
    /\ Reply(IF cur.status = "none" THEN "OK" ELSE cur.status)
    /\ UNCHANGED <<exportVars, userVars, histVars>>

\* ACCESS: the bits of one permission class, then what every caller gets.
class_bits(mode, r, w, x) ==
    (IF r \in mode \/ (x \in mode /\ opt_readable_executables) THEN {"READ"} ELSE {})
    \cup (IF w \in mode THEN {"MODIFY", "EXTEND"} ELSE {})
    \cup (IF x \in mode THEN {"EXECUTE"} ELSE {})

\* Mutant: a caller in the file's group gets the bits of the owner.
GroupAsOwner(file, cred) ==
    IF is_owner(file.uid, cred) \/ has_group(file.gid, cred)
    THEN class_bits(file.mode, "RUSR", "WUSR", "XUSR")
    ELSE class_bits(file.mode, "ROTH", "WOTH", "XOTH")

mode_bits(file, cred) ==
    IF is_owner(file.uid, cred) THEN class_bits(file.mode, "RUSR", "WUSR", "XUSR")
    ELSE IF has_group(file.gid, cred) THEN class_bits(file.mode, "RGRP", "WGRP", "XGRP")
    ELSE class_bits(file.mode, "ROTH", "WOTH", "XOTH")

access_bits(file, cred) ==
    LET own == mode_bits(file, cred)
               \cup (IF get_uid(cred) = ROOT THEN {"READ", "MODIFY", "EXTEND"} ELSE {})
        dir == (own \ {"EXECUTE"})
               \cup (IF own \cap {"READ", "EXECUTE"} # {} THEN {"LOOKUP"} ELSE {})
               \cup (IF "MODIFY" \in own THEN {"DELETE"} ELSE {})
    IN  (IF file.dir THEN dir ELSE own) \cup {"READ", "MODIFY", "EXTEND"}

Access ==
    /\ pc = "access"
    /\ \E file \in Files :
         cur' = [cur EXCEPT !.file = file, !.access = access_bits(file, cur.cred),
                            !.status = "OK"]
    /\ Goto("reply")
    /\ UNCHANGED <<exportVars, userVars, histVars>>

\* The reply is sent.  The identity and the options found stay as they are.
Finish ==
    /\ pc = "reply"
    /\ Goto("idle")
    /\ cur' = Idle
    /\ granted' = NoHost
    /\ searched' = loaded
    /\ held' = "own"
    /\ UNCHANGED <<efile, listVars, exports_access, foundVars, cursor, userVars, loaded>>

----------------------------------------------------------------------------
(* Signals *)

SigHup ==
    /\ pc # "dead"
    /\ get_squash_ids
    /\ exports_parse(AsSeenBy(effective))
    /\ loaded' = IF exports_access THEN loaded ELSE AsSeenBy(effective)
    /\ UNCHANGED <<efile, exports_access, exports_opts, export_password_hash, password,
                   last_anonuid, last_anongid, cursor, setup, can_switch, effective, pc, cur,
                   granted, searched>>

\* The file is edited between requests; a request sees it after a SIGHUP.
Edit ==
    /\ pc = "idle"
    /\ EditExports
    /\ UNCHANGED <<userVars, requestVars>>

\* The server is started again; clients keep their handles.
Restart ==
    /\ pc = "dead"
    /\ setup' \in Setups
    /\ effective' = StartedAs(setup')
    /\ loaded' = AsSeenBy(effective')
    /\ export_list' = parsed(loaded')
    /\ exports_nfslist' = parsed_nfs(loaded')
    /\ exports_access' = FALSE
    /\ exports_opts' = NotExported
    /\ export_path' = [path |-> NoPath, live |-> TRUE]
    /\ export_password_hash' = 0
    /\ password' = ""
    /\ last_anonuid' = ANON_NOTSPECIAL
    /\ last_anongid' = ANON_NOTSPECIAL
    /\ held' = "own"
    /\ cursor' = NoCursor
    /\ can_switch' = TRUE
    /\ squash' = NobodyIds
    /\ pc' = "idle"
    /\ cur' = Idle
    /\ granted' = NoHost
    /\ searched' = loaded'
    /\ UNCHANGED efile

Next ==
    \/ ArriveNfs \/ ArriveMnt \/ PrepSearch
    \/ SearchStep \/ SearchEnd
    \/ MntAuth \/ MntCheck
    \/ PrepRefuses \/ PrepAdmits \/ SwitchFails
    \/ RenameDecomp \/ RenameCompat \/ RenameChecked
    \/ Translate \/ Crash \/ Elevate \/ Transfer \/ Access \/ Finish
    \/ SigHup \/ Edit \/ Restart

Spec == Init /\ [][Next]_vars

\* The server goes on with the request it serves; requests, signals, edits and
\* restarts need not happen.
Serve ==
    \/ PrepSearch \/ SearchStep \/ SearchEnd
    \/ MntAuth \/ MntCheck
    \/ PrepRefuses \/ PrepAdmits
    \/ RenameDecomp \/ RenameCompat \/ RenameChecked
    \/ Translate \/ Crash \/ Elevate \/ Transfer \/ Access \/ Finish

FairSpec == Spec /\ WF_vars(Serve)

----------------------------------------------------------------------------
(* Properties *)

AtWork == pc \in {"rename", "compat", "compat_walk", "compat_check", "translate",
                 "elevate", "transfer", "access"}

\* The state has the shape the code's types give it.
TypeOK ==
    /\ efile \in ExportFiles
    /\ exports_opts \subseteq NotExported
    /\ exports_access \in BOOLEAN
    /\ cursor.pos \in 0..(Len(export_list) + 1)
    /\ can_switch \in BOOLEAN /\ setup \in Setups
    /\ held \in {"own", "list", "freed"}
    /\ pc \in {"idle", "prep", "auth_walk", "auth_check", "walk", "check", "rename", "compat",
               "compat_walk", "compat_check", "translate", "elevate", "access", "transfer",
               "reply", "dead"}

\* exports.y:724 sets exports_access to "protect against SIGHUP reloading the
\* list".  What a request reads of the list is then never of one that was freed:
\* neither the path of an export point, which fh_decomp returns by reference and
\* exports_options reads (PREP, RENAME), nor export_path (getRealPathNFS).
ReferencesKept ==
    /\ pc \in {"walk", "compat_walk", "translate"} => held # "freed"
    /\ pc = "translate" => export_path.live

\* exports_options leaves in its globals what the exports file, as last read,
\* grants this client at this path: the options, the path, the password and the
\* anonymous ids of the first matching host of the line with the innermost
\* directory; nothing at all if the file has an error.  No SIGHUP during the
\* search changes that: exports_access keeps it from replacing the list.  A path
\* that only shares the first characters with an exported directory is left out
\* (SiblingsRefused), and the path is the one that the search read.
OptionsMatch ==
    pc \in {"auth_check", "check", "compat_check"} /\ IsApart(searched, SearchPath) =>
        LET grants == GrantsFor(searched, SearchPath, cur.remote) IN
        IF grants = {} THEN exports_opts = NotExported /\ export_path.path = NoPath
        ELSE \A g \in grants :
                /\ exports_opts = g.host.options
                /\ export_path.path = g.path
                /\ export_password_hash = g.host.password_hash
                /\ <<last_anonuid, last_anongid>> = <<g.host.anonuid, g.host.anongid>>

\* unfsd.8:220-223: the exports file "determines which directories on the server
\* can be accessed from NFS clients".  A client to whom no line grants the
\* directory, or one it is in, is refused by exports_options.
SiblingsRefused ==
    pc \in {"auth_check", "check", "compat_check"}
    /\ GrantsFor(searched, SearchPath, cur.remote) = {} => exports_opts = NotExported

\* The identity unfsd.8 promises: all_squash, root_squash, anonuid, anongid.
Squashed(host, id) ==
    "ALL_SQUASH" \in host.options \/ (id = ROOT /\ "NO_ROOT_SQUASH" \notin host.options)
Anon(special, nobody) == IF special # ANON_NOTSPECIAL THEN special ELSE nobody
CallerUid(host, cred) ==
    IF cred.flavor # "AUTH_UNIX" \/ Squashed(host, cred.uid)
    THEN Anon(host.anonuid, NobodyIds.uid) ELSE cred.uid
CallerGid(host, cred) ==
    IF cred.flavor # "AUTH_UNIX" \/ Squashed(host, cred.gid)
    THEN Anon(host.anongid, NobodyIds.gid) ELSE cred.gid

\* While a procedure works on files the process has the identity the export
\* promises the caller, whoever was served before and whatever SIGHUP did to
\* the list, and is root instead only where read_executable, read_by_owner or
\* write_by_owner said so; a server that cannot switch stays who it is.  Paths
\* that only share the first characters with an exported directory are left out.
ActsAsCaller ==
    AtWork /\ granted.apart =>
        IF setup.uid # ROOT \/ setup.opt_singleuser
        THEN effective.uid = setup.uid
        ELSE /\ cur.elevated \/ effective.uid = CallerUid(granted.host, cur.cred)
             /\ cur.elevated \/ effective.gid = CallerGid(granted.host, cur.cred)
             /\ cur.elevated => effective.uid = ROOT

\* unfsd.8: once the password of an export is changed, a request whose (first)
\* handle is from before is refused by PREP, also where the list was reloaded
\* while the request was under way; the second handle of RENAME is left to
\* SecondHandleRefused, paths that share only characters to SiblingsRefused.
OldPasswordRefused ==
    AtWork /\ granted.apart => cur.handle.pwhash = fnv1a_32[granted.host.password]

\* unfsd.8:331-333: "if you change the password, all clients will need to remount
\* this export".  A RENAME that is let through has in its second handle the hash
\* that the search for that handle's directory found.
SecondHandleRefused ==
    pc = "translate" /\ cur.op = "RENAME" /\ cur.status = "OK" =>
        cur.tofh.pwhash = export_password_hash

\* What the kernel would let a process with the ids e do.
KernelMay(e, file, u, g, o) ==
    \/ e.uid = ROOT
    \/ e.uid = file.uid /\ u \in file.mode
    \/ e.uid # file.uid /\ (e.gid = file.gid \/ file.gid \in e.groups) /\ g \in file.mode
    \/ e.uid # file.uid /\ e.gid # file.gid /\ file.gid \notin e.groups /\ o \in file.mode

\* ACCESS and the kernel put the caller into the same permission class: where
\* ACCESS says EXECUTE or DELETE, the identity the server has taken on may do
\* it.  (The anonymous group of an export is left out: has_group ignores it.)
AccessClass ==
    cur.op = "ACCESS" /\ pc = "reply" /\ cur.status = "OK" /\ cur.cred.flavor = "AUTH_UNIX"
    /\ last_anonuid = ANON_NOTSPECIAL /\ last_anongid = ANON_NOTSPECIAL =>
        /\ "EXECUTE" \in cur.access => KernelMay(effective, cur.file, "XUSR", "XGRP", "XOTH")
        /\ "DELETE" \in cur.access => KernelMay(effective, cur.file, "WUSR", "WGRP", "WOTH")

\* Every request is answered, or takes the server down, however often SIGHUP
\* replaces the list it is checked against.
Answered == pc # "idle" ~> pc \in {"idle", "dead"}
=============================================================================
