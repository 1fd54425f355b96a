------------------------------ MODULE Exports ------------------------------
(***************************************************************************)
(* The export list (Config/exports.y, Config/exports.l): what the parser   *)
(* makes of the exports file, how the list is searched on behalf of a      *)
(* request, and how SIGHUP replaces it.                                    *)
(*                                                                         *)
(* The search is a loop over a linked list that the signal handler frees,  *)
(* so it is one action per item; exports_access keeps the handler out.     *)
(* What the search finds is left in globals.  Most of them are copies of   *)
(* numbers, but export_path points into the list, and so does the path of  *)
(* an export point that export_point_from_fsid returns: export_path.live   *)
(* and held say whether the list they point into still exists.             *)
(*                                                                         *)
(* A path is a sequence of characters.  An address, like a netmask, is the *)
(* set of its bits that are 1, counted from the most significant one.      *)
(***************************************************************************)
EXTENDS Integers, Sequences, FiniteSets

CONSTANTS
    AddrBits,      \* number of bits of an address, 32 in the code
    ExportFiles,   \* contents the administrator may give the exports file
    realpath,      \* path -> path, or NoPath where realpath fails
    NoPath,        \* NULL
    fnv1a_32,      \* password -> hash; 0 is the hash of no password
    get_free_fsid, \* path -> hash of it, with the top bit set
    NFS_MAXPATHLEN

ASSUME ExportsAssumption ==
    /\ AddrBits \in Nat
    /\ NFS_MAXPATHLEN \in Nat
    /\ ExportFiles # {}
    /\ fnv1a_32[""] = 0

VARIABLES
    efile,                  \* the exports file
    export_list,            \* the list in force
    exports_nfslist,        \* the same, as the EXPORT procedure shows it
    exports_access,         \* the list is being traversed
    exports_opts,           \* what the last exports_options found: options,
    export_path,            \* ... the item's path, by reference,
    export_password_hash,   \* ... the hash of its password,
    password,               \* ... its password, by reference like the path,
    last_anonuid, last_anongid,
    held,                   \* the path of the request: the server's "own" copy,
                            \* a place in the "list", or in one "freed" since
    cursor                  \* position of a traversal under way

listVars == <<export_list, exports_nfslist>>
foundVars == <<exports_opts, export_path, export_password_hash, password,
               last_anonuid, last_anongid>>
exportVars == <<efile, listVars, exports_access, foundVars, held, cursor>>

----------------------------------------------------------------------------
(* Options *)

OPTIONS == {"RW", "NO_ROOT_SQUASH", "ALL_SQUASH", "REMOVABLE", "INSECURE"}
ANON_NOTSPECIAL == -1

\* exports_opts = -1: every bit is set, also the ones that mean nothing.
NotExported == OPTIONS \cup {"UNDEFINED"}

Sets == [rw |-> "RW", no_root_squash |-> "NO_ROOT_SQUASH",
         all_squash |-> "ALL_SQUASH", removable |-> "REMOVABLE",
         insecure |-> "INSECURE"]
Clears == [ro |-> "RW", root_squash |-> "NO_ROOT_SQUASH",
           no_all_squash |-> "ALL_SQUASH", fixed |-> "REMOVABLE",
           secure |-> "INSECURE"]

\* add_option for each word in turn: the last word on an option decides, and
\* unknown words change nothing.
add_option(words) ==
    {Sets[words[i]] : i \in {k \in DOMAIN words :
        /\ words[k] \in DOMAIN Sets
        /\ \A j \in DOMAIN words : j > k /\ words[j] \in DOMAIN Clears
               => Clears[words[j]] # Sets[words[k]]}}

----------------------------------------------------------------------------
(* Hosts *)

AllOnes == 1..AddrBits

make_netmask(bits) == {i \in AllOnes : i <= bits}

\* set_hostname, set_ipaddr and set_ipnet: the address and mask of a host given
\* by name, address, network, or not at all.
host_mask(name) ==
    CASE name.kind = "anon" -> {}
      [] name.kind \in {"ID", "IP"} -> AllOnes
      [] name.kind = "NET" -> make_netmask(name.bits)
      [] name.kind = "OLDNET" -> name.mask

\* A host as add_host puts it into the list.
add_host(spec) ==
    [addr |-> spec.name.addr, mask |-> host_mask(spec.name),
     options |-> add_option(spec.words),
     password |-> spec.password, password_hash |-> fnv1a_32[spec.password],
     anonuid |-> spec.anonuid, anongid |-> spec.anongid]

\* clear_host: everyone, with no option.
AnonHost ==
    [addr |-> {}, mask |-> {}, options |-> {},
     password |-> "", password_hash |-> 0,
     anonuid |-> ANON_NOTSPECIAL, anongid |-> ANON_NOTSPECIAL]

----------------------------------------------------------------------------
(* Items *)

\* The positions normpath copies: of a block of slashes, the last.
kept(path) ==
    SelectSeq([i \in DOMAIN path |-> i],
              LAMBDA i : ~(path[i] = "/" /\ i < Len(path) /\ path[i + 1] = "/"))

\* A block of slashes becomes one, and a trailing slash goes.
normpath(path) ==
    LET copy == [i \in DOMAIN kept(path) |-> path[kept(path)[i]]]
        n == Len(copy)
    IN  SubSeq(copy, 1, IF n > 1 /\ copy[n] = "/" THEN n - 1 ELSE n)

\* Every host has the option, so that the path need not exist.  A line without
\* hosts passes this test, too.
removable_for_all(line) ==
    \A i \in DOMAIN line.hosts : "REMOVABLE" \in add_option(line.hosts[i].words)

item_path(line) ==
    IF removable_for_all(line) THEN normpath(line.path) ELSE realpath[line.path]

add_item(line) ==
    [path |-> item_path(line), orig |-> line.path,
     fsid |-> get_free_fsid[line.path],
     hosts |-> IF line.hosts = <<>> THEN <<AnonHost>>
               ELSE [i \in DOMAIN line.hosts |-> add_host(line.hosts[i])]]

\* The same line in the list of the mount protocol.
Everyone == [kind |-> "anon", addr |-> {}]
exportnode(line) ==
    [ex_dir |-> line.path,
     ex_groups |-> IF line.hosts = <<>> THEN <<Everyone>>
                   ELSE [i \in DOMAIN line.hosts |-> line.hosts[i].name]]

\* e_error after the line: a token too long or out of place, a name or an
\* address that does not resolve, a path that realpath refuses or too long.
e_error(line) ==
    \/ ~line.wellformed
    \/ \E i \in DOMAIN line.hosts : ~line.hosts[i].name.resolves
    \/ item_path(line) = NoPath
    \/ Len(item_path(line)) + 1 > NFS_MAXPATHLEN

\* What the grammar makes of a host and of a line: an address has no more bits
\* than there are, only networks have bits or a mask, and a path that is put into
\* the list is not empty (in the file it begins with a slash).
IsSeq(s) == s \in Seq({s[i] : i \in DOMAIN s})
IsName(name) ==
    /\ name.kind \in {"anon", "ID", "IP", "NET", "OLDNET"}
    /\ name.addr \subseteq AllOnes
    /\ name.kind = "anon" => name.addr = {}
    /\ name.kind = "NET" => name.bits \in Nat
    /\ name.kind = "OLDNET" => name.mask \subseteq AllOnes
IsLine(line) ==
    /\ IsSeq(line.hosts)
    /\ \A i \in DOMAIN line.hosts : IsName(line.hosts[i].name)
    /\ ~e_error(line) => IsSeq(item_path(line)) /\ item_path(line) # <<>>

ASSUME ExportFilesAssumption ==
    \A file \in ExportFiles :
        /\ file \in [readable : BOOLEAN, public : BOOLEAN, lines : {file.lines}]
        /\ IsSeq(file.lines)
        /\ \A i \in DOMAIN file.lines : IsLine(file.lines[i])

\* Whether exports_parse returns TRUE.  readable: the caller may open the file.
parses(file) == file.readable /\ \A i \in DOMAIN file.lines : ~e_error(file.lines[i])

\* The two lists exports_parse ends up with.
good_lines(file) ==
    IF parses(file) THEN file.lines ELSE <<>>
parsed(file) ==
    LET lines == good_lines(file) IN [i \in DOMAIN lines |-> add_item(lines[i])]
parsed_nfs(file) ==
    LET lines == good_lines(file) IN [i \in DOMAIN lines |-> exportnode(lines[i])]

\* The old list is freed, whatever still points into it.
free_list ==
    /\ export_path' = [export_path EXCEPT !.live = FALSE]
    /\ held' = IF held = "list" THEN "freed" ELSE held

\* Mutant: the handler frees the list under a traversal.
ParseAlways(file) ==
    /\ export_list' = parsed(file)
    /\ exports_nfslist' = parsed_nfs(file)
    /\ free_list

exports_parse(file) ==
    IF exports_access THEN UNCHANGED <<listVars, export_path, held>>
    ELSE /\ export_list' = parsed(file)
         /\ exports_nfslist' = parsed_nfs(file)
         /\ free_list

----------------------------------------------------------------------------
(* Searching the list *)

\* strstr(path, prefix) == path
begins_with(path, prefix) ==
    /\ Len(prefix) <= Len(path)
    /\ \A i \in 1..Len(prefix) : path[i] = prefix[i]

UpDir == <<"/", ".", ".", "/">>
\* strstr(path, "/../")
has_updir(path) ==
    \E i \in 0..(Len(path) - 4) : \A k \in 1..4 : path[i + k] = UpDir[k]

\* find_host: the index of the first host that matches, if any.
host_matches(remote, host) == remote \cap host.mask = host.addr
find_host(remote, item) ==
    {i \in DOMAIN item.hosts :
        /\ host_matches(remote, item.hosts[i])
        /\ \A j \in 1..(i - 1) : ~host_matches(remote, item.hosts[j])}

NoCursor == [pos |-> 0, len |-> 0]

\* The globals are reset; a missing or odd path ends the search here.
exports_options_begin(path) ==
    /\ exports_opts' = NotExported
    /\ export_path' = [path |-> NoPath, live |-> TRUE]
    /\ last_anonuid' = ANON_NOTSPECIAL
    /\ last_anongid' = ANON_NOTSPECIAL
    /\ IF path = NoPath \/ has_updir(path)
       THEN exports_access' = FALSE /\ cursor' = NoCursor
       ELSE exports_access' = TRUE /\ cursor' = [pos |-> 1, len |-> 0]
    /\ UNCHANGED <<efile, listVars, export_password_hash, password, held>>

\* Longest matching prefix wins.
prefix_wins(item, path) == Len(item.path) > cursor.len /\ begins_with(path, item.path)

\* Mutant: the loop goes on to the next item only after a match.
StuckWithoutHost(path, remote) ==
    LET item == export_list[cursor.pos] IN
    /\ exports_access /\ cursor.pos <= Len(export_list)
    /\ prefix_wins(item, path) /\ find_host(remote, item) # {}
    /\ cursor' = [cursor EXCEPT !.pos = @ + 1, !.len = Len(item.path)]
    /\ UNCHANGED <<efile, listVars, exports_access, foundVars, held>>

\* One round of the loop.
exports_options_step(path, remote) ==
    LET item == export_list[cursor.pos] IN
    /\ exports_access /\ cursor.pos <= Len(export_list)
    /\ IF prefix_wins(item, path) /\ find_host(remote, item) # {}
       THEN \E i \in find_host(remote, item) :
              LET host == item.hosts[i] IN
              /\ exports_opts' = host.options
              /\ export_path' = [path |-> item.path, live |-> TRUE]
              /\ export_password_hash' = host.password_hash
              /\ password' = host.password
              /\ last_anonuid' = host.anonuid
              /\ last_anongid' = host.anongid
              /\ cursor' = [cursor EXCEPT !.pos = @ + 1, !.len = Len(item.path)]
       ELSE /\ cursor' = [cursor EXCEPT !.pos = @ + 1]
            /\ UNCHANGED foundVars
    /\ UNCHANGED <<efile, listVars, exports_access, held>>

exports_options_end ==
    /\ exports_access /\ cursor.pos > Len(export_list)
    /\ exports_access' = FALSE
    /\ cursor' = NoCursor
    /\ UNCHANGED <<efile, listVars, foundVars, held>>

\* The other searches of the list.
export_point(path) == \E i \in DOMAIN export_list : export_list[i].path = path

export_point_from_fsid(fsid) ==
    {i \in DOMAIN export_list :
        /\ export_list[i].fsid = fsid
        /\ \A j \in 1..(i - 1) : export_list[j].fsid # fsid}

exports_rw == exports_opts # NotExported /\ "RW" \in exports_opts

\* The list is read once before the first request.
ExportsInit(file) ==
    /\ export_list = parsed(file)
    /\ exports_nfslist = parsed_nfs(file)
    /\ exports_access = FALSE
    /\ exports_opts = NotExported
    /\ export_path = [path |-> NoPath, live |-> TRUE]
    /\ export_password_hash = 0
    /\ password = ""
    /\ last_anonuid = ANON_NOTSPECIAL
    /\ last_anongid = ANON_NOTSPECIAL
    /\ held = "own"
    /\ cursor = NoCursor

\* The administrator edits the file.
EditExports ==
    /\ efile' \in ExportFiles
    /\ UNCHANGED <<listVars, exports_access, foundVars, held, cursor>>
=============================================================================
