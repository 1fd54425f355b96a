------------------------------ MODULE Handles ------------------------------
(***************************************************************************)
(* File handles over a directory tree (fh.c, locate.c, and the parts of    *)
(* fh_cache.c, nfs.c and mount.c that call them).  A handle names an       *)
(* object by device and inode, and carries one hash per component of the   *)
(* path it had when the handle was made, so that the path can be found     *)
(* again by a guided search.  Meanwhile objects are created, removed and   *)
(* renamed, and inode numbers are used again.                              *)
(*                                                                         *)
(* readdir returns entries in any order: a search is the set of the paths  *)
(* it may return, {} when it fails.  The caches of paths and attributes    *)
(* are left out (FhCache has them): a cached path leads to the object.     *)
(***************************************************************************)
EXTENDS Integers, Sequences, FiniteSets

CONSTANTS
    Inodes,       \* inode numbers of the file system, but for the root's
    RootIno,
    Names,        \* names of entries, but for "." and ".."
    Uids,         \* those that are numbers of users
    FH_HASH,      \* inode -> hash of it
    FH_MAXLEN,    \* components a handle has room for, 43 in the code
    DEV, FSID,    \* the device, and the hash of the export point's path
    ExportPath,   \* the export point
    MaxHandles    \* bound: handles the clients hold at a time

ASSUME HandlesAssumption ==
    /\ Inodes \subseteq Nat \ {0, 1} /\ RootIno \in Nat \ ({0, 1} \cup Inodes)
    /\ IsFiniteSet(Inodes)
    /\ {".", ".."} \cap Names = {} /\ Uids \subseteq Names
    /\ ExportPath \in Seq(Names \cup {".", ".."})
    /\ FH_MAXLEN \in Nat /\ DEV # FSID

VARIABLES
    tree,             \* inode -> its directory, its name there, its kind
    exported,         \* how ExportPath is exported: "removable", "fixed" or "none"
    opt_brute_force,  \* option -b
    private,          \* the configuration gives every user a directory of his own
    handles           \* handles the clients hold

vars == <<tree, exported, opt_brute_force, private, handles>>

All == Inodes \cup {RootIno}
\* The name of the root and of what is absent.
NoName == ""
Absent == [up |-> 0, name |-> NoName, dir |-> FALSE]
Live == {i \in All : tree[i] # Absent}
IsDir(i) == i \in Live /\ tree[i].dir

----------------------------------------------------------------------------
(* The file system *)

Children(d) == {i \in Live \ {RootIno} : tree[i].up = d}
Entries(d) == {".", ".."} \cup {tree[i].name : i \in Children(d)}

\* lstat of an entry: the inode, 0 if there is none.
Entry(d, n) ==
    CASE n = "." -> d
      [] n = ".." -> IF d = RootIno THEN RootIno ELSE tree[d].up
      [] OTHER -> IF \E i \in Children(d) : tree[i].name = n
                  THEN CHOOSE i \in Children(d) : tree[i].name = n ELSE 0

\* lstat of the first k components of a path, for every k.
Walk(path) ==
    LET w[k \in 0..Len(path)] ==
            IF k = 0 THEN RootIno
            ELSE IF IsDir(w[k - 1]) THEN Entry(w[k - 1], path[k]) ELSE 0
    IN  w
lstat(path) == Walk(path)[Len(path)]

\* The inodes a path passes, "." and ".." included.
Passed(path) == [k \in 1..Len(path) |-> Walk(path)[k]]

\* The inodes on the way from the root, without the root.
Chain(i) ==
    LET c[k \in 0..Cardinality(All)] ==
            [j \in All |-> IF k = 0 \/ j \notin Live \/ j = RootIno THEN <<>>
                           ELSE Append(c[k - 1][tree[j].up], j)]
    IN  c[Cardinality(All)][i]
Path(i) == [k \in DOMAIN Chain(i) |-> tree[Chain(i)[k]].name]
Below(i) == {j \in Live : \E k \in DOMAIN Chain(j) : Chain(j)[k] = i}

Hashes(chain) == [k \in DOMAIN chain |-> FH_HASH[chain[k]]]

----------------------------------------------------------------------------
(* Making handles *)

\* chain is history: the inodes whose hashes the handle is meant to carry.
Handle(dev, ino, inos, chain) == [dev |-> dev, ino |-> ino, inos |-> inos, chain |-> chain]
invalid_fh == Handle(0, 0, <<>>, <<>>)
fh_valid(h) == h.dev # 0 \/ h.ino # 0

\* A removable export point has a handle that does not depend on the medium.
RemovableFh == Handle(FSID, 1, <<>>, <<>>)

\* fh_comp_raw; special says whether rqstp is given.
fh_comp_raw(path, special, need_dir) ==
    LET ino == lstat(path)
        chain == Passed(path)
    IN  IF special /\ path = ExportPath /\ exported = "removable" THEN RemovableFh
        ELSE IF ino = 0 \/ (need_dir /\ ~IsDir(ino)) \/ Len(path) > FH_MAXLEN THEN invalid_fh
        ELSE Handle(DEV, ino, Hashes(chain), chain)

\* export_point_from_fsid finds every export, removable or not.
export_point_from_fsid(dev) == IF dev = FSID /\ exported # "none" THEN {ExportPath} ELSE {}

\* Mutant: a removable export point's handle is extended as it is.
ExtendedAsIs(h) == h

\* The handle fh_extend extends: a removable export point needs a real one.
fh_real(h) ==
    IF h.inos = <<>> /\ export_point_from_fsid(h.dev) # {}
    THEN fh_comp_raw(ExportPath, FALSE, FALSE) ELSE h

IsFull(h) == Len(h.inos) = FH_MAXLEN

\* fh_extend with the inode of an entry; the invalid handle stands for NULL.
\* History: the way to a removable export point is that of its path, dir.
fh_extend(h, dir, ino) ==
    IF ~fh_valid(fh_real(h)) \/ IsFull(fh_real(h)) THEN invalid_fh
    ELSE Handle(DEV, ino, Append(fh_real(h).inos, FH_HASH[ino]),
                Append(IF h.dev = FSID THEN Passed(dir) ELSE h.chain, ino))

----------------------------------------------------------------------------
(* Resolving handles *)

\* Mutant: the hash is taken for the object.
SameHash(h, ino) == FH_HASH[ino] = FH_HASH[h.ino]

IsObject(h, ino) == h.dev = DEV /\ ino = h.ino

MayLead(h, pos, n, ino) == n \notin {".", ".."} /\ FH_HASH[ino] = h.inos[pos]

\* Mutant: the search gives up when one descent fails.
NoBacktracking(descents) == IF {} \in descents THEN {} ELSE UNION descents

\* A descent that fails is followed by the next.
TryAll(descents) == UNION descents

Prefixed(n, paths) == {<<n>> \o p : p \in paths}

\* fh_rec(fh, pos, lead) for every directory lead and the pos with k components
\* of the handle left.
fh_rec(h) ==
    LET r[k \in 0..Len(h.inos)] ==
        [d \in All |->
            IF k = 0 \/ ~IsDir(d) THEN {}
            ELSE {<<n>> : n \in {e \in Entries(d) : IsObject(h, Entry(d, e))}}
                 \cup TryAll({Prefixed(n, r[k - 1][Entry(d, n)]) :
                        n \in {e \in Entries(d) :
                                 /\ ~IsObject(h, Entry(d, e))
                                 /\ MayLead(h, Len(h.inos) - k + 1, e, Entry(d, e))}})]
    IN  r[Len(h.inos)][RootIno]

fh_decomp_raw(h) == IF h.inos = <<>> THEN {<<>>} ELSE fh_rec(h)

\* Mutant: only the mount point itself is searched.
SearchesTop(k, ino) == FALSE

Descends(k, ino) == k > 1 /\ IsDir(ino)

\* locate_pfx, from the mount point of the device down.
locate_pfx(h) ==
    LET l[k \in 0..Cardinality(All)] ==
        [d \in All |->
            IF k = 0 \/ ~IsDir(d) THEN {}
            ELSE {<<n>> : n \in {e \in Entries(d) : Entry(d, e) = h.ino}}
                 \cup UNION {Prefixed(n, l[k - 1][Entry(d, n)]) :
                        n \in {e \in Entries(d) \ {".", ".."} :
                                 Entry(d, e) # h.ino /\ Descends(k, Entry(d, e))}}]
    IN  l[Cardinality(All)][RootIno]

locate_file(h) == IF opt_brute_force /\ h.dev = DEV THEN locate_pfx(h) ELSE {}

\* fh_decomp without its cache.
fh_decomp(h) ==
    IF h.ino = 1 /\ export_point_from_fsid(h.dev) # {} THEN export_point_from_fsid(h.dev)
    ELSE IF fh_decomp_raw(h) # {} THEN fh_decomp_raw(h)
    ELSE locate_file(h)

----------------------------------------------------------------------------
(* Requests *)

Init ==
    /\ tree = [i \in All |-> IF i = RootIno THEN [up |-> RootIno, name |-> NoName, dir |-> TRUE]
                                            ELSE Absent]
    /\ exported = "fixed"
    /\ opt_brute_force \in BOOLEAN
    /\ private \in BOOLEAN
    /\ handles = {}

\* The clients get a handle, and forget another when they hold too many.
Give(h) ==
    IF ~fh_valid(h) THEN UNCHANGED handles
    ELSE \E kept \in SUBSET handles :
            /\ Cardinality(kept \cup {h}) <= MaxHandles
            /\ handles' = kept \cup {h}

\* MNT of a directory.
Mnt(i) ==
    /\ IsDir(i)
    /\ Give(fh_comp_raw(Path(i), TRUE, TRUE))
    /\ UNCHANGED <<tree, exported, opt_brute_force, private>>

\* cat_name with "." and ".."
Dirname(path) == IF path = <<>> THEN <<>> ELSE SubSeq(path, 1, Len(path) - 1)

\* getRealPathNFS: in a private export the directory of the caller is put in after
\* the export point, unless strstr finds it in the path already.  Which directories
\* are exported besides ExportPath, who calls, and so whether strstr finds it, is
\* left open here (Rods has it).
getRealPathNFS(path) ==
    {path} \cup
    UNION {{SubSeq(path, 1, k) \o <<u>> \o SubSeq(path, k + 1, Len(path)) :
              k \in 1..Len(path)} : u \in (IF private THEN Uids ELSE {})}

\* LOOKUP: a handle that does not resolve is answered STALE and changes nothing.
\* The entry is looked up in the real path; the handle extended is the one given.
Lookup(h, n) ==
    \E path \in fh_decomp(h) : \E real \in getRealPathNFS(path) :
        CASE n = "." -> Give(fh_comp_raw(real, TRUE, FALSE))
          [] n = ".." -> Give(fh_comp_raw(Dirname(real), TRUE, FALSE))
          [] OTHER -> /\ lstat(Append(real, n)) # 0
                      /\ Give(fh_extend(h, path, lstat(Append(real, n))))

LOOKUP ==
    /\ \E h \in handles, n \in Names \cup {".", ".."} : Lookup(h, n)
    /\ UNCHANGED <<tree, exported, opt_brute_force, private>>

\* CREATE and MKDIR: the new object, in the real path, gets a handle that extends
\* the one given.
CREATE ==
    \E h \in handles, n \in Names, i \in Inodes \ Live, dir \in BOOLEAN :
        \E path \in fh_decomp(h) : \E real \in getRealPathNFS(path) :
            /\ IsDir(lstat(real)) /\ Entry(lstat(real), n) = 0
            /\ tree' = [tree EXCEPT ![i] = [up |-> lstat(real), name |-> n, dir |-> dir]]
            /\ Give(fh_extend(h, path, i))
            /\ UNCHANGED <<exported, opt_brute_force, private>>

\* Objects made, removed and renamed by whomever, and by iRODS listings.
Make ==
    /\ \E i \in Inodes \ Live, d \in Live, n \in Names, dir \in BOOLEAN :
         /\ IsDir(d) /\ Entry(d, n) = 0
         /\ tree' = [tree EXCEPT ![i] = [up |-> d, name |-> n, dir |-> dir]]
    /\ UNCHANGED <<exported, opt_brute_force, private, handles>>

Unlink ==
    /\ \E i \in Live \ {RootIno} : Children(i) = {} /\ tree' = [tree EXCEPT ![i] = Absent]
    /\ UNCHANGED <<exported, opt_brute_force, private, handles>>

Rename ==
    /\ \E i \in Live \ {RootIno}, d \in Live, n \in Names :
         /\ IsDir(d) /\ d \notin Below(i) /\ Entry(d, n) = 0
         /\ tree' = [tree EXCEPT ![i].up = d, ![i].name = n]
    /\ UNCHANGED <<exported, opt_brute_force, private, handles>>

\* The administrator edits the exports file and sends SIGHUP.
Reexport ==
    /\ exported' \in {"removable", "fixed", "none"}
    /\ UNCHANGED <<tree, opt_brute_force, private, handles>>

Next ==
    \/ \E i \in All : Mnt(i)
    \/ LOOKUP \/ CREATE
    \/ Make \/ Unlink \/ Rename \/ Reexport

Spec == Init /\ [][Next]_vars

----------------------------------------------------------------------------
(* Properties *)

\* What is in the handles clients hold, above all that no handle is made with
\* more components than inos has room for.
TypeOK ==
    /\ tree \in [All -> [up : All \cup {0}, name : Names \cup {NoName}, dir : BOOLEAN]]
    /\ \A h \in handles :
         /\ h.dev \in {DEV, FSID} /\ h.ino \in All \cup {1}
         /\ Len(h.inos) <= FH_MAXLEN

Special(h) == h.dev = FSID
InPlace(h) == ~Special(h) /\ h.ino \in Live /\ Chain(h.ino) = h.chain

\* However hashes collide and whatever was made, removed and renamed around it,
\* an object that is where the hashes of its handle lead is found again by them
\* alone, without the brute-force search.
Resolvable == \A h \in handles : InPlace(h) => Path(h.ino) \in fh_decomp_raw(h)

\* The handle of an object in place, made component by component by LOOKUP, CREATE
\* or MKDIR, also from a removable export point, is the one fh_comp makes from the
\* whole path.
MadeAlike ==
    \A h \in handles : InPlace(h) => fh_comp_raw(Path(h.ino), FALSE, FALSE) = h

\* As long as everything a client has handles of stays where it is, every handle it
\* is given leads to its object by its hashes.
GivesLeading ==
    (\A g \in handles : InPlace(g) \/ Special(g)) /\ ExportPath \in Seq(Names) =>
        \A h \in handles' \ handles : Special(h) \/ Path(h.ino)' \in fh_decomp_raw(h)'

\* That is so where users have no directories of their own: there handles become
\* stale (or are left to the brute-force search) only through renames and removals.
PublicLeads == [][~private => GivesLeading]_vars

\* unfsd.8, -b: "when you rename a file across several directories [...] the
\* filehandle for that file becomes stale"; one that was not renamed keeps it, in
\* private exports too.
PrivateLeads == [][GivesLeading]_vars

\* A handle never resolves to another object than the one with its inode, and
\* the handle of a removable export point to nothing but the export point for
\* as long as that is exported.
NeverAnother ==
    \A h \in handles : \A path \in fh_decomp(h) :
        IF Special(h) THEN exported # "none" => path = ExportPath
        ELSE lstat(path) = h.ino

\* unfsd.8, -b: with the brute-force search an object that still exists is found
\* wherever it has been moved.
BruteForceFinds ==
    opt_brute_force =>
        \A h \in handles : ~Special(h) /\ h.ino \in Live => fh_decomp(h) # {}
=============================================================================
