------------------------------ MODULE FhCache ------------------------------
(***************************************************************************)
(* The file handle cache (fh_cache.c), the stat cache (fh.c) and the way   *)
(* the NFS procedures use both while they serve one request (nfs.c).       *)
(*                                                                         *)
(* fh_decomp resolves a handle to a pointer INTO a cache entry, and the    *)
(* procedure goes on using that pointer while it adds other entries or     *)
(* resolves a second handle.  fh_decomp also leaves the attributes of the  *)
(* object in one global stat cache, which the procedure reads later.       *)
(*                                                                         *)
(* An object stands for its (dev, ino) pair.  Paths are abstracted: an     *)
(* entry's path is the one stored for the entry's object, and because the  *)
(* local file system changes under the server an lstat of it may find that *)
(* object, another one or nothing.  The LRU clock is an unsigned counter   *)
(* that wraps around.                                                      *)
(***************************************************************************)
EXTENDS Integers, FiniteSets

CONSTANTS
    Objects,        \* (dev, ino) pairs that handles of this server name
    NoObject,       \* dev = 0, ino = 0
    Roots,          \* objects whose handle has len = 0: the root directory
    Exports,        \* removable export points: dev = fsid, ino = 1
    CACHE_ENTRIES,  \* 4096 in the code
    UINT_RANGE      \* 2^32 in the code: values of an unsigned int

ASSUME ObjectAssumption ==
    /\ NoObject \notin Objects
    /\ Roots \subseteq Objects
    /\ Exports \subseteq Objects
ASSUME SizeAssumption ==
    /\ CACHE_ENTRIES \in Nat /\ CACHE_ENTRIES > 1
    /\ UINT_RANGE \in Nat /\ UINT_RANGE > 1

VARIABLES
    fh_cache,        \* the table: entry -> [obj, use]
    fh_cache_max,    \* entries handed out so far, at most CACHE_ENTRIES - 1
    fh_cache_time,   \* the LRU clock
    fh_last_entry,   \* the entry of the last cache hit, -1 before the first
    st_cache,        \* the object whose attributes the stat cache holds
    st_cache_valid,
    op,              \* how far the request being served is
    from, to         \* its directory operands; to is only used by RENAME

cacheVars == <<fh_cache, fh_cache_max, fh_cache_time, fh_last_entry>>
statVars == <<st_cache, st_cache_valid>>
vars == <<fh_cache, fh_cache_max, fh_cache_time, fh_last_entry,
          st_cache, st_cache_valid, op, from, to>>

Slots == 0..(CACHE_ENTRIES - 1)
NoSlot == -1
Maybe == Objects \cup {NoObject}
Entry == [obj : Maybe, use : 0..(UINT_RANGE - 1)]
Empty == [obj |-> NoObject, use |-> 0]

(* An operand of a request: the handle's object, the entry the resolved    *)
(* path points into, how it was resolved, and the object whose cached      *)
(* attributes the reply reports for it.                                    *)
Operand == [dir : Maybe, slot : Slots \cup {NoSlot},
            how : {"none", "hit", "miss", "export", "null"}, attr : Maybe]
NoOperand == [dir |-> NoObject, slot |-> NoSlot, how |-> "none", attr |-> NoObject]
Resolved(h, slot, how) == [dir |-> h, slot |-> slot, how |-> how, attr |-> NoObject]

----------------------------------------------------------------------------
(* The cache *)

fh_cache_next == (fh_cache_time + 1) % UINT_RANGE

\* Mutant: the search misses the entry after the last one handed out.
IndexTooShort(table, o) ==
    {i \in 0..(fh_cache_max - 1) : /\ table[i].obj = o
                                   /\ \A j \in 0..(i-1) : table[j].obj # o}

\* The first entry for o; empty where the code returns -1.
fh_cache_index(table, o) ==
    {i \in 0..fh_cache_max : /\ table[i].obj = o
                             /\ \A j \in 0..(i-1) : table[j].obj # o}

\* The cache is not full: the next entry is handed out.
HandsOut == fh_cache_max < CACHE_ENTRIES - 1

\* Mutant: no entry is protected.
LruForgetsLast(table) ==
    IF HandsOut
    THEN {fh_cache_max}
    ELSE {i \in Slots :
              /\ \A j \in Slots : table[i].use <= table[j].use
              /\ \A j \in 0..(i-1) : table[j].use # table[i].use}

\* The entry to overwrite: the next one never used, else the first of those
\* used least recently, the last entry returned set aside.  (An entry with
\* use = 0 is the first minimum; when every use is UINT_MAX the code falls back
\* on entry 0, or 1 if 0 is the last entry returned.)
fh_cache_lru(table) ==
    IF HandsOut
    THEN {fh_cache_max}
    ELSE {i \in Slots \ {fh_last_entry} :
              /\ \A j \in Slots \ {fh_last_entry} : table[i].use <= table[j].use
              /\ \A j \in (0..(i-1)) \ {fh_last_entry} : table[j].use # table[i].use}

\* The entries fh_cache_inval clears when lstat contradicts the one for o.
fh_cache_inval(o) ==
    [i \in Slots |-> IF i \in fh_cache_index(fh_cache, o) THEN Empty ELSE fh_cache[i]]

AddSlots(table, o) ==
    IF fh_cache_index(table, o) # {}
    THEN fh_cache_index(table, o)
    ELSE fh_cache_lru(table)

\* fh_cache_add puts o into entry i of the table.
fh_cache_add(table, o, i) ==
    /\ i \in AddSlots(table, o)
    /\ fh_cache' = [table EXCEPT ![i] = [obj |-> o, use |-> fh_cache_next]]
    /\ fh_cache_time' = fh_cache_next
    /\ fh_cache_max' = IF fh_cache_index(table, o) = {} /\ HandsOut
                       THEN fh_cache_max + 1
                       ELSE fh_cache_max
    /\ UNCHANGED fh_last_entry

----------------------------------------------------------------------------
(* fh_decomp: the ways a handle is resolved. *)

\* The export point of a removable device: its path comes from the export list
\* and the stat cache is declared valid without being filled.
DecompExport(h) ==
    /\ h \in Exports
    /\ st_cache_valid' = TRUE
    /\ UNCHANGED <<fh_cache, fh_cache_max, fh_cache_time, fh_last_entry, st_cache>>

\* Mutant: a hit leaves the stat cache alone.
HitWithoutStat(h, i) ==
    /\ h \notin Exports
    /\ i \in fh_cache_index(fh_cache, h)
    /\ fh_cache' = [fh_cache EXCEPT ![i].use = fh_cache_next]
    /\ fh_cache_time' = fh_cache_next
    /\ fh_last_entry' = i
    /\ UNCHANGED <<fh_cache_max, st_cache, st_cache_valid>>

\* The cached path still leads to the object.
DecompHit(h, i) ==
    /\ h \notin Exports
    /\ i \in fh_cache_index(fh_cache, h)
    /\ fh_cache' = [fh_cache EXCEPT ![i].use = fh_cache_next]
    /\ fh_cache_time' = fh_cache_next
    /\ fh_last_entry' = i
    /\ st_cache' = h
    /\ st_cache_valid' = TRUE
    /\ UNCHANGED fh_cache_max

\* Not cached, or the cached path is wrong; fh_decomp_raw or locate_file finds
\* the object and fills the stat cache, except for the root directory, whose
\* path needs no search.
DecompMiss(h, i) ==
    /\ h \notin Exports
    /\ fh_cache_add(fh_cache_inval(h), h, i)
    /\ IF h \in Roots
       THEN UNCHANGED statVars
       ELSE st_cache' = h /\ st_cache_valid' = TRUE

\* No way to find the object.
DecompFails(h) ==
    /\ h \notin Exports \cup Roots
    /\ fh_cache' = fh_cache_inval(h)
    /\ st_cache_valid' = FALSE
    /\ UNCHANGED <<fh_cache_max, fh_cache_time, fh_last_entry, st_cache>>

fh_decomp(h, slot, how) ==
    \/ how = "export" /\ slot = NoSlot /\ DecompExport(h)
    \/ how = "hit" /\ DecompHit(h, slot)
    \/ how = "miss" /\ DecompMiss(h, slot)
    \/ how = "null" /\ slot = NoSlot /\ DecompFails(h)

----------------------------------------------------------------------------
(* The procedures *)

\* Attributes taken from the stat cache; NoObject where none are sent.
get_pre_cached == IF st_cache_valid THEN st_cache ELSE NoObject

Init ==
    /\ fh_cache = [i \in Slots |-> Empty]
    /\ fh_cache_max = 0
    /\ fh_cache_time = 0
    /\ fh_last_entry = NoSlot
    /\ st_cache = NoObject
    /\ st_cache_valid = FALSE
    /\ op = "idle"
    /\ from = NoOperand
    /\ to = NoOperand

\* PREP, with which every procedure starts: resolve the handle of the request.
\* Which procedure it is shows in the next step.
PREP(h) ==
    /\ op = "idle"
    /\ \E slot \in Slots \cup {NoSlot}, how \in {"hit", "miss", "export"} :
        /\ fh_decomp(h, slot, how)
        /\ from' = Resolved(h, slot, how)
    /\ op' = "prep"
    /\ UNCHANGED to

\* PREP answers NFS3ERR_STALE or NFS3ERR_ACCES and the request is over.
PREPRefuses(h) ==
    /\ op = "idle"
    /\ \E slot \in Slots \cup {NoSlot}, how \in {"hit", "miss", "export", "null"} :
        fh_decomp(h, slot, how)
    /\ UNCHANGED <<op, from, to>>

\* GETATTR, SETATTR, ACCESS, READ, WRITE, REMOVE, RMDIR, READDIR, FSSTAT,
\* FSINFO and PATHCONF read the stat cache and resolve nothing else.
PlainReply ==
    /\ op = "prep"
    /\ from' = [from EXCEPT !.attr = get_pre_cached]
    /\ op' = "done"
    /\ UNCHANGED <<cacheVars, statVars, to>>

\* LOOKUP adds the object it found; it reports no cached attributes.
LookupReply ==
    /\ op = "prep"
    /\ \/ \E o \in Objects, i \in Slots : fh_cache_add(fh_cache, o, i)
       \/ UNCHANGED cacheVars
    /\ op' = "done"
    /\ UNCHANGED <<statVars, from, to>>

\* CREATE adds the new file, then reports the directory's old attributes.
CreateReply ==
    /\ op = "prep"
    /\ \/ \E o \in Objects, i \in Slots : fh_cache_add(fh_cache, o, i)
       \/ UNCHANGED cacheVars
    /\ from' = [from EXCEPT !.attr = get_pre_cached]
    /\ op' = "done"
    /\ UNCHANGED <<statVars, to>>

\* MKDIR saves the directory's attributes before it does anything else ...
MkdirPre ==
    /\ op = "prep"
    /\ from' = [from EXCEPT !.attr = get_pre_cached]
    /\ op' = "mkdir"
    /\ UNCHANGED <<cacheVars, statVars, to>>

\* ... because fh_extend_type puts the new directory into the stat cache.
MkdirReply ==
    /\ op = "mkdir"
    /\ \/ UNCHANGED statVars
       \/ st_cache_valid' = FALSE /\ UNCHANGED st_cache
       \/ st_cache_valid' = TRUE /\ st_cache' \in Objects
    /\ op' = "done"
    /\ UNCHANGED <<cacheVars, from, to>>

\* RENAME saves the attributes of the source directory ...
RenamePre ==
    /\ op = "prep"
    /\ from' = [from EXCEPT !.attr = get_pre_cached]
    /\ op' = "rename"
    /\ UNCHANGED <<cacheVars, statVars, to>>

\* ... resolves the target directory while it still holds the source path ...
RenameTo(h) ==
    /\ op = "rename"
    /\ \E slot \in Slots \cup {NoSlot}, how \in {"hit", "miss", "export", "null"} :
        /\ fh_decomp(h, slot, how)
        /\ to' = Resolved(h, slot, how)
    /\ op' = "renamed"
    /\ UNCHANGED from

\* ... and uses both paths for the reply.
RenameReply ==
    /\ op = "renamed"
    /\ to' = [to EXCEPT !.attr = get_pre_cached]
    /\ op' = "done"
    /\ UNCHANGED <<cacheVars, statVars, from>>

\* The reply is sent; the pointers of the request are gone.
Done ==
    /\ op = "done"
    /\ op' = "idle"
    /\ from' = NoOperand
    /\ to' = NoOperand
    /\ UNCHANGED <<cacheVars, statVars>>

\* MNT composes a handle for the mounted directory.
fh_comp(o) ==
    /\ op = "idle"
    /\ \E i \in Slots : fh_cache_add(fh_cache, o, i)
    /\ UNCHANGED <<statVars, op, from, to>>

Next ==
    \/ \E h \in Objects : PREP(h)
    \/ \E h \in Objects : PREPRefuses(h)
    \/ PlainReply
    \/ LookupReply
    \/ CreateReply
    \/ MkdirPre
    \/ MkdirReply
    \/ RenamePre
    \/ \E h \in Objects : RenameTo(h)
    \/ RenameReply
    \/ Done
    \/ \E o \in Objects : fh_comp(o)

Spec == Init /\ [][Next]_vars
----------------------------------------------------------------------------
(* Properties *)

\* Type invariant of the caches and of the request being served.
TypeOK ==
    /\ fh_cache \in [Slots -> Entry]
    /\ fh_cache_max \in Slots
    /\ fh_cache_time \in 0..(UINT_RANGE - 1)
    /\ fh_last_entry \in Slots \cup {NoSlot}
    /\ st_cache \in Maybe
    /\ st_cache_valid \in BOOLEAN
    /\ op \in {"idle", "prep", "mkdir", "rename", "renamed", "done"}
    /\ from \in Operand
    /\ to \in Operand

\* An object has one entry at most.  fh_cache_index stops at the first match, so
\* a second entry would keep an outdated path that nothing invalidates.
EntriesUnique ==
    \A i, j \in Slots :
        fh_cache[i].obj # NoObject /\ fh_cache[i].obj = fh_cache[j].obj => i = j

\* The path an operand points at is still the one for its object, or has been
\* cleared (fh_cache_inval), which the procedures notice as an empty path.
Intact(p) == fh_cache[p.slot].obj \in {p.dir, NoObject}

\* A path obtained by a cache hit is never replaced by another object's path
\* while the request still uses it, whatever the LRU clock does: what
\* fh_last_entry is for.
HitPathKept == \A p \in {from, to} : p.how = "hit" => Intact(p)

\* The attributes a reply takes from the stat cache are those of the object the
\* request names, for every handle that is not a root or an export point: no
\* earlier request, no second operand and no new directory shows through.
AttributesOwn ==
    \A p \in {from, to} :
        p.dir \notin Roots \cup Exports => p.attr \in {p.dir, NoObject}
=============================================================================
