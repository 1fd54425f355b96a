--------------------------- MODULE FhCacheProofs ---------------------------
(* Proofs about FhCache, for every number of entries and every clock width. *)
EXTENDS FhCache, TLAPS

(* The inductive invariant.  A hit is protected because fh_cache_lru never  *)
(* answers fh_last_entry, which in turn needs that entries not yet handed   *)
(* out are empty and that fh_last_entry is not one of them.                 *)

Unique(t) ==
    \A i, j \in Slots : t[i].obj # NoObject /\ t[i].obj = t[j].obj => i = j

Fresh(t) == HandsOut => \A i \in Slots : i >= fh_cache_max => t[i].obj = NoObject

LastHandedOut == HandsOut => fh_last_entry < fh_cache_max

\* While the request may still add entries, a hit is the protected entry.
HitProtected ==
    op \in {"prep", "mkdir", "rename"} /\ from.how = "hit" => from.slot = fh_last_entry

\* Which operands a request has, at each point of it.
RequestShape ==
    /\ op = "idle" => from = NoOperand
    /\ op \notin {"renamed", "done"} => to = NoOperand
    /\ \A p \in {from, to} : p.how = "hit" => p.slot \in Slots

\* The operand whose attributes are about to be read is the one the stat cache
\* describes.
Described(p) ==
    st_cache_valid /\ p.dir \notin Roots \cup Exports => st_cache = p.dir

StatOfOperand ==
    /\ op = "prep" => Described(from)
    /\ op = "renamed" => Described(to)

IInv ==
    /\ TypeOK
    /\ Unique(fh_cache)
    /\ Fresh(fh_cache)
    /\ LastHandedOut
    /\ HitProtected
    /\ RequestShape
    /\ HitPathKept
    /\ StatOfOperand
    /\ AttributesOwn

----------------------------------------------------------------------------
(* The cache operators *)

\* What is known of a table that fh_cache_add is given.
Good(t) ==
    /\ t \in [Slots -> Entry]
    /\ Unique(t)
    /\ Fresh(t)

\* fh_cache_next stays within an unsigned int.
LEMMA NextInRange ==
    ASSUME fh_cache_time \in 0..(UINT_RANGE - 1)
    PROVE  fh_cache_next \in 0..(UINT_RANGE - 1)
BY SizeAssumption DEF fh_cache_next

\* fh_cache_index finds an entry of the object.
LEMMA IndexFacts ==
    ASSUME fh_cache_max \in Slots, NEW t, NEW o, NEW i \in fh_cache_index(t, o)
    PROVE  i \in Slots /\ t[i].obj = o
BY SizeAssumption DEF fh_cache_index, Slots

\* When fh_cache_index finds nothing, no entry is for the object.
LEMMA IndexComplete ==
    ASSUME fh_cache_max \in Slots, NEW t, Good(t), NEW o \in Objects,
           NEW i \in Slots, t[i].obj = o
    PROVE  i \in fh_cache_index(t, o)
<1>1. o # NoObject
    BY ObjectAssumption
<1>2. i \in 0..fh_cache_max
    BY <1>1, SizeAssumption DEF Good, Fresh, HandsOut, Slots
<1>3. \A j \in 0..(i-1) : t[j].obj # o
    <2> SUFFICES ASSUME NEW j \in 0..(i-1), t[j].obj = o PROVE FALSE
        OBVIOUS
    <2>1. j \in Slots /\ j # i
        BY SizeAssumption DEF Slots
    <2> QED
        BY <1>1, <2>1 DEF Good, Unique
<1> QED
    BY <1>2, <1>3 DEF fh_cache_index

\* The entry handed out or recycled exists and is not the last one returned.
LEMMA LruFacts ==
    ASSUME fh_cache_max \in Slots, LastHandedOut, NEW t, NEW i \in fh_cache_lru(t)
    PROVE  i \in Slots /\ i # fh_last_entry /\ (HandsOut => i = fh_cache_max)
<1>1. CASE HandsOut
    BY <1>1, SizeAssumption DEF fh_cache_lru, LastHandedOut, Slots
<1>2. CASE ~HandsOut
    BY <1>2 DEF fh_cache_lru
<1> QED
    BY <1>1, <1>2

\* Clearing the entry of an object leaves a good table without the object.
LEMMA InvalFacts ==
    ASSUME fh_cache_max \in Slots, Good(fh_cache), NEW o \in Objects
    PROVE  /\ Good(fh_cache_inval(o))
           /\ \A i \in Slots : fh_cache_inval(o)[i].obj # o
           /\ \A i \in Slots : \/ fh_cache_inval(o)[i] = fh_cache[i]
                               \/ fh_cache_inval(o)[i].obj = NoObject
<1> DEFINE t == fh_cache_inval(o)
<1>0. Empty \in Entry /\ Empty.obj = NoObject
    BY SizeAssumption DEF Empty, Entry, Maybe
<1>1. t \in [Slots -> Entry]
    BY <1>0 DEF fh_cache_inval, Good
<1>2. \A i \in Slots : t[i] = fh_cache[i] \/ t[i].obj = NoObject
    BY <1>0 DEF fh_cache_inval
<1>3. \A i \in Slots : t[i].obj # o
    <2> SUFFICES ASSUME NEW i \in Slots PROVE t[i].obj # o
        OBVIOUS
    <2>1. CASE i \in fh_cache_index(fh_cache, o)
        BY <2>1, <1>0, ObjectAssumption DEF fh_cache_inval
    <2>2. CASE i \notin fh_cache_index(fh_cache, o)
        <3>1. t[i] = fh_cache[i]
            BY <2>2 DEF fh_cache_inval
        <3> QED
            BY <2>2, <3>1, IndexComplete
    <2> QED
        BY <2>1, <2>2
<1>4. Unique(t)
    BY <1>2 DEF Good, Unique
<1>5. Fresh(t)
    BY <1>2 DEF Good, Fresh
<1> QED
    BY <1>1, <1>2, <1>3, <1>4, <1>5 DEF Good

\* fh_cache_add keeps the table good, and of the other objects' entries it
\* overwrites neither the protected one nor more than one.
LEMMA AddFacts ==
    ASSUME TypeOK, LastHandedOut, NEW t, Good(t), NEW o \in Objects,
           NEW i \in Slots, fh_cache_add(t, o, i)
    PROVE  /\ fh_cache' \in [Slots -> Entry]
           /\ fh_cache_max' \in Slots
           /\ fh_cache_time' \in 0..(UINT_RANGE - 1)
           /\ fh_last_entry' = fh_last_entry
           /\ Unique(fh_cache)'
           /\ Fresh(fh_cache)'
           /\ LastHandedOut'
           /\ fh_cache'[i].obj = o
           /\ \A j \in Slots : j # i => fh_cache'[j] = t[j]
           /\ t[i].obj = o \/ i # fh_last_entry
<1>0. fh_cache_next \in 0..(UINT_RANGE - 1)
    BY NextInRange DEF TypeOK
<1>1. /\ fh_cache' = [t EXCEPT ![i] = [obj |-> o, use |-> fh_cache_next]]
      /\ fh_cache_time' = fh_cache_next
      /\ fh_last_entry' = fh_last_entry
      /\ i \in AddSlots(t, o)
    BY DEF fh_cache_add
<1>2. [obj |-> o, use |-> fh_cache_next] \in Entry
    BY <1>0 DEF Entry, Maybe
<1>3. fh_cache' \in [Slots -> Entry] /\ fh_cache'[i].obj = o
    BY <1>1, <1>2 DEF Good
<1>4. \A j \in Slots : j # i => fh_cache'[j] = t[j]
    BY <1>1 DEF Good
<1>5. CASE fh_cache_index(t, o) # {}
    <2>1. i \in fh_cache_index(t, o)
        BY <1>1, <1>5 DEF AddSlots
    <2>2. t[i].obj = o
        BY <2>1, IndexFacts DEF TypeOK
    <2>3. fh_cache_max' = fh_cache_max
        BY <1>5 DEF fh_cache_add
    <2>4. Unique(fh_cache)'
        BY <1>3, <1>4, <2>2 DEF Good, Unique
    <2>5. Fresh(fh_cache)'
        BY <1>3, <1>4, <2>2, <2>3 DEF Good, Fresh, HandsOut
    <2>6. LastHandedOut'
        BY <1>1, <2>3 DEF LastHandedOut, HandsOut
    <2> QED
        BY <1>0, <1>1, <1>3, <1>4, <2>2, <2>3, <2>4, <2>5, <2>6 DEF TypeOK
<1>6. CASE fh_cache_index(t, o) = {}
    <2>1. i \in fh_cache_lru(t)
        BY <1>1, <1>6 DEF AddSlots
    <2>2. i # fh_last_entry /\ (HandsOut => i = fh_cache_max)
        BY <2>1, LruFacts DEF TypeOK
    <2>3. \A j \in Slots : t[j].obj # o
        BY <1>6, IndexComplete DEF TypeOK
    <2>4. fh_cache_max' = IF HandsOut THEN fh_cache_max + 1 ELSE fh_cache_max
        BY <1>6 DEF fh_cache_add
    <2>5. Unique(fh_cache)'
        BY <1>3, <1>4, <2>3 DEF Good, Unique
    <2>6. fh_cache_max' \in Slots
        BY <2>4, SizeAssumption DEF TypeOK, HandsOut, Slots
    <2>7. Fresh(fh_cache)'
        <3> SUFFICES ASSUME HandsOut', NEW j \in Slots, j >= fh_cache_max'
                     PROVE  fh_cache'[j].obj = NoObject
            BY DEF Fresh
        <3>1. HandsOut /\ fh_cache_max' = fh_cache_max + 1
            BY <2>4, SizeAssumption DEF HandsOut, TypeOK, Slots
        <3>2. j # i /\ j >= fh_cache_max
            BY <2>2, <3>1, SizeAssumption DEF TypeOK, Slots
        <3> QED
            BY <1>4, <3>1, <3>2 DEF Good, Fresh
    <2>8. LastHandedOut'
        BY <1>1, <2>4, SizeAssumption DEF LastHandedOut, HandsOut, TypeOK, Slots, NoSlot
    <2> QED
        BY <1>0, <1>1, <1>3, <1>4, <2>2, <2>5, <2>6, <2>7, <2>8
<1> QED
    BY <1>5, <1>6

----------------------------------------------------------------------------
(* fh_decomp *)

\* The part of the invariant that is about the caches alone.
CachesOK ==
    /\ Good(fh_cache)
    /\ fh_cache_max \in Slots
    /\ fh_cache_time \in 0..(UINT_RANGE - 1)
    /\ fh_last_entry \in Slots \cup {NoSlot}
    /\ st_cache \in Maybe
    /\ st_cache_valid \in BOOLEAN
    /\ LastHandedOut

\* The entry of the last hit, if it changes at all, is cleared.
LastKept ==
    \A i \in Slots : i = fh_last_entry =>
        fh_cache'[i].obj \in {fh_cache[i].obj, NoObject}

\* Adding an entry to the cache as it is keeps the caches in order and the
\* protected entry's object.
LEMMA AddStep ==
    ASSUME TypeOK, CachesOK, NEW o \in Objects, NEW i \in Slots,
           fh_cache_add(fh_cache, o, i), UNCHANGED statVars
    PROVE  CachesOK' /\ LastKept
<1>1. CachesOK'
    BY AddFacts DEF CachesOK, Good, statVars
<1>2. LastKept
    BY AddFacts DEF CachesOK, LastKept
<1> QED
    BY <1>1, <1>2

\* Resolving a handle keeps the caches in order and the protected entry's
\* object; a hit becomes the protected entry; the stat cache, if valid, is about
\* the object, unless that is a root or an export point.
LEMMA DecompFacts ==
    ASSUME TypeOK, CachesOK, NEW h \in Objects, NEW slot \in Slots \cup {NoSlot},
           NEW how, fh_decomp(h, slot, how)
    PROVE  /\ CachesOK'
           /\ LastKept
           /\ how = "hit" => /\ slot \in Slots
                             /\ fh_last_entry' = slot
                             /\ fh_cache'[slot].obj = h
           /\ st_cache_valid' /\ h \notin Roots \cup Exports => st_cache' = h
<1>1. CASE how = "export" /\ slot = NoSlot /\ DecompExport(h)
    BY <1>1 DEF DecompExport, CachesOK, Good, LastKept, Unique, Fresh, HandsOut,
                LastHandedOut
<1>2. CASE how = "hit" /\ DecompHit(h, slot)
    <2>1. slot \in Slots /\ fh_cache[slot].obj = h
        BY <1>2, IndexFacts DEF DecompHit, TypeOK
    <2>2. fh_cache_next \in 0..(UINT_RANGE - 1)
        BY NextInRange DEF TypeOK
    <2>3. /\ fh_cache' = [fh_cache EXCEPT ![slot].use = fh_cache_next]
          /\ fh_cache_time' = fh_cache_next
          /\ fh_last_entry' = slot
          /\ fh_cache_max' = fh_cache_max
          /\ st_cache' = h
          /\ st_cache_valid' = TRUE
        BY <1>2 DEF DecompHit
    <2>4. fh_cache' \in [Slots -> Entry]
        BY <2>1, <2>2, <2>3 DEF CachesOK, Good, Entry
    <2>5. \A i \in Slots : fh_cache'[i].obj = fh_cache[i].obj
        BY <2>3 DEF CachesOK, Good, Entry
    <2>6. Unique(fh_cache)' /\ Fresh(fh_cache)'
        BY <2>3, <2>5 DEF CachesOK, Good, Unique, Fresh, HandsOut
    <2>7. LastHandedOut'
        BY <2>1, <2>3, ObjectAssumption
        DEF CachesOK, Good, Fresh, HandsOut, LastHandedOut, Slots
    <2>8. CachesOK'
        BY <2>1, <2>2, <2>3, <2>4, <2>6, <2>7 DEF CachesOK, Good, Maybe
    <2> QED
        BY <1>2, <2>1, <2>3, <2>5, <2>8 DEF LastKept
<1>3. CASE how = "miss" /\ DecompMiss(h, slot)
    <2> DEFINE t == fh_cache_inval(h)
    <2>1. /\ Good(t)
          /\ \A i \in Slots : t[i].obj # h
          /\ \A i \in Slots : t[i] = fh_cache[i] \/ t[i].obj = NoObject
        BY InvalFacts DEF CachesOK
    <2>2. fh_cache_add(t, h, slot)
        BY <1>3 DEF DecompMiss
    <2>3. slot \in Slots
        BY <2>2, IndexFacts, LruFacts DEF fh_cache_add, AddSlots, CachesOK
    <2>4. /\ fh_cache' \in [Slots -> Entry]
          /\ fh_cache_max' \in Slots
          /\ fh_cache_time' \in 0..(UINT_RANGE - 1)
          /\ fh_last_entry' = fh_last_entry
          /\ Unique(fh_cache)'
          /\ Fresh(fh_cache)'
          /\ LastHandedOut'
          /\ \A j \in Slots : j # slot => fh_cache'[j] = t[j]
          /\ t[slot].obj = h \/ slot # fh_last_entry
        BY <2>1, <2>2, <2>3, AddFacts DEF CachesOK
    <2>5. /\ st_cache' \in Maybe
          /\ st_cache_valid' \in BOOLEAN
          /\ h \notin Roots => st_cache' = h
        BY <1>3 DEF DecompMiss, statVars, CachesOK, Maybe
    <2>6. CachesOK'
        BY <2>4, <2>5 DEF CachesOK, Good
    <2>7. LastKept
        BY <2>1, <2>3, <2>4 DEF LastKept
    <2> QED
        BY <1>3, <2>5, <2>6, <2>7
<1>4. CASE how = "null" /\ slot = NoSlot /\ DecompFails(h)
    <2>1. /\ Good(fh_cache_inval(h))
          /\ \A i \in Slots : \/ fh_cache_inval(h)[i] = fh_cache[i]
                              \/ fh_cache_inval(h)[i].obj = NoObject
        BY InvalFacts DEF CachesOK
    <2>2. /\ fh_cache' = fh_cache_inval(h)
          /\ st_cache_valid' = FALSE
          /\ UNCHANGED <<fh_cache_max, fh_cache_time, fh_last_entry, st_cache>>
        BY <1>4 DEF DecompFails
    <2>3. CachesOK'
        BY <2>1, <2>2 DEF CachesOK, Good, Unique, Fresh, HandsOut, LastHandedOut
    <2> QED
        BY <1>4, <2>1, <2>2, <2>3 DEF LastKept
<1> QED
    BY <1>1, <1>2, <1>3, <1>4 DEF fh_decomp

----------------------------------------------------------------------------
(* The procedures *)

\* The parts of the invariant: the caches and the request.
RequestOK ==
    /\ op \in {"idle", "prep", "mkdir", "rename", "renamed", "done"}
    /\ from \in Operand
    /\ to \in Operand
    /\ HitProtected
    /\ RequestShape
    /\ HitPathKept
    /\ StatOfOperand
    /\ AttributesOwn

LEMMA IInvParts == IInv <=> CachesOK /\ RequestOK
BY DEF IInv, CachesOK, RequestOK, Good, TypeOK

\* Stat data read for an operand the stat cache describes are its own.
LEMMA PreFacts ==
    ASSUME st_cache \in Maybe, NEW p, Described(p)
    PROVE  /\ get_pre_cached \in Maybe
           /\ p.dir \notin Roots \cup Exports => get_pre_cached \in {p.dir, NoObject}
BY DEF get_pre_cached, Described, Maybe

\* A hit whose entry is protected survives a step that keeps that entry.
LEMMA KeptFacts ==
    ASSUME NEW p, p.slot \in Slots, p.slot = fh_last_entry, Intact(p), LastKept
    PROVE  fh_cache'[p.slot].obj \in {p.dir, NoObject}
BY DEF Intact, LastKept

\* Every step keeps the invariant.
LEMMA StepSafe == IInv /\ [Next]_vars => IInv'
<1> SUFFICES ASSUME IInv, [Next]_vars PROVE IInv'
    OBVIOUS
<1>0. TypeOK /\ CachesOK /\ RequestOK
    BY IInvParts DEF IInv
<1> SUFFICES CachesOK' /\ RequestOK'
    BY DEF IInv, CachesOK, RequestOK, Good, TypeOK
<1> USE <1>0
<1>1. ASSUME NEW h \in Objects, PREP(h) PROVE CachesOK' /\ RequestOK'
    <2>1. PICK slot \in Slots \cup {NoSlot}, how \in {"hit", "miss", "export"} :
              /\ fh_decomp(h, slot, how)
              /\ from' = Resolved(h, slot, how)
        BY <1>1 DEF PREP
    <2>2. op = "idle" /\ op' = "prep" /\ to' = to /\ to = NoOperand
        BY <1>1 DEF PREP, RequestOK, RequestShape
    <2>3. /\ CachesOK'
          /\ how = "hit" => /\ slot \in Slots
                            /\ fh_last_entry' = slot
                            /\ fh_cache'[slot].obj = h
          /\ st_cache_valid' /\ h \notin Roots \cup Exports => st_cache' = h
        BY <2>1, DecompFacts
    <2>4. /\ from' \in Operand
          /\ from'.dir = h
          /\ from'.slot = slot
          /\ from'.how = how
          /\ from'.attr = NoObject
        BY <2>1 DEF Resolved, Operand, Maybe
    <2>5. to'.how = "none" /\ to'.attr = NoObject
        BY <2>2 DEF NoOperand
    <2>6. HitProtected' /\ RequestShape'
        BY <2>2, <2>3, <2>4, <2>5 DEF HitProtected, RequestShape
    <2>7. HitPathKept'
        BY <2>3, <2>4, <2>5 DEF HitPathKept, Intact
    <2>8. StatOfOperand' /\ AttributesOwn'
        BY <2>2, <2>3, <2>4, <2>5 DEF StatOfOperand, Described, AttributesOwn
    <2> QED
        BY <2>2, <2>3, <2>4, <2>6, <2>7, <2>8 DEF RequestOK
<1>2. ASSUME NEW h \in Objects, PREPRefuses(h) PROVE CachesOK' /\ RequestOK'
    <2>1. PICK slot \in Slots \cup {NoSlot}, how \in {"hit", "miss", "export", "null"} :
              fh_decomp(h, slot, how)
        BY <1>2 DEF PREPRefuses
    <2>2. CachesOK'
        BY <2>1, DecompFacts
    <2>3. /\ op = "idle" /\ op' = op /\ from' = from /\ to' = to
          /\ from = NoOperand /\ to = NoOperand
        BY <1>2 DEF PREPRefuses, RequestOK, RequestShape
    <2> QED
        BY <2>2, <2>3 DEF RequestOK, HitProtected, RequestShape, HitPathKept, NoOperand,
                          StatOfOperand, AttributesOwn
<1>3. CASE PlainReply
    <2>1. CachesOK'
        BY <1>3 DEF PlainReply, cacheVars, statVars, CachesOK, Good, Unique, Fresh,
                    HandsOut, LastHandedOut
    <2>2. Described(from) /\ st_cache \in Maybe
        BY <1>3 DEF PlainReply, RequestOK, StatOfOperand, CachesOK
    <2>3. /\ from' = [from EXCEPT !.attr = get_pre_cached]
          /\ to' = to /\ op' = "done" /\ fh_cache' = fh_cache
          /\ from' \in Operand
        BY <1>3, <2>2, PreFacts DEF PlainReply, cacheVars, RequestOK, Operand
    <2>4. AttributesOwn'
        BY <2>2, <2>3, PreFacts DEF AttributesOwn, RequestOK, Operand
    <2>5. HitProtected' /\ RequestShape' /\ HitPathKept' /\ StatOfOperand'
        BY <2>3 DEF RequestOK, HitProtected, RequestShape, HitPathKept, Intact,
                    StatOfOperand, Operand
    <2> QED
        BY <2>1, <2>3, <2>4, <2>5 DEF RequestOK
<1>4. CASE LookupReply
    <2>1. CachesOK' /\ LastKept
        BY <1>4, AddStep DEF LookupReply, cacheVars, statVars, CachesOK, Good, Unique,
                             Fresh, HandsOut, LastHandedOut, LastKept
    <2>2. op = "prep" /\ op' = "done" /\ from' = from /\ to' = to
        BY <1>4 DEF LookupReply
    <2>3. HitPathKept'
        BY <2>1, <2>2, KeptFacts DEF RequestOK, HitPathKept, Intact, HitProtected,
                                     RequestShape, NoOperand
    <2> QED
        BY <2>1, <2>2, <2>3 DEF RequestOK, HitProtected, RequestShape, StatOfOperand,
                                AttributesOwn
<1>5. CASE CreateReply
    <2>1. CachesOK' /\ LastKept
        BY <1>5, AddStep DEF CreateReply, cacheVars, statVars, CachesOK, Good, Unique,
                             Fresh, HandsOut, LastHandedOut, LastKept
    <2>2. Described(from) /\ st_cache \in Maybe
        BY <1>5 DEF CreateReply, RequestOK, StatOfOperand, CachesOK
    <2>3. /\ from' = [from EXCEPT !.attr = get_pre_cached]
          /\ to' = to /\ op = "prep" /\ op' = "done"
          /\ from' \in Operand
        BY <1>5, <2>2, PreFacts DEF CreateReply, RequestOK, Operand
    <2>4. AttributesOwn'
        BY <2>2, <2>3, PreFacts DEF AttributesOwn, RequestOK, Operand
    <2>5. from'.how = from.how /\ from'.slot = from.slot /\ from'.dir = from.dir
        BY <2>3 DEF RequestOK, Operand
    <2>6. HitPathKept'
        <3>1. from.how = "hit" => fh_cache'[from.slot].obj \in {from.dir, NoObject}
            BY <2>1, <2>3, KeptFacts DEF RequestOK, HitPathKept, HitProtected,
                                         RequestShape
        <3>2. to'.how # "hit"
            BY <2>3 DEF RequestOK, RequestShape, NoOperand
        <3> QED
            BY <2>5, <3>1, <3>2 DEF HitPathKept, Intact
    <2>7. HitProtected' /\ RequestShape' /\ StatOfOperand'
        BY <2>3, <2>5 DEF RequestOK, HitProtected, RequestShape, StatOfOperand
    <2> QED
        BY <2>1, <2>3, <2>4, <2>6, <2>7 DEF RequestOK
<1>6. CASE MkdirPre \/ RenamePre
    <2>1. CachesOK'
        BY <1>6 DEF MkdirPre, RenamePre, cacheVars, statVars, CachesOK, Good, Unique,
                    Fresh, HandsOut, LastHandedOut
    <2>2. Described(from) /\ st_cache \in Maybe
        BY <1>6 DEF MkdirPre, RenamePre, RequestOK, StatOfOperand, CachesOK
    <2>3. /\ from' = [from EXCEPT !.attr = get_pre_cached]
          /\ to' = to /\ op = "prep" /\ op' \in {"mkdir", "rename"}
          /\ fh_cache' = fh_cache /\ fh_last_entry' = fh_last_entry
          /\ from' \in Operand
        BY <1>6, <2>2, PreFacts DEF MkdirPre, RenamePre, cacheVars, RequestOK, Operand
    <2>4. AttributesOwn'
        BY <2>2, <2>3, PreFacts DEF AttributesOwn, RequestOK, Operand
    <2>5. HitProtected' /\ RequestShape' /\ HitPathKept' /\ StatOfOperand'
        BY <2>3 DEF RequestOK, HitProtected, RequestShape, HitPathKept, Intact,
                    StatOfOperand, Operand
    <2> QED
        BY <2>1, <2>3, <2>4, <2>5 DEF RequestOK
<1>7. CASE MkdirReply
    <2>1. CachesOK'
        BY <1>7 DEF MkdirReply, cacheVars, statVars, CachesOK, Good, Unique, Fresh,
                    HandsOut, LastHandedOut, Maybe
    <2>2. /\ op = "mkdir" /\ op' = "done" /\ from' = from /\ to' = to
          /\ fh_cache' = fh_cache
        BY <1>7 DEF MkdirReply, cacheVars
    <2> QED
        BY <2>1, <2>2 DEF RequestOK, HitProtected, RequestShape, HitPathKept, Intact,
                          StatOfOperand, AttributesOwn
<1>8. ASSUME NEW h \in Objects, RenameTo(h) PROVE CachesOK' /\ RequestOK'
    <2>1. PICK slot \in Slots \cup {NoSlot}, how \in {"hit", "miss", "export", "null"} :
              /\ fh_decomp(h, slot, how)
              /\ to' = Resolved(h, slot, how)
        BY <1>8 DEF RenameTo
    <2>2. op = "rename" /\ op' = "renamed" /\ from' = from
        BY <1>8 DEF RenameTo
    <2>3. /\ CachesOK'
          /\ LastKept
          /\ how = "hit" => slot \in Slots /\ fh_cache'[slot].obj = h
          /\ st_cache_valid' /\ h \notin Roots \cup Exports => st_cache' = h
        BY <2>1, DecompFacts
    <2>4. /\ to' \in Operand
          /\ to'.dir = h
          /\ to'.slot = slot
          /\ to'.how = how
          /\ to'.attr = NoObject
        BY <2>1 DEF Resolved, Operand, Maybe
    <2>5. HitPathKept'
        <3>1. from'.how = "hit" => Intact(from)'
            BY <2>2, <2>3, KeptFacts DEF RequestOK, HitPathKept, Intact, HitProtected,
                                         RequestShape
        <3>2. to'.how = "hit" => Intact(to)'
            BY <2>3, <2>4 DEF Intact
        <3> QED
            BY <3>1, <3>2 DEF HitPathKept
    <2>6. HitProtected' /\ RequestShape'
        BY <2>2, <2>3, <2>4 DEF RequestOK, HitProtected, RequestShape
    <2>7. StatOfOperand' /\ AttributesOwn'
        BY <2>2, <2>3, <2>4 DEF RequestOK, StatOfOperand, Described, AttributesOwn
    <2> QED
        BY <2>2, <2>3, <2>4, <2>5, <2>6, <2>7 DEF RequestOK
<1>9. CASE RenameReply
    <2>1. CachesOK'
        BY <1>9 DEF RenameReply, cacheVars, statVars, CachesOK, Good, Unique, Fresh,
                    HandsOut, LastHandedOut
    <2>2. Described(to) /\ st_cache \in Maybe
        BY <1>9 DEF RenameReply, RequestOK, StatOfOperand, CachesOK
    <2>3. /\ to' = [to EXCEPT !.attr = get_pre_cached]
          /\ from' = from /\ op' = "done" /\ fh_cache' = fh_cache
          /\ to' \in Operand
        BY <1>9, <2>2, PreFacts DEF RenameReply, cacheVars, RequestOK, Operand
    <2>4. AttributesOwn'
        BY <2>2, <2>3, PreFacts DEF AttributesOwn, RequestOK, Operand
    <2>5. HitProtected' /\ RequestShape' /\ HitPathKept' /\ StatOfOperand'
        BY <2>3 DEF RequestOK, HitProtected, RequestShape, HitPathKept, Intact,
                    StatOfOperand, Operand
    <2> QED
        BY <2>1, <2>3, <2>4, <2>5 DEF RequestOK
<1>10. CASE Done
    <2>1. CachesOK'
        BY <1>10 DEF Done, cacheVars, statVars, CachesOK, Good, Unique, Fresh,
                     HandsOut, LastHandedOut
    <2>2. op' = "idle" /\ from' = NoOperand /\ to' = NoOperand
        BY <1>10 DEF Done
    <2>3. NoOperand \in Operand
        BY DEF NoOperand, Operand, Maybe
    <2> QED
        BY <2>1, <2>2, <2>3 DEF RequestOK, HitProtected, RequestShape, HitPathKept,
                                NoOperand, StatOfOperand, AttributesOwn
<1>11. ASSUME NEW o \in Objects, fh_comp(o) PROVE CachesOK' /\ RequestOK'
    <2>1. CachesOK'
        BY <1>11, AddStep DEF fh_comp
    <2>2. /\ op = "idle" /\ op' = op /\ from' = from /\ to' = to
          /\ from = NoOperand /\ to = NoOperand
        BY <1>11 DEF fh_comp, RequestOK, RequestShape
    <2> QED
        BY <2>1, <2>2 DEF RequestOK, HitProtected, RequestShape, HitPathKept, NoOperand,
                          StatOfOperand, AttributesOwn
<1>12. CASE UNCHANGED vars
    BY <1>12 DEF vars, RequestOK, CachesOK, Good, Unique, Fresh, HandsOut, LastHandedOut,
                 HitProtected, RequestShape, HitPathKept, Intact, StatOfOperand,
                 Described, AttributesOwn
<1> QED
    BY <1>1, <1>2, <1>3, <1>4, <1>5, <1>6, <1>7, <1>8, <1>9, <1>10, <1>11, <1>12 DEF Next

\* The initial state satisfies the invariant.
LEMMA InitSafe == Init => IInv
<1> SUFFICES ASSUME Init PROVE IInv
    OBVIOUS
<1>1. Empty \in Entry /\ Empty.obj = NoObject /\ NoOperand \in Operand
    BY SizeAssumption DEF Empty, Entry, Maybe, NoOperand, Operand
<1>2. TypeOK
    <2>1. 0 \in Slots /\ 0 \in 0..(UINT_RANGE - 1)
        BY SizeAssumption DEF Slots
    <2>2. fh_cache \in [Slots -> Entry]
        BY <1>1 DEF Init
    <2> QED
        BY <1>1, <2>1, <2>2 DEF Init, TypeOK, Maybe
<1>3. Unique(fh_cache) /\ Fresh(fh_cache) /\ LastHandedOut
    BY <1>1, SizeAssumption DEF Init, Unique, Fresh, LastHandedOut, NoSlot
<1>4. HitProtected /\ RequestShape /\ HitPathKept /\ StatOfOperand /\ AttributesOwn
    BY DEF Init, HitProtected, RequestShape, HitPathKept, StatOfOperand, AttributesOwn,
           NoOperand
<1> QED
    BY <1>2, <1>3, <1>4 DEF IInv

\* The inductive invariant holds of every reachable state of the caches.
THEOREM CacheSafe == Spec => []IInv
BY InitSafe, StepSafe, PTL DEF Spec

\* The type invariant of the caches and of the request.
THEOREM TypeCorrect == Spec => []TypeOK
<1>1. IInv => TypeOK
    BY DEF IInv
<1> QED
    BY <1>1, CacheSafe, PTL

\* fh_cache_add never gives an object a second entry.
THEOREM OneEntryPerObject == Spec => []EntriesUnique
<1>1. IInv => EntriesUnique
    BY DEF IInv, EntriesUnique, Unique
<1> QED
    BY <1>1, CacheSafe, PTL

\* The path of a cache hit stays in place until the request is over, for every
\* size of the cache and every width of the wrapping clock.
THEOREM HitsAreProtected == Spec => []HitPathKept
<1>1. IInv => HitPathKept
    BY DEF IInv
<1> QED
    BY <1>1, CacheSafe, PTL

\* The attributes in a reply belong to the object the request names.
THEOREM RepliesShowOwnAttributes == Spec => []AttributesOwn
<1>1. IInv => AttributesOwn
    BY DEF IInv
<1> QED
    BY <1>1, CacheSafe, PTL
=============================================================================
