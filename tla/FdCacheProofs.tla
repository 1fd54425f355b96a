--------------------------- MODULE FdCacheProofs ---------------------------
(***************************************************************************)
(* Proofs about the file descriptor cache, for every number of files,      *)
(* entries, descriptors and verifier values and for all timeouts.          *)
(***************************************************************************)
EXTENDS FdCache, FiniteSetTheorems, TLAPS

\* Retiring acknowledgements keeps their type and leaves none current.
LEMMA RetiredFacts ==
    ASSUME NEW acks \in SUBSET Ack
    PROVE  /\ Retired(acks) \in SUBSET Ack
           /\ \A a \in Retired(acks) : ~a.current
<1>1. ASSUME NEW a \in Retired(acks)
      PROVE  a \in Ack /\ ~a.current
  <2>1. PICK b \in acks : a = [verf |-> b.verf, current |-> FALSE]
    BY DEF Retired
  <2>2. b.verf \in Verifiers
    BY DEF Ack
  <2>3. a \in Ack
    BY <2>1, <2>2 DEF Ack
  <2>4. a.current = FALSE
    BY <2>1
  <2>5. QED
    BY <2>3, <2>4
<1>2. QED
  BY <1>1

\* What Sync may leave current: only what was current before, no unsynced
\* promise of a file it synced, and nothing at all under a new verifier.
LEMMA SyncFacts ==
    ASSUME TypeOK, NEW good, NEW bad, NEW regenerated \in BOOLEAN,
           Sync(good, bad, regenerated)
    PROVE  /\ unsynced' \in [Handles -> SUBSET Ack]
           /\ lost' \in [Handles -> SUBSET Ack]
           /\ \A h \in good \cup bad : h \in Handles => unsynced'[h] = {}
           /\ \A h \in Handles : \A a \in unsynced'[h] :
                a.current => /\ ~regenerated
                             /\ a \in unsynced[h]
                             /\ h \notin good \cup bad
           /\ \A h \in Handles : \A a \in lost'[h] :
                a.current => /\ ~regenerated
                             /\ \/ a \in lost[h]
                                \/ h \in bad /\ a \in unsynced[h]
<1> DEFINE keep(acks) == IF regenerated THEN Retired(acks) ELSE acks
<1>1. ASSUME NEW acks \in SUBSET Ack
      PROVE  /\ keep(acks) \in SUBSET Ack
             /\ \A a \in keep(acks) : a.current => ~regenerated /\ a \in acks
  BY <1>1, RetiredFacts
<1>2. \A h \in Handles : unsynced[h] \in SUBSET Ack /\ lost[h] \in SUBSET Ack
  BY DEF TypeOK
<1>3. /\ unsynced' = [h \in Handles |->
                        IF h \in good \cup bad THEN {} ELSE keep(unsynced[h])]
      /\ lost' = [h \in Handles |->
                    keep(lost[h] \cup (IF h \in bad THEN unsynced[h] ELSE {}))]
  BY DEF Sync
<1> HIDE DEF keep
<1>4. ASSUME NEW h \in Handles
      PROVE  /\ unsynced'[h] \in SUBSET Ack
             /\ h \in good \cup bad => unsynced'[h] = {}
             /\ \A a \in unsynced'[h] :
                  a.current => /\ ~regenerated
                               /\ a \in unsynced[h]
                               /\ h \notin good \cup bad
  <2>1. unsynced'[h] = IF h \in good \cup bad THEN {} ELSE keep(unsynced[h])
    BY <1>3
  <2>2. QED
    BY <2>1, <1>1, <1>2
<1>5. ASSUME NEW h \in Handles
      PROVE  /\ lost'[h] \in SUBSET Ack
             /\ \A a \in lost'[h] :
                  a.current => /\ ~regenerated
                               /\ \/ a \in lost[h]
                                  \/ h \in bad /\ a \in unsynced[h]
  <2> DEFINE gone == lost[h] \cup (IF h \in bad THEN unsynced[h] ELSE {})
  <2>1. lost'[h] = keep(gone)
    BY <1>3
  <2>2. gone \in SUBSET Ack
    BY <1>2
  <2>3. QED
    BY <2>1, <2>2, <1>1
<1>6. /\ unsynced' \in [Handles -> SUBSET Ack]
      /\ lost' \in [Handles -> SUBSET Ack]
  BY <1>3, <1>4, <1>5
<1>7. QED
  BY <1>4, <1>5, <1>6

\* Under a new verifier nothing is current.
LEMMA SyncNew ==
    ASSUME TypeOK, NEW good, NEW bad, Sync(good, bad, TRUE)
    PROVE  /\ \A h \in Handles : \A b \in unsynced'[h] : ~b.current
           /\ \A h \in Handles : \A b \in lost'[h] : ~b.current
<1>1. \A h \in Handles : \A b \in unsynced'[h] : ~b.current
  BY SyncFacts, Zenon
<1>2. \A h \in Handles : \A b \in lost'[h] : ~b.current
  BY SyncFacts, Zenon
<1>3. QED
  BY <1>1, <1>2

\* Under the same verifier only the unsynced promises of a failed sync join the
\* lost ones.
LEMMA SyncSame ==
    ASSUME TypeOK, NEW good, NEW bad, Sync(good, bad, FALSE)
    PROVE  /\ \A h \in good \cup bad : h \in Handles => unsynced'[h] = {}
           /\ \A h \in Handles : \A b \in unsynced'[h] :
                b.current => b \in unsynced[h] /\ h \notin good \cup bad
           /\ \A h \in Handles : \A b \in lost'[h] :
                b.current => b \in lost[h] \/ (h \in bad /\ b \in unsynced[h])
<1>1. \A h \in good \cup bad : h \in Handles => unsynced'[h] = {}
  BY SyncFacts, Zenon
<1>2. \A h \in Handles : \A b \in unsynced'[h] :
          b.current => b \in unsynced[h] /\ h \notin good \cup bad
  BY SyncFacts, Zenon
<1>3. \A h \in Handles : \A b \in lost'[h] :
          b.current => b \in lost[h] \/ (h \in bad /\ b \in unsynced[h])
  BY SyncFacts, Zenon
<1>4. QED
  BY <1>1, <1>2, <1>3

\* A successful sync of one file under the same verifier.
LEMMA SyncOne ==
    ASSUME TypeOK, NEW h \in Handles, Sync({h}, {}, FALSE)
    PROVE  /\ unsynced'[h] = {}
           /\ \A g \in Handles : \A b \in unsynced'[g] :
                b.current => b \in unsynced[g] /\ g # h
           /\ \A g \in Handles : \A b \in lost'[g] : b.current => b \in lost[g]
<1>1. PICK good, bad : good = {h} /\ bad = {}
  OBVIOUS
<1>2. Sync(good, bad, FALSE)
  BY <1>1
<1>3. /\ \A g \in good \cup bad : g \in Handles => unsynced'[g] = {}
      /\ \A g \in Handles : \A b \in unsynced'[g] :
            b.current => b \in unsynced[g] /\ g \notin good \cup bad
      /\ \A g \in Handles : \A b \in lost'[g] :
            b.current => b \in lost[g] \/ (g \in bad /\ b \in unsynced[g])
  BY <1>2, SyncSame
<1>4. QED
  BY <1>1, <1>3

\* An acknowledgement keeps the type of the history and adds to one file only.
LEMMA PromiseFacts ==
    ASSUME TypeOK, NEW h \in Handles, NEW wrote \in BOOLEAN, Promise(h, wrote)
    PROVE  /\ unsynced' \in [Handles -> SUBSET Ack]
           /\ \A g \in Handles : g # h => unsynced'[g] = unsynced[g]
<1>1. [verf |-> wverf, current |-> TRUE] \in Ack
  BY DEF Ack, TypeOK
<1>2. CASE wrote
  <2>1. unsynced' = [unsynced EXCEPT ![h] =
                         @ \cup {[verf |-> wverf, current |-> TRUE]}]
    BY <1>2 DEF Promise
  <2>2. QED
    BY <2>1, <1>1 DEF TypeOK
<1>3. CASE ~wrote
  BY <1>3 DEF Promise, TypeOK
<1>4. QED
  BY <1>2, <1>3

\* Sets of entries are finite.
LEMMA SlotSets ==
    ASSUME NEW S \in SUBSET Slots
    PROVE  IsFiniteSet(S) /\ Cardinality(S) \in Nat
<1>1. IsFiniteSet(Slots)
  BY FS_Interval, CacheAssumption DEF Slots
<1>2. IsFiniteSet(S)
  BY <1>1, FS_Subset
<1>3. QED
  BY <1>2, FS_CardinalityType

\* What fd_cache_del can leave of an entry: nothing, or a pending error.
LEMMA DelFacts ==
    ASSUME NEW e \in Entry
    PROVE  /\ Unused \in Entry
           /\ [e EXCEPT !.fd = NoFd] \in Entry
           /\ [e EXCEPT !.fd = NoFd].fh = e.fh
           /\ [e EXCEPT !.fd = NoFd].fd = NoFd
<1>1. Unused \in Entry
  BY CacheAssumption DEF Unused, Entry, MaxIdle
<1>2. QED
  BY <1>1 DEF Entry

\* Closing a set of entries on the quiet gives a well-formed table: entries that
\* could not be synced become pending errors, the others become unused.
LEMMA ClosedFacts ==
    ASSUME TypeOK, NEW closing \in SUBSET Slots, NEW failing \in SUBSET closing,
           \A i \in closing : IsOpen(fd_cache[i])
    PROVE  /\ ClosedKeeping(closing, failing) \in [Slots -> Entry]
           /\ \A i \in Slots \ closing :
                ClosedKeeping(closing, failing)[i] = fd_cache[i]
           /\ \A i \in closing \ failing :
                ClosedKeeping(closing, failing)[i] = Unused
           /\ \A i \in failing :
                /\ ClosedKeeping(closing, failing)[i].fh = fd_cache[i].fh
                /\ ClosedKeeping(closing, failing)[i].fd = NoFd
<1> DEFINE T == ClosedKeeping(closing, failing)
<1>1. ASSUME NEW i \in Slots
      PROVE  /\ fd_cache[i] \in Entry
             /\ T[i] = IF i \in closing
                       THEN IF fd_cache[i].fd = NoFd \/ i \in failing
                            THEN [fd_cache[i] EXCEPT !.fd = NoFd]
                            ELSE Unused
                       ELSE fd_cache[i]
  BY DEF TypeOK, ClosedKeeping, fd_cache_del
<1>2. ASSUME NEW i \in Slots
      PROVE  T[i] \in Entry
  BY <1>1, DelFacts
<1>3. T \in [Slots -> Entry]
  BY <1>2 DEF ClosedKeeping
<1>4. ASSUME NEW i \in failing
      PROVE  T[i].fh = fd_cache[i].fh /\ T[i].fd = NoFd
  BY <1>1, DelFacts
<1>5. ASSUME NEW i \in closing \ failing
      PROVE  T[i] = Unused
  BY <1>1, DelFacts DEF IsOpen
<1>6. QED
  BY <1>1, <1>3, <1>4, <1>5

\* Throwing the pending errors away leaves every other entry as it was.
LEMMA WithoutFacts ==
    ASSUME NEW table \in [Slots -> Entry]
    PROVE  /\ WithoutErrors(table) \in [Slots -> Entry]
           /\ \A i \in Slots : IF IsPending(table[i])
                              THEN WithoutErrors(table)[i] = Unused
                              ELSE WithoutErrors(table)[i] = table[i]
<1>1. ASSUME NEW i \in Slots
      PROVE  /\ WithoutErrors(table)[i] =
                    IF IsPending(table[i]) THEN Unused ELSE table[i]
             /\ WithoutErrors(table)[i] \in Entry
  <2>1. table[i] \in Entry
    OBVIOUS
  <2>2. Unused \in Entry
    BY <2>1, DelFacts
  <2>3. QED
    BY <2>1, <2>2 DEF WithoutErrors, PendingIn, fd_cache_del
<1>2. QED
  BY <1>1 DEF WithoutErrors

----------------------------------------------------------------------------
(* Type correctness *)

\* Every WRITE keeps the type invariant.
LEMMA WriteTyped ==
    ASSUME TypeOK, NEW h \in Handles, NEW stable \in BOOLEAN, Write(h, stable)
    PROVE  TypeOK'
<1> USE DEF TypeOK
<1>1. \A i \in Slots : fd_cache[i] \in Entry
  OBVIOUS
<1>2. ASSUME NEW ok \in BOOLEAN, NEW st \in BOOLEAN, WriteReply(h, ok, st)
      PROVE  reply' \in Reply
  BY <1>2 DEF WriteReply, Reply
<1>3. pc' \in {"sweep", "serve"}
  BY DEF Write
<1>4. Unused \in Entry
  BY CacheAssumption DEF Unused, Entry, MaxIdle
<1>6. CASE WriteReportsError(h, stable)
  <2>1. PICK i \in idx_by_fh(h) :
            /\ fd_cache' = [fd_cache EXCEPT ![i] = Unused]
            /\ regenerate_write_verifier
            /\ Sync({}, {}, TRUE)
            /\ WriteReply(h, FALSE, stable)
            /\ UNCHANGED <<fd_cache_writers, openFds>>
    BY <1>6 DEF WriteReportsError, fd_cache_del
  <2>2. fd_cache' \in [Slots -> Entry]
    BY <2>1, <1>4
  <2>3. unsynced' \in [Handles -> SUBSET Ack] /\ lost' \in [Handles -> SUBSET Ack]
    BY <2>1, SyncFacts
  <2>4. QED
    BY <2>1, <2>2, <2>3, <1>2, <1>3 DEF regenerate_write_verifier
<1>7. ASSUME NEW wrote \in BOOLEAN, WriteCachedUnstable(h, wrote)
      PROVE  TypeOK'
  <2>1. PICK k \in Slots : fd_cache' = [fd_cache EXCEPT ![k].idle = 0]
    BY <1>7 DEF WriteCachedUnstable, idx_by_fd
  <2>2. fd_cache' \in [Slots -> Entry]
    BY <2>1, <1>1, CacheAssumption DEF Entry, MaxIdle
  <2>3. unsynced' \in [Handles -> SUBSET Ack]
    BY <1>7, PromiseFacts DEF WriteCachedUnstable
  <2>4. WriteReply(h, wrote, FALSE)
        /\ UNCHANGED <<fd_cache_writers, wverf, openFds, lost>>
    BY <1>7 DEF WriteCachedUnstable
  <2>5. QED
    BY <2>2, <2>3, <2>4, <1>2, <1>3
<1>8. ASSUME NEW wrote \in BOOLEAN, NEW failed \in BOOLEAN,
             WriteCachedStable(h, wrote, failed)
      PROVE  TypeOK'
  <2>1. PICK i \in Slots, k \in Slots :
            /\ fd_cache' = [fd_cache EXCEPT ![k] = Unused]
            /\ fd_cache_writers' = fd_cache_writers - 1
            /\ openFds' = openFds \ {fd_cache[i].fd}
            /\ IF failed THEN regenerate_write_verifier ELSE UNCHANGED wverf
            /\ Sync(IF failed THEN {} ELSE {h}, IF failed THEN {h} ELSE {}, failed)
            /\ WriteReply(h, wrote /\ ~failed, TRUE)
    BY <1>8 DEF WriteCachedStable, idx_by_fd, idx_by_fh, fd_cache_del
  <2>2. fd_cache' \in [Slots -> Entry]
    BY <2>1, <1>4
  <2>3. unsynced' \in [Handles -> SUBSET Ack] /\ lost' \in [Handles -> SUBSET Ack]
    BY <2>1, SyncFacts
  <2>4. reply' \in Reply
    BY <2>1, <1>2
  <2>5. QED
    BY <2>1, <2>2, <2>3, <2>4, <1>3 DEF regenerate_write_verifier
<1>9. CASE WriteOpenFails(h, stable)
  BY <1>9, <1>2, <1>3 DEF WriteOpenFails
<1>10. ASSUME NEW wrote \in BOOLEAN, WriteAdds(h, wrote)
       PROVE  TypeOK'
  <2>1. PICK i \in Slots, fd \in Fds :
            /\ fd_cache' = [fd_cache EXCEPT ![i] = [fh |-> h, fd |-> fd, idle |-> 0]]
            /\ openFds' = openFds \cup {fd}
    BY <1>10 DEF WriteAdds, fd_cache_unused
  <2>2. fd_cache' \in [Slots -> Entry]
    BY <2>1, CacheAssumption DEF Entry, MaxIdle
  <2>3. unsynced' \in [Handles -> SUBSET Ack]
    BY <1>10, PromiseFacts DEF WriteAdds
  <2>4. /\ WriteReply(h, wrote, FALSE)
        /\ fd_cache_writers' = fd_cache_writers + 1
        /\ UNCHANGED <<wverf, lost>>
    BY <1>10 DEF WriteAdds
  <2>5. reply' \in Reply
    BY <2>4, <1>2
  <2>6. QED
    BY <2>1, <2>2, <2>3, <2>4, <2>5, <1>3
<1>11. ASSUME NEW wrote \in BOOLEAN, NEW failed \in BOOLEAN,
              WriteUncached(h, stable, wrote, failed)
       PROVE  TypeOK'
  <2>1. unsynced' \in [Handles -> SUBSET Ack] /\ lost' \in [Handles -> SUBSET Ack]
    BY <1>11, SyncFacts DEF WriteUncached
  <2>2. WriteReply(h, wrote /\ ~failed, stable)
    BY <1>11 DEF WriteUncached
  <2>3. reply' \in Reply
    BY <2>2, <1>2
  <2>4. QED
    BY <1>11, <2>1, <2>3, <1>3 DEF WriteUncached
<1>12. QED
  BY <1>6, <1>7, <1>8, <1>9, <1>10, <1>11 DEF Write

\* Every step keeps the type invariant.
LEMMA StepTyped == TypeOK /\ [Next]_vars => TypeOK'
<1> SUFFICES ASSUME TypeOK, [Next]_vars PROVE TypeOK'
  OBVIOUS
<1> USE DEF TypeOK
<1>1. \A i \in Slots : fd_cache[i] \in Entry
  OBVIOUS
<1>2. NoReply \in Reply
  BY DEF NoReply, Reply
<1>3. CASE \E h \in Handles, stable \in BOOLEAN : Write(h, stable)
  BY <1>3, WriteTyped
<1>4. CASE fd_cache_close_inactive
  <2>1. PICK failing \in SUBSET Inactive :
            /\ \/ fd_cache' = ClosedKeeping(Inactive, failing)
               \/ fd_cache' = WithoutErrors(ClosedKeeping(Inactive, failing))
            /\ regenerate_write_verifier \/ UNCHANGED wverf
            /\ Sync(HandlesOf(Inactive \ failing), HandlesOf(failing),
                    AllErrorsOld(ClosedKeeping(Inactive, failing)))
    BY <1>4 DEF fd_cache_close_inactive
  <2>2. ClosedKeeping(Inactive, failing) \in [Slots -> Entry]
    BY ClosedFacts DEF Inactive
  <2>3. fd_cache' \in [Slots -> Entry]
    BY <2>1, <2>2, WithoutFacts
  <2>4. AllErrorsOld(ClosedKeeping(Inactive, failing)) \in BOOLEAN
    BY DEF AllErrorsOld
  <2>5. unsynced' \in [Handles -> SUBSET Ack] /\ lost' \in [Handles -> SUBSET Ack]
    BY <2>1, <2>4, SyncFacts
  <2>6. Cardinality(Inactive) \in Int
    BY SlotSets DEF Inactive
  <2>7. QED
    BY <1>4, <2>1, <2>3, <2>5, <2>6, <1>2
    DEF fd_cache_close_inactive, regenerate_write_verifier
<1>5. CASE svc_run_again
  BY <1>5, <1>2 DEF svc_run_again
<1>6. CASE fd_cache_purge
  <2>1. PICK failing \in SUBSET OpenSlots :
            /\ fd_cache' = ClosedKeeping(OpenSlots, failing)
            /\ Sync(HandlesOf(OpenSlots \ failing), HandlesOf(failing), FALSE)
    BY <1>6 DEF fd_cache_purge
  <2>2. fd_cache' \in [Slots -> Entry]
    BY <2>1, ClosedFacts DEF OpenSlots
  <2>3. unsynced' \in [Handles -> SUBSET Ack] /\ lost' \in [Handles -> SUBSET Ack]
    BY <2>1, SyncFacts
  <2>4. Cardinality(OpenSlots) \in Int
    BY SlotSets DEF OpenSlots
  <2>5. QED
    BY <1>6, <2>2, <2>3, <2>4, <1>2 DEF fd_cache_purge
<1>7. ASSUME Restarted
      PROVE  /\ fd_cache' \in [Slots -> Entry]
             /\ fd_cache_writers' \in Int
             /\ wverf' \in Verifiers
             /\ openFds' \in SUBSET Fds
             /\ pc' \in {"sweep", "serve"}
             /\ reply' \in Reply
  <2>1. Unused \in Entry
    BY CacheAssumption DEF Unused, Entry, MaxIdle
  <2>2. QED
    BY <1>7, <2>1, <1>2 DEF Restarted, regenerate_write_verifier
<1>8. CASE Shutdown
  <2>1. unsynced' \in [Handles -> SUBSET Ack] /\ lost' \in [Handles -> SUBSET Ack]
    BY <1>8, SyncFacts DEF Shutdown
  <2>2. QED
    BY <1>8, <2>1, <1>7 DEF Shutdown
<1>9. CASE Crash
  <2>1. unsynced' \in [Handles -> SUBSET Ack] /\ lost' \in [Handles -> SUBSET Ack]
    BY <1>9, SyncFacts DEF Crash
  <2>2. QED
    BY <1>9, <2>1, <1>7 DEF Crash
<1>10. CASE Tick
  <2>1. ASSUME NEW i \in Slots, fd_cache[i].idle # MaxIdle
        PROVE  [fd_cache[i] EXCEPT !.idle = @ + 1] \in Entry
    BY <2>1, <1>1, CacheAssumption DEF Entry, MaxIdle
  <2>2. fd_cache' \in [Slots -> Entry]
    BY <1>10, <1>1, <2>1 DEF Tick
  <2>3. QED
    BY <1>10, <2>2, <1>2 DEF Tick
<1>11. CASE UNCHANGED vars
  BY <1>11 DEF vars
<1>12. QED
  BY <1>3, <1>4, <1>5, <1>6, <1>8, <1>9, <1>10, <1>11 DEF Next

\* The cache, its counter, the verifier and the history always have their types.
THEOREM TypeCorrect == Spec => []TypeOK
<1>1. Init => TypeOK
  <2> SUFFICES ASSUME Init PROVE TypeOK
    OBVIOUS
  <2>1. Unused \in Entry /\ NoReply \in Reply
    BY CacheAssumption DEF Unused, Entry, MaxIdle, NoReply, Reply
  <2>2. QED
    BY <2>1 DEF Init, TypeOK
<1>2. QED
  BY <1>1, StepTyped, PTL DEF Spec

----------------------------------------------------------------------------
(* The inductive invariant.  NoSilentLoss alone is not inductive: a sync    *)
(* that fails turns unsynced promises into lost ones, so what matters is    *)
(* that a current unsynced promise always has its open entry, which becomes *)
(* the pending error.  That needs the entries to be distinct, and that in   *)
(* turn needs every cached descriptor to be accounted for.                  *)
IInv ==
    /\ TypeOK
    /\ EntriesDistinct
    /\ DescriptorsAccounted
    /\ PromisesHeld
    /\ NoSilentLoss
    /\ ReplyHonest

\* An entry of a well-typed table is used exactly when its handle is a file.
LEMMA EntryFacts ==
    ASSUME TypeOK, NEW i \in Slots
    PROVE  /\ fd_cache[i] \in Entry
           /\ fd_cache[i].fh \in Handles \cup {NoHandle}
           /\ fd_cache[i].fd \in Fds \cup {NoFd}
BY DEF TypeOK, Entry

\* Closing open entries where no client waits (sweep and purge), with or without
\* throwing the pending errors away, preserves the invariant: what cannot be
\* synced is left as a pending error or announced by a new verifier.
LEMMA QuietClose ==
    ASSUME IInv, NEW closing \in SUBSET OpenSlots, NEW failing \in SUBSET closing,
           \/ /\ fd_cache' = ClosedKeeping(closing, failing)
              /\ Sync(HandlesOf(closing \ failing), HandlesOf(failing), FALSE)
           \/ /\ fd_cache' = WithoutErrors(ClosedKeeping(closing, failing))
              /\ Sync(HandlesOf(closing \ failing), HandlesOf(failing), TRUE),
           fd_cache_writers' = fd_cache_writers - Cardinality(closing),
           openFds' = openFds \ FdsOf(closing)
    PROVE  EntriesDistinct' /\ DescriptorsAccounted' /\ PromisesHeld' /\ NoSilentLoss'
<1> USE DEF IInv
<1> DEFINE T == ClosedKeeping(closing, failing)
<1>1. /\ T \in [Slots -> Entry]
      /\ \A i \in Slots \ closing : T[i] = fd_cache[i]
      /\ \A i \in closing \ failing : T[i] = Unused
      /\ \A i \in failing : T[i].fh = fd_cache[i].fh /\ T[i].fd = NoFd
  BY ClosedFacts DEF OpenSlots
<1> DEFINE good == HandlesOf(closing \ failing)
           bad == HandlesOf(failing)
<1> HIDE DEF T, good, bad
<1>a. /\ \A i \in Slots : \/ fd_cache'[i] = T[i]
                          \/ IsPending(T[i]) /\ fd_cache'[i] = Unused
      /\ \A h \in Handles : \A b \in unsynced'[h] :
            b.current => b \in unsynced[h] /\ h \notin good \cup bad
      /\ \A h \in Handles : \A b \in lost'[h] :
            b.current => fd_cache' = T /\ (b \in lost[h] \/ h \in bad)
  <2>1. CASE fd_cache' = T /\ Sync(good, bad, FALSE)
    <3>1. /\ \A h \in Handles : \A b \in unsynced'[h] :
                b.current => b \in unsynced[h] /\ h \notin good \cup bad
          /\ \A h \in Handles : \A b \in lost'[h] :
                b.current => b \in lost[h] \/ h \in bad
      BY <2>1, SyncSame
    <3>2. QED
      BY <2>1, <3>1
  <2>2. CASE fd_cache' = WithoutErrors(T) /\ Sync(good, bad, TRUE)
    <3>1. \A i \in Slots : \/ fd_cache'[i] = T[i]
                           \/ IsPending(T[i]) /\ fd_cache'[i] = Unused
      BY <2>2, <1>1, WithoutFacts
    <3>2. /\ \A h \in Handles : \A b \in unsynced'[h] : ~b.current
          /\ \A h \in Handles : \A b \in lost'[h] : ~b.current
      BY <2>2, SyncNew
    <3>3. QED
      BY <3>1, <3>2
  <2>3. QED
    BY <2>1, <2>2 DEF T, good, bad
<1>2. \A i \in OpenSlots \ closing :
          fd_cache'[i] = fd_cache[i] /\ ~IsPending(fd_cache[i])
  BY <1>1, <1>a DEF OpenSlots, IsOpen, IsPending
<1>3. \A i \in closing : fd_cache'[i].fd = NoFd
  BY <1>1, <1>a DEF OpenSlots, Unused
<1>4. \A i \in Slots : \/ fd_cache'[i] = Unused
                       \/ /\ fd_cache'[i].fh = fd_cache[i].fh
                          /\ fd_cache'[i].fd \in {fd_cache[i].fd, NoFd}
  BY <1>1, <1>a DEF OpenSlots
<1>5. EntriesDistinct'
  BY <1>4 DEF EntriesDistinct, IsUnused, IsOpen, Unused
<1>6. OpenSlots' = OpenSlots \ closing
  BY <1>2, <1>3, <1>4 DEF OpenSlots, IsOpen, Unused
<1>7. openFds' = FdsOf(OpenSlots)'
  <2>1. FdsOf(OpenSlots)' = {fd_cache[i].fd : i \in OpenSlots \ closing}
    BY <1>2, <1>6 DEF FdsOf
  <2>2. \A i \in OpenSlots \ closing, j \in closing : fd_cache[i].fd # fd_cache[j].fd
    BY DEF EntriesDistinct, OpenSlots, IsOpen, IsUnused
  <2>3. QED
    BY <2>1, <2>2 DEF FdsOf, DescriptorsAccounted
<1>8. fd_cache_writers' = Cardinality(OpenSlots')
  <2>1. OpenSlots \in SUBSET Slots /\ closing \in SUBSET Slots
    BY DEF OpenSlots
  <2>2. Cardinality(OpenSlots \ closing) = Cardinality(OpenSlots) - Cardinality(closing)
    <3>1. OpenSlots \cap closing = closing
      OBVIOUS
    <3>2. QED
      BY <2>1, <3>1, SlotSets, FS_Difference
  <2>3. QED
    BY <2>2, <1>6 DEF DescriptorsAccounted
<1>9. \A i \in Slots : IsUnused(fd_cache'[i]) => fd_cache'[i].fd = NoFd
  BY <1>4 DEF DescriptorsAccounted, IsUnused, Unused
<1>10. DescriptorsAccounted'
  BY <1>7, <1>8, <1>9 DEF DescriptorsAccounted
<1>11. PromisesHeld'
  <2> SUFFICES ASSUME NEW h \in Handles, NEW a \in unsynced'[h], a.current
               PROVE  \E i \in Slots : fd_cache'[i].fh = h /\ fd_cache'[i].fd # NoFd
    BY DEF PromisesHeld
  <2>1. a \in unsynced[h] /\ h \notin HandlesOf(closing \ failing) \cup HandlesOf(failing)
    BY <1>a DEF good, bad
  <2>2. PICK i \in Slots : fd_cache[i].fh = h /\ fd_cache[i].fd # NoFd
    BY <2>1 DEF PromisesHeld
  <2>3. i \in OpenSlots /\ i \notin closing
    BY <2>1, <2>2, SentinelAssumption DEF OpenSlots, IsOpen, HandlesOf
  <2>4. QED
    BY <2>2, <2>3, <1>2
<1>12. NoSilentLoss'
  <2> SUFFICES ASSUME NEW h \in Handles, NEW a \in lost'[h], a.current
               PROVE  \E i \in Slots : fd_cache'[i].fh = h /\ fd_cache'[i].fd = NoFd
    BY DEF NoSilentLoss, Pending
  <2>1. /\ fd_cache' = T
        /\ a \in lost[h] \/ h \in HandlesOf(failing)
    BY <1>a DEF bad
  <2>2. CASE a \in lost[h]
    <3>1. PICK i \in Slots : fd_cache[i].fh = h /\ fd_cache[i].fd = NoFd
      BY <2>2 DEF NoSilentLoss, Pending
    <3>2. i \notin closing
      BY <3>1 DEF OpenSlots, IsOpen
    <3>3. QED
      BY <3>1, <3>2, <2>1, <1>1
  <2>3. CASE h \in HandlesOf(failing)
    <3>1. PICK i \in failing : fd_cache[i].fh = h
      BY <2>3 DEF HandlesOf
    <3>2. i \in Slots
      BY DEF OpenSlots
    <3>3. QED
      BY <3>1, <3>2, <2>1, <1>1
  <2>4. QED
    BY <2>1, <2>2, <2>3
<1>13. QED
  BY <1>5, <1>10, <1>11, <1>12

\* A WRITE preserves every part of the invariant.
LEMMA WriteSafe ==
    ASSUME IInv, NEW h \in Handles, NEW stable \in BOOLEAN, Write(h, stable), TypeOK'
    PROVE  IInv'
<1> USE DEF IInv
<1>1. \A i \in Slots : fd_cache[i] \in Entry
  BY EntryFacts
<1>2. \A i, j \in Slots : fd_cache[i].fh = h /\ fd_cache[j].fh = h => i = j
  BY SentinelAssumption DEF EntriesDistinct, IsUnused
<1>3. CASE WriteReportsError(h, stable)
  <2>1. PICK i \in Slots :
            /\ fd_cache[i].fh = h /\ fd_cache[i].fd = NoFd
            /\ fd_cache' = [fd_cache EXCEPT ![i] = Unused]
            /\ Sync({}, {}, TRUE)
            /\ WriteReply(h, FALSE, stable)
            /\ UNCHANGED <<fd_cache_writers, openFds>>
    BY <1>3 DEF WriteReportsError, fd_cache_del, idx_by_fh, IsPending
  <2>2. PromisesHeld' /\ NoSilentLoss'
    BY <2>1, SyncNew DEF PromisesHeld, NoSilentLoss
  <2>3. \A j \in Slots : fd_cache'[j] = IF j = i THEN Unused ELSE fd_cache[j]
    BY <2>1 DEF TypeOK
  <2>4. EntriesDistinct'
    BY <2>3 DEF EntriesDistinct, IsUnused, IsOpen, Unused
  <2>5. OpenSlots' = OpenSlots
    BY <2>1, <2>3 DEF OpenSlots, IsOpen, Unused
  <2>6. FdsOf(OpenSlots)' = FdsOf(OpenSlots)
    BY <2>1, <2>3, <2>5 DEF FdsOf, OpenSlots, IsOpen
  <2>7. DescriptorsAccounted'
    BY <2>1, <2>3, <2>5, <2>6 DEF DescriptorsAccounted, IsUnused, Unused
  <2>8. ReplyHonest'
    BY <2>1 DEF ReplyHonest, WriteReply
  <2>9. QED
    BY <2>2, <2>4, <2>7, <2>8
<1>4. ASSUME NEW wrote \in BOOLEAN, WriteCachedUnstable(h, wrote)
      PROVE  IInv'
  <2>1. PICK i \in Slots, k \in Slots :
            /\ fd_cache[i].fh = h /\ fd_cache[i].fd # NoFd
            /\ fd_cache[k].fd = fd_cache[i].fd
            /\ fd_cache' = [fd_cache EXCEPT ![k].idle = 0]
    BY <1>4 DEF WriteCachedUnstable, idx_by_fh, idx_by_fd, IsOpen
  <2>2. /\ Promise(h, wrote)
        /\ WriteReply(h, wrote, FALSE)
        /\ UNCHANGED <<fd_cache_writers, wverf, openFds, lost>>
    BY <1>4 DEF WriteCachedUnstable
  <2>3. \A j \in Slots : /\ fd_cache'[j].fh = fd_cache[j].fh
                         /\ fd_cache'[j].fd = fd_cache[j].fd
    BY <2>1, <1>1 DEF Entry, TypeOK
  <2>4. EntriesDistinct'
    BY <2>3 DEF EntriesDistinct, IsUnused, IsOpen
  <2>5. OpenSlots' = OpenSlots
    BY <2>3 DEF OpenSlots, IsOpen
  <2>6. FdsOf(OpenSlots)' = FdsOf(OpenSlots)
    BY <2>3, <2>5 DEF FdsOf, OpenSlots
  <2>7. DescriptorsAccounted'
    BY <2>2, <2>3, <2>5, <2>6 DEF DescriptorsAccounted, IsUnused
  <2>8. PromisesHeld'
    BY <2>1, <2>2, <2>3, PromiseFacts DEF PromisesHeld
  <2>9. NoSilentLoss'
    BY <2>2, <2>3 DEF NoSilentLoss, Pending
  <2>10. ~Pending(h)
    BY <2>1, <1>2 DEF Pending
  <2>11. ReplyHonest'
    BY <2>2, <2>10 DEF ReplyHonest, WriteReply, NoSilentLoss
  <2>12. QED
    BY <2>4, <2>7, <2>8, <2>9, <2>11
<1>5. ASSUME NEW wrote \in BOOLEAN, NEW failed \in BOOLEAN,
             WriteCachedStable(h, wrote, failed)
      PROVE  IInv'
  <2>1. PICK i \in Slots, k \in Slots :
            /\ fd_cache[i].fh = h /\ fd_cache[i].fd # NoFd
            /\ fd_cache[k].fd = fd_cache[i].fd
            /\ fd_cache' = [fd_cache EXCEPT ![k] = Unused]
            /\ openFds' = openFds \ {fd_cache[i].fd}
    BY <1>5 DEF WriteCachedStable, idx_by_fh, idx_by_fd, fd_cache_del, IsOpen
  <2>2. /\ fd_cache_writers' = fd_cache_writers - 1
        /\ failed => Sync({}, {h}, TRUE)
        /\ ~failed => Sync({h}, {}, FALSE)
        /\ WriteReply(h, wrote /\ ~failed, TRUE)
    BY <1>5 DEF WriteCachedStable
  <2>3. k = i
    BY <2>1, SentinelAssumption DEF EntriesDistinct, IsUnused, IsOpen
  <2>4. \A j \in Slots : fd_cache'[j] = IF j = i THEN Unused ELSE fd_cache[j]
    BY <2>1, <2>3 DEF TypeOK
  <2>5. EntriesDistinct'
    BY <2>4 DEF EntriesDistinct, IsUnused, IsOpen, Unused
  <2>6. OpenSlots' = OpenSlots \ {i} /\ i \in OpenSlots
    BY <2>1, <2>4, SentinelAssumption DEF OpenSlots, IsOpen, Unused
  <2>7. FdsOf(OpenSlots)' = FdsOf(OpenSlots) \ {fd_cache[i].fd}
    <3>1. \A j \in OpenSlots \ {i} : /\ fd_cache'[j].fd = fd_cache[j].fd
                                     /\ fd_cache[j].fd # fd_cache[i].fd
      BY <2>1, <2>4 DEF OpenSlots, EntriesDistinct, IsOpen, IsUnused
    <3>2. FdsOf(OpenSlots)' = {fd_cache'[j].fd : j \in OpenSlots \ {i}}
      BY <2>6 DEF FdsOf
    <3>3. QED
      BY <3>1, <3>2 DEF FdsOf
  <2>8. Cardinality(OpenSlots') = Cardinality(OpenSlots) - 1
    <3>1. IsFiniteSet(OpenSlots)
      BY SlotSets DEF OpenSlots
    <3>2. QED
      BY <3>1, <2>6, FS_RemoveElement
  <2>9. DescriptorsAccounted'
    BY <2>1, <2>2, <2>4, <2>7, <2>8 DEF DescriptorsAccounted, IsUnused, Unused
  <2>10. ~Pending(h)
    BY <2>1, <1>2 DEF Pending
  <2>11. PromisesHeld' /\ NoSilentLoss' /\ ReplyHonest'
    <3>1. CASE failed
      <4>1. /\ \A g \in Handles : \A b \in unsynced'[g] : ~b.current
            /\ \A g \in Handles : \A b \in lost'[g] : ~b.current
        BY <3>1, <2>2, SyncNew
      <4>2. reply'.status # "ok"
        BY <3>1, <2>2 DEF WriteReply
      <4>3. QED
        BY <4>1, <4>2 DEF PromisesHeld, NoSilentLoss, ReplyHonest
    <3>2. CASE ~failed
      <4>1. /\ unsynced'[h] = {}
            /\ \A g \in Handles : \A b \in unsynced'[g] :
                  b.current => b \in unsynced[g] /\ g # h
            /\ \A g \in Handles : \A b \in lost'[g] : b.current => b \in lost[g]
        BY <3>2, <2>2, SyncOne
      <4>2. PromisesHeld'
        <5> SUFFICES ASSUME NEW g \in Handles, NEW a \in unsynced'[g], a.current
                     PROVE  \E j \in Slots : fd_cache'[j].fh = g /\ fd_cache'[j].fd # NoFd
          BY DEF PromisesHeld
        <5>1. PICK j \in Slots : fd_cache[j].fh = g /\ fd_cache[j].fd # NoFd
          BY <4>1 DEF PromisesHeld
        <5>2. j # i
          BY <5>1, <4>1, <2>1
        <5>3. QED
          BY <5>1, <5>2, <2>4
      <4>3. NoSilentLoss'
        <5> SUFFICES ASSUME NEW g \in Handles, NEW a \in lost'[g], a.current
                     PROVE  \E j \in Slots : fd_cache'[j].fh = g /\ fd_cache'[j].fd = NoFd
          BY DEF NoSilentLoss, Pending
        <5>1. PICK j \in Slots : fd_cache[j].fh = g /\ fd_cache[j].fd = NoFd
          BY <4>1 DEF NoSilentLoss, Pending
        <5>2. j # i
          BY <5>1, <2>1
        <5>3. QED
          BY <5>1, <5>2, <2>4
      <4>4. \A b \in lost'[h] : ~b.current
        BY <4>1, <2>10 DEF NoSilentLoss
      <4>5. reply'.fh = h
        BY <2>2 DEF WriteReply
      <4>6. ReplyHonest'
        BY <4>1, <4>4, <4>5 DEF ReplyHonest
      <4>7. QED
        BY <4>2, <4>3, <4>6
    <3>3. QED
      BY <3>1, <3>2
  <2>12. QED
    BY <2>5, <2>9, <2>11
<1>7. CASE WriteOpenFails(h, stable)
  <2>1. /\ WriteReply(h, FALSE, stable)
        /\ UNCHANGED <<fd_cache, fd_cache_writers, wverf, openFds, unsynced, lost>>
    BY <1>7 DEF WriteOpenFails
  <2>2. EntriesDistinct' /\ DescriptorsAccounted'
    BY <2>1 DEF EntriesDistinct, DescriptorsAccounted, FdsOf, OpenSlots, IsOpen, IsUnused
  <2>3. PromisesHeld' /\ NoSilentLoss'
    BY <2>1 DEF PromisesHeld, NoSilentLoss, Pending
  <2>4. ReplyHonest'
    BY <2>1 DEF ReplyHonest, WriteReply
  <2>5. QED
    BY <2>2, <2>3, <2>4
<1>8. ASSUME NEW wrote \in BOOLEAN, WriteAdds(h, wrote)
      PROVE  IInv'
  <2>1. PICK i \in Slots, fd \in Fds \ openFds :
            /\ fd_cache[i].fh = NoHandle
            /\ fd_cache' = [fd_cache EXCEPT ![i] = [fh |-> h, fd |-> fd, idle |-> 0]]
            /\ openFds' = openFds \cup {fd}
    BY <1>8 DEF WriteAdds, fd_cache_unused, IsUnused
  <2>2. /\ \A j \in Slots : fd_cache[j].fh # h
        /\ fd_cache_writers' = fd_cache_writers + 1
        /\ Promise(h, wrote)
        /\ WriteReply(h, wrote, FALSE)
        /\ UNCHANGED <<wverf, lost>>
    BY <1>8 DEF WriteAdds, Cached
  <2>3. /\ fd_cache'[i].fh = h /\ fd_cache'[i].fd = fd
        /\ \A j \in Slots : j # i => fd_cache'[j] = fd_cache[j]
    BY <2>1 DEF TypeOK
  <2>4. fd # NoFd /\ h # NoHandle
    BY SentinelAssumption
  <2>5. \A j \in Slots : fd_cache[j].fd # fd
    BY <2>1, <2>4 DEF DescriptorsAccounted, FdsOf, OpenSlots, IsOpen, IsUnused
  <2>6. EntriesDistinct'
    BY <2>2, <2>3, <2>5 DEF EntriesDistinct, IsUnused, IsOpen
  <2>7. OpenSlots' = OpenSlots \cup {i} /\ i \notin OpenSlots
    BY <2>1, <2>3, <2>4 DEF OpenSlots, IsOpen
  <2>8. FdsOf(OpenSlots)' = FdsOf(OpenSlots) \cup {fd}
    <3>1. \A j \in OpenSlots : fd_cache'[j].fd = fd_cache[j].fd
      BY <2>3, <2>7 DEF OpenSlots
    <3>2. FdsOf(OpenSlots)' = {fd_cache'[j].fd : j \in OpenSlots \cup {i}}
      BY <2>7 DEF FdsOf
    <3>3. QED
      BY <3>1, <3>2, <2>3 DEF FdsOf
  <2>9. Cardinality(OpenSlots') = Cardinality(OpenSlots) + 1
    <3>1. IsFiniteSet(OpenSlots)
      BY SlotSets DEF OpenSlots
    <3>2. QED
      BY <3>1, <2>7, FS_AddElement
  <2>10. DescriptorsAccounted'
    BY <2>1, <2>2, <2>3, <2>4, <2>8, <2>9 DEF DescriptorsAccounted, IsUnused
  <2>11. PromisesHeld'
    <3> SUFFICES ASSUME NEW g \in Handles, NEW a \in unsynced'[g], a.current
                 PROVE  \E j \in Slots : fd_cache'[j].fh = g /\ fd_cache'[j].fd # NoFd
      BY DEF PromisesHeld
    <3>1. CASE g = h
      BY <3>1, <2>3, <2>4
    <3>2. CASE g # h
      <4>1. PICK j \in Slots : fd_cache[j].fh = g /\ fd_cache[j].fd # NoFd
        BY <3>2, <2>2, PromiseFacts DEF PromisesHeld
      <4>2. j # i
        BY <4>1, <2>1, SentinelAssumption
      <4>3. QED
        BY <4>1, <4>2, <2>3
    <3>3. QED
      BY <3>1, <3>2
  <2>12. NoSilentLoss'
    <3> SUFFICES ASSUME NEW g \in Handles, NEW a \in lost[g], a.current
                 PROVE  \E j \in Slots : fd_cache'[j].fh = g /\ fd_cache'[j].fd = NoFd
      BY <2>2 DEF NoSilentLoss, Pending
    <3>1. PICK j \in Slots : fd_cache[j].fh = g /\ fd_cache[j].fd = NoFd
      BY DEF NoSilentLoss, Pending
    <3>2. j # i
      BY <3>1, <2>1, SentinelAssumption
    <3>3. QED
      BY <3>1, <3>2, <2>3
  <2>13. ~Pending(h)
    BY <2>2 DEF Pending
  <2>14. ReplyHonest'
    BY <2>2, <2>13 DEF ReplyHonest, WriteReply, NoSilentLoss
  <2>15. QED
    BY <2>6, <2>10, <2>11, <2>12, <2>14
<1>9. ASSUME NEW wrote \in BOOLEAN, NEW failed \in BOOLEAN,
             WriteUncached(h, stable, wrote, failed)
      PROVE  IInv'
  <2>1. /\ \A j \in Slots : fd_cache[j].fh # h
        /\ failed => Sync({}, {h}, FALSE)
        /\ ~failed => Sync({h}, {}, FALSE)
        /\ WriteReply(h, wrote /\ ~failed, stable)
        /\ UNCHANGED <<fd_cache, fd_cache_writers, wverf, openFds>>
    BY <1>9 DEF WriteUncached, Cached
  <2>2. EntriesDistinct' /\ DescriptorsAccounted'
    BY <2>1 DEF EntriesDistinct, DescriptorsAccounted, FdsOf, OpenSlots, IsOpen, IsUnused
  <2>3. /\ \A a \in unsynced[h] : ~a.current
        /\ \A a \in lost[h] : ~a.current
    BY <2>1 DEF PromisesHeld, NoSilentLoss, Pending
  <2>4. /\ unsynced'[h] = {}
        /\ \A g \in Handles : \A b \in unsynced'[g] : b.current => b \in unsynced[g]
        /\ \A g \in Handles : \A b \in lost'[g] : b.current => b \in lost[g]
    <3>1. CASE failed
      BY <3>1, <2>1, <2>3, SyncSame
    <3>2. CASE ~failed
      BY <3>2, <2>1, SyncOne
    <3>3. QED
      BY <3>1, <3>2
  <2>5. PromisesHeld' /\ NoSilentLoss'
    BY <2>1, <2>4 DEF PromisesHeld, NoSilentLoss, Pending
  <2>6. reply'.fh = h
    BY <2>1 DEF WriteReply
  <2>7. ReplyHonest'
    BY <2>3, <2>4, <2>6 DEF ReplyHonest
  <2>8. QED
    BY <2>2, <2>5, <2>7
<1>10. QED
  BY <1>3, <1>4, <1>5, <1>7, <1>8, <1>9 DEF Write

\* Every step preserves the inductive invariant.
LEMMA StepSafe == IInv /\ [Next]_vars => IInv'
<1> SUFFICES ASSUME IInv, [Next]_vars PROVE IInv'
  OBVIOUS
<1> USE DEF IInv
<1>1. TypeOK'
  BY StepTyped
<1>2. ASSUME reply' = NoReply PROVE ReplyHonest'
  BY <1>2 DEF ReplyHonest, NoReply
<1>3. CASE \E h \in Handles, stable \in BOOLEAN : Write(h, stable)
  BY <1>1, <1>3, WriteSafe
<1>4. CASE fd_cache_close_inactive
  <2>1. PICK failing \in SUBSET Inactive :
            \/ /\ fd_cache' = ClosedKeeping(Inactive, failing)
               /\ Sync(HandlesOf(Inactive \ failing), HandlesOf(failing), FALSE)
            \/ /\ fd_cache' = WithoutErrors(ClosedKeeping(Inactive, failing))
               /\ Sync(HandlesOf(Inactive \ failing), HandlesOf(failing), TRUE)
    <3>1. PICK failing \in SUBSET Inactive :
            LET closed == ClosedKeeping(Inactive, failing)
                expire == AllErrorsOld(closed)
            IN  /\ fd_cache' = IF expire THEN WithoutErrors(closed) ELSE closed
                /\ IF expire THEN regenerate_write_verifier ELSE UNCHANGED wverf
                /\ Sync(HandlesOf(Inactive \ failing), HandlesOf(failing), expire)
      BY <1>4 DEF fd_cache_close_inactive
    <3>2. CASE AllErrorsOld(ClosedKeeping(Inactive, failing)) = TRUE
      BY <3>1, <3>2
    <3>3. CASE AllErrorsOld(ClosedKeeping(Inactive, failing)) = FALSE
      BY <3>1, <3>3
    <3>4. AllErrorsOld(ClosedKeeping(Inactive, failing)) \in BOOLEAN
      BY DEF AllErrorsOld
    <3>5. QED
      BY <3>2, <3>3, <3>4
  <2>2. Inactive \in SUBSET OpenSlots
    BY DEF Inactive, OpenSlots
  <2>3. /\ fd_cache_writers' = fd_cache_writers - Cardinality(Inactive)
        /\ openFds' = openFds \ FdsOf(Inactive)
        /\ reply' = NoReply
    BY <1>4 DEF fd_cache_close_inactive
  <2>4. EntriesDistinct' /\ DescriptorsAccounted' /\ PromisesHeld' /\ NoSilentLoss'
    BY <2>1, <2>2, <2>3, QuietClose
  <2>5. QED
    BY <2>3, <2>4, <1>1, <1>2
<1>5. ASSUME UNCHANGED <<fd_cache_writers, openFds, unsynced, lost>>,
             \A i \in Slots : /\ fd_cache'[i].fh = fd_cache[i].fh
                             /\ fd_cache'[i].fd = fd_cache[i].fd
      PROVE  EntriesDistinct' /\ DescriptorsAccounted' /\ PromisesHeld' /\ NoSilentLoss'
  <2>1. EntriesDistinct'
    BY <1>5 DEF EntriesDistinct, IsUnused, IsOpen
  <2>2. OpenSlots' = OpenSlots
    BY <1>5 DEF OpenSlots, IsOpen
  <2>3. FdsOf(OpenSlots)' = FdsOf(OpenSlots)
    BY <1>5, <2>2 DEF FdsOf, OpenSlots
  <2>4. DescriptorsAccounted'
    BY <1>5, <2>2, <2>3 DEF DescriptorsAccounted, IsUnused
  <2>5. PromisesHeld' /\ NoSilentLoss'
    BY <1>5 DEF PromisesHeld, NoSilentLoss, Pending
  <2>6. QED
    BY <2>1, <2>4, <2>5
<1>6. CASE svc_run_again
  BY <1>6, <1>1, <1>2, <1>5 DEF svc_run_again
<1>7. CASE fd_cache_purge
  <2>1. PICK failing \in SUBSET OpenSlots :
            /\ fd_cache' = ClosedKeeping(OpenSlots, failing)
            /\ Sync(HandlesOf(OpenSlots \ failing), HandlesOf(failing), FALSE)
    BY <1>7 DEF fd_cache_purge
  <2>2. /\ fd_cache_writers' = fd_cache_writers - Cardinality(OpenSlots)
        /\ openFds' = openFds \ FdsOf(OpenSlots)
        /\ reply' = NoReply
    BY <1>7 DEF fd_cache_purge
  <2>3. EntriesDistinct' /\ DescriptorsAccounted' /\ PromisesHeld' /\ NoSilentLoss'
    BY <2>1, <2>2, QuietClose
  <2>4. QED
    BY <2>2, <2>3, <1>1, <1>2
<1>8. ASSUME Restarted, NEW good, NEW bad, Sync(good, bad, TRUE)
      PROVE  IInv'
  <2>1. \A i \in Slots : fd_cache'[i] = Unused
    BY <1>8 DEF Restarted
  <2>2. EntriesDistinct'
    BY <2>1 DEF EntriesDistinct, IsUnused, Unused
  <2>3. OpenSlots' = {}
    BY <2>1 DEF OpenSlots, IsOpen, Unused
  <2>4. FdsOf(OpenSlots)' = {}
    BY <2>3 DEF FdsOf
  <2>5. DescriptorsAccounted'
    BY <1>8, <2>1, <2>3, <2>4, FS_EmptySet DEF DescriptorsAccounted, Restarted, Unused
  <2>6. PromisesHeld' /\ NoSilentLoss'
    BY <1>8, SyncNew DEF PromisesHeld, NoSilentLoss
  <2>7. ReplyHonest'
    BY <1>8, <1>2 DEF Restarted
  <2>8. QED
    BY <2>2, <2>5, <2>6, <2>7, <1>1
<1>9. CASE Shutdown
  BY <1>9, <1>8 DEF Shutdown
<1>10. CASE Crash
  BY <1>10, <1>8 DEF Crash
<1>11. CASE Tick
  <2>1. \A i \in Slots : /\ fd_cache'[i].fh = fd_cache[i].fh
                         /\ fd_cache'[i].fd = fd_cache[i].fd
    BY <1>11, EntryFacts DEF Tick, Entry
  <2>2. QED
    BY <1>11, <2>1, <1>1, <1>2, <1>5 DEF Tick
<1>12. CASE UNCHANGED vars
  <2>1. EntriesDistinct' /\ DescriptorsAccounted' /\ PromisesHeld' /\ NoSilentLoss'
    BY <1>12, <1>5 DEF vars
  <2>2. ReplyHonest'
    BY <1>12 DEF vars, ReplyHonest
  <2>3. QED
    BY <2>1, <2>2, <1>1
<1>13. QED
  BY <1>3, <1>4, <1>6, <1>7, <1>9, <1>10, <1>11, <1>12 DEF Next

\* The inductive invariant holds in every reachable state.
THEOREM CacheSafe == Spec => []IInv
<1>1. Init => IInv
  <2> SUFFICES ASSUME Init PROVE IInv
    OBVIOUS
  <2>1. TypeOK
    <3>1. Unused \in Entry /\ NoReply \in Reply
      BY CacheAssumption DEF Unused, Entry, MaxIdle, NoReply, Reply
    <3>2. QED
      BY <3>1 DEF Init, TypeOK
  <2>2. \A i \in Slots : fd_cache[i] = Unused
    BY DEF Init
  <2>3. EntriesDistinct
    BY <2>2 DEF EntriesDistinct, IsUnused, Unused
  <2>4. OpenSlots = {}
    BY <2>2 DEF OpenSlots, IsOpen, Unused
  <2>5. FdsOf(OpenSlots) = {}
    BY <2>4 DEF FdsOf
  <2>6. DescriptorsAccounted
    BY <2>2, <2>4, <2>5, FS_EmptySet DEF Init, DescriptorsAccounted, Unused
  <2>7. PromisesHeld /\ NoSilentLoss /\ ReplyHonest
    BY DEF Init, PromisesHeld, NoSilentLoss, ReplyHonest, NoReply
  <2>8. QED
    BY <2>1, <2>3, <2>6, <2>7 DEF IInv
<1>2. QED
  BY <1>1, StepSafe, PTL DEF Spec

\* No two used entries of the cache are for the same file or hold the same
\* descriptor.
THEOREM EntriesStayDistinct == Spec => []EntriesDistinct
<1>1. IInv => EntriesDistinct
  BY DEF IInv
<1>2. QED
  BY <1>1, CacheSafe, PTL

\* No descriptor leaks and none is closed while cached; the statistics counter
\* is exact.
THEOREM NoDescriptorLeak == Spec => []DescriptorsAccounted
<1>1. IInv => DescriptorsAccounted
  BY DEF IInv
<1>2. QED
  BY <1>1, CacheSafe, PTL

\* Acknowledged data that a failed sync lost is never lost silently.
THEOREM LossIsReported == Spec => []NoSilentLoss
<1>1. IInv => NoSilentLoss
  BY DEF IInv
<1>2. QED
  BY <1>1, CacheSafe, PTL

\* A successful WRITE reply hides no loss, and a stable one leaves nothing
\* unsynced.
THEOREM RepliesAreHonest == Spec => []ReplyHonest
<1>1. IInv => ReplyHonest
  BY DEF IInv
<1>2. QED
  BY <1>1, CacheSafe, PTL

\* Unsynced data acknowledged under the verifier in force can still be synced:
\* its file keeps a descriptor in the cache.
THEOREM PromisesAreKept == Spec => []PromisesHeld
<1>1. IInv => PromisesHeld
  BY DEF IInv
<1>2. QED
  BY <1>1, CacheSafe, PTL

----------------------------------------------------------------------------
(* The refinement: the cache implements WriteContract.                     *)

\* Under the same verifier a sync takes the unsynced promises of the files it
\* touched; those of the failed ones join the lost.
LEMMA CurrentSame ==
    ASSUME TypeOK, NEW good, NEW bad, Sync(good, bad, FALSE), NEW h \in Handles
    PROVE  /\ Current(unsynced'[h]) <=> Current(unsynced[h]) /\ h \notin good \cup bad
           /\ Current(lost'[h]) <=> \/ Current(lost[h])
                                    \/ h \in bad /\ Current(unsynced[h])
<1>1. unsynced'[h] = IF h \in good \cup bad THEN {} ELSE unsynced[h]
  BY DEF Sync
<1>2. lost'[h] = lost[h] \cup (IF h \in bad THEN unsynced[h] ELSE {})
  BY DEF Sync
<1>3. QED
  BY <1>1, <1>2 DEF Current

\* Under a new verifier nothing acknowledged before counts.
LEMMA CurrentNew ==
    ASSUME TypeOK, NEW good, NEW bad, Sync(good, bad, TRUE)
    PROVE  Promises' = WC!AllSettled
<1>1. \A h \in Handles : ~Current(unsynced'[h]) /\ ~Current(lost'[h])
  BY SyncNew DEF Current
<1>2. \A h \in Handles : PromiseOf(h)' = "settled"
  BY <1>1 DEF PromiseOf
<1>3. QED
  BY <1>2 DEF Promises, WC!AllSettled

\* What stays when the histories stay.
LEMMA PromisesSame ==
    ASSUME UNCHANGED <<unsynced, lost>>
    PROVE  Promises' = Promises
BY DEF Promises, PromiseOf

\* A step without a reply that syncs under the same verifier is a background
\* step of the contract.
LEMMA BackgroundStep ==
    ASSUME TypeOK, NEW good, NEW bad, Sync(good, bad, FALSE), reply' = NoReply
    PROVE  WC!Background
<1>1. ASSUME NEW h \in Handles
      PROVE  /\ PromiseOf(h)' \in {"settled", "unsynced", "lost"}
             /\ PromiseOf(h) # "unsynced" => PromiseOf(h)' = PromiseOf(h)
  BY <1>1, CurrentSame DEF PromiseOf
<1>2. /\ Promises' \in [Handles -> {"settled", "unsynced", "lost"}]
      /\ \A h \in Handles : Promises[h] # "unsynced" => Promises'[h] = Promises[h]
  BY <1>1 DEF Promises
<1>3. reply' = WC!NoReply
  BY DEF NoReply, WC!NoReply, WC!Reply
<1>4. QED
  BY <1>2, <1>3 DEF WC!Background

\* A WRITE is a step of the contract.
LEMMA WriteImplements ==
    ASSUME IInv, IInv', NEW h \in Handles, NEW stable \in BOOLEAN, Write(h, stable)
    PROVE  WC!Next
<1> USE DEF IInv
<1>1. Promises = [g \in Handles |-> PromiseOf(g)] /\ Promises' = [g \in Handles |-> PromiseOf(g)']
  BY DEF Promises
<1>2. ASSUME reply'.status = "ok", reply'.fh = h PROVE ~Current(lost'[h])
  BY <1>2 DEF ReplyHonest, Current
<1>3. ASSUME NEW st \in BOOLEAN, WriteReply(h, FALSE, st),
             \/ Promises' = Promises
             \/ /\ PromiseOf(h) = "unsynced"
                /\ Promises' = [Promises EXCEPT ![h] = "settled"]
      PROVE  WC!Next
  <2>1. reply' = WC!Reply(h, "error", st)
    BY <1>3 DEF WriteReply, WC!Reply
  <2>2. WC!Fail(h, st)
    BY <2>1, <1>1, <1>3 DEF WC!Fail
  <2>3. QED
    BY <2>2 DEF WC!Next
<1>4. ASSUME NEW st \in BOOLEAN, WriteReply(h, FALSE, st), Promises' = WC!AllSettled
      PROVE  WC!Next
  <2>1. reply' = WC!Reply(h, "error", st)
    BY <1>4 DEF WriteReply, WC!Reply
  <2>2. WC!Report(h, st)
    BY <2>1, <1>4 DEF WC!Report
  <2>3. QED
    BY <2>2 DEF WC!Next
<1>5. ASSUME NEW st \in BOOLEAN, WriteReply(h, TRUE, st),
             PromiseOf(h) # "lost",
             \E p \in {"settled", "unsynced"} : /\ st => p = "settled"
                                              /\ Promises' = [Promises EXCEPT ![h] = p]
      PROVE  WC!Next
  <2>1. reply' = WC!Reply(h, "ok", st)
    BY <1>5 DEF WriteReply, WC!Reply
  <2>2. CASE st = TRUE
    <3>1. WC!Stable(h)
      BY <2>1, <2>2, <1>1, <1>5 DEF WC!Stable
    <3>2. QED
      BY <3>1 DEF WC!Next
  <2>3. CASE st = FALSE
    <3>1. WC!Unstable(h)
      BY <2>1, <2>3, <1>1, <1>5 DEF WC!Unstable
    <3>2. QED
      BY <3>1 DEF WC!Next
  <2>4. QED
    BY <2>2, <2>3
<1>6. ASSUME Sync({h}, {}, FALSE)
      PROVE  /\ Current(lost'[h]) <=> Current(lost[h])
             /\ ~Current(unsynced'[h])
             /\ \A g \in Handles \ {h} : PromiseOf(g)' = PromiseOf(g)
  <2>1. \A g \in Handles : /\ unsynced'[g] = IF g = h THEN {} ELSE unsynced[g]
                           /\ lost'[g] = lost[g]
    BY <1>6 DEF Sync
  <2>2. QED
    BY <2>1 DEF PromiseOf, Current
<1>7. ASSUME NEW st \in BOOLEAN, NEW wrote \in BOOLEAN, Sync({h}, {}, FALSE),
             WriteReply(h, wrote, st)
      PROVE  WC!Next
  <2>1. CASE wrote = TRUE
    <3>1. reply'.status = "ok" /\ reply'.fh = h
      BY <1>7, <2>1 DEF WriteReply
    <3>2. PromiseOf(h) # "lost" /\ PromiseOf(h)' = "settled"
      BY <3>1, <1>2, <1>6, <1>7 DEF PromiseOf
    <3>3. Promises' = [Promises EXCEPT ![h] = "settled"]
      BY <3>2, <1>1, <1>6, <1>7
    <3>4. QED
      BY <3>2, <3>3, <2>1, <1>5, <1>7
  <2>2. CASE wrote = FALSE
    <3>1. CASE PromiseOf(h) = "unsynced"
      <4>1. PromiseOf(h)' = "settled"
        BY <3>1, <1>6, <1>7 DEF PromiseOf
      <4>2. Promises' = [Promises EXCEPT ![h] = "settled"]
        BY <4>1, <1>1, <1>6, <1>7
      <4>3. QED
        BY <4>2, <3>1, <2>2, <1>3, <1>7
    <3>2. CASE PromiseOf(h) # "unsynced"
      <4>1. PromiseOf(h)' = PromiseOf(h)
        BY <3>2, <1>6, <1>7 DEF PromiseOf
      <4>2. Promises' = Promises
        BY <4>1, <1>1, <1>6, <1>7
      <4>3. QED
        BY <4>2, <2>2, <1>3, <1>7
    <3>3. QED
      BY <3>1, <3>2
  <2>3. QED
    BY <2>1, <2>2
<1>8. ASSUME NEW wrote \in BOOLEAN, Promise(h, wrote), UNCHANGED lost,
             WriteReply(h, wrote, FALSE)
      PROVE  WC!Next
  <2>1. CASE wrote = TRUE
    <3>1. reply'.status = "ok" /\ reply'.fh = h
      BY <1>8, <2>1 DEF WriteReply
    <3>2. [verf |-> wverf, current |-> TRUE] \in unsynced'[h]
      BY <1>8, <2>1 DEF Promise, TypeOK
    <3>3. Current(unsynced'[h])
      BY <3>2 DEF Current
    <3>4. PromiseOf(h) # "lost" /\ PromiseOf(h)' = "unsynced"
      BY <3>1, <3>3, <1>2, <1>8 DEF PromiseOf
    <3>5. \A g \in Handles \ {h} : PromiseOf(g)' = PromiseOf(g)
      BY <1>8, PromiseFacts DEF PromiseOf
    <3>6. Promises' = [Promises EXCEPT ![h] = "unsynced"]
      BY <3>4, <3>5, <1>1
    <3>7. QED
      BY <3>4, <3>6, <2>1, <1>5, <1>8
  <2>2. CASE wrote = FALSE
    <3>1. unsynced' = unsynced
      BY <1>8, <2>2 DEF Promise
    <3>2. QED
      BY <3>1, <2>2, <1>3, <1>8, PromisesSame
  <2>3. QED
    BY <2>1, <2>2
<1>9. CASE WriteReportsError(h, stable)
  <2>1. Sync({}, {}, TRUE) /\ WriteReply(h, FALSE, stable)
    BY <1>9 DEF WriteReportsError
  <2>2. QED
    BY <2>1, <1>4, CurrentNew
<1>10. ASSUME NEW wrote \in BOOLEAN, WriteCachedUnstable(h, wrote) PROVE WC!Next
  BY <1>8, <1>10 DEF WriteCachedUnstable
<1>11. ASSUME NEW wrote \in BOOLEAN, NEW failed \in BOOLEAN,
              WriteCachedStable(h, wrote, failed)
       PROVE  WC!Next
  <2>1. CASE failed = TRUE
    <3>1. Sync({}, {h}, TRUE) /\ WriteReply(h, FALSE, TRUE)
      BY <1>11, <2>1 DEF WriteCachedStable
    <3>2. QED
      BY <3>1, <1>4, CurrentNew
  <2>2. CASE failed = FALSE
    <3>1. Sync({h}, {}, FALSE) /\ WriteReply(h, wrote, TRUE)
      BY <1>11, <2>2 DEF WriteCachedStable
    <3>2. QED
      BY <3>1, <1>7
  <2>3. QED
    BY <2>1, <2>2
<1>12. CASE WriteOpenFails(h, stable)
  BY <1>3, <1>12, PromisesSame DEF WriteOpenFails
<1>13. ASSUME NEW wrote \in BOOLEAN, WriteAdds(h, wrote) PROVE WC!Next
  BY <1>8, <1>13 DEF WriteAdds
<1>14. ASSUME NEW wrote \in BOOLEAN, NEW failed \in BOOLEAN,
              WriteUncached(h, stable, wrote, failed)
       PROVE  WC!Next
  <2>1. CASE failed = TRUE
    <3>1. Sync({}, {h}, FALSE) /\ WriteReply(h, FALSE, stable)
      BY <1>14, <2>1 DEF WriteUncached
    <3>2. ~Current(unsynced[h])
      BY <1>14 DEF WriteUncached, Cached, PromisesHeld, Current
    <3>3. ASSUME NEW g \in Handles PROVE PromiseOf(g)' = PromiseOf(g)
      <4>1. /\ unsynced'[g] = IF g = h THEN {} ELSE unsynced[g]
            /\ lost'[g] = IF g = h THEN lost[g] \cup unsynced[g] ELSE lost[g]
        BY <3>1 DEF Sync
      <4>2. CASE g = h
        BY <4>1, <4>2, <3>2 DEF PromiseOf, Current
      <4>3. CASE g # h
        BY <4>1, <4>3 DEF PromiseOf
      <4>4. QED
        BY <4>2, <4>3
    <3>4. QED
      BY <3>1, <3>3, <1>1, <1>3
  <2>2. CASE failed = FALSE
    <3>1. Sync({h}, {}, FALSE) /\ WriteReply(h, wrote, stable)
      BY <1>14, <2>2 DEF WriteUncached
    <3>2. QED
      BY <3>1, <1>7
  <2>3. QED
    BY <2>1, <2>2
<1>15. QED
  BY <1>9, <1>10, <1>11, <1>12, <1>13, <1>14 DEF Write

\* Every step of the cache is a step of the contract or leaves it alone.
LEMMA StepImplements ==
    IInv /\ IInv' /\ [Next]_vars => [WC!Next]_(WC!vars)
<1> SUFFICES ASSUME IInv, IInv', [Next]_vars PROVE [WC!Next]_(WC!vars)
  OBVIOUS
<1>1. TypeOK
  BY DEF IInv
<1>2. ASSUME NEW good, NEW bad, Sync(good, bad, FALSE), reply' = NoReply
      PROVE  WC!Next
  BY <1>1, <1>2, BackgroundStep DEF WC!Next
<1>3. ASSUME NEW good, NEW bad, Sync(good, bad, TRUE), reply' = NoReply
      PROVE  WC!Next
  <2>1. Promises' = WC!AllSettled
    BY <1>1, <1>3, CurrentNew
  <2>2. reply' = WC!NoReply
    BY <1>3 DEF NoReply, WC!NoReply, WC!Reply
  <2>3. QED
    BY <2>1, <2>2 DEF WC!Next, WC!NewVerifier
<1>4. ASSUME UNCHANGED <<unsynced, lost>>, reply' = NoReply PROVE WC!Next
  <2>1. Sync({}, {}, FALSE)
    BY <1>1, <1>4 DEF Sync, TypeOK
  <2>2. QED
    BY <2>1, <1>2, <1>4
<1>5. CASE \E h \in Handles, stable \in BOOLEAN : Write(h, stable)
  BY <1>5, WriteImplements
<1>6. CASE fd_cache_close_inactive
  <2>1. PICK failing \in SUBSET Inactive :
            Sync(HandlesOf(Inactive \ failing), HandlesOf(failing),
                 AllErrorsOld(ClosedKeeping(Inactive, failing)))
    BY <1>6 DEF fd_cache_close_inactive
  <2>2. reply' = NoReply
    BY <1>6 DEF fd_cache_close_inactive
  <2>3. CASE AllErrorsOld(ClosedKeeping(Inactive, failing)) = TRUE
    BY <2>1, <2>2, <2>3, <1>3
  <2>4. CASE AllErrorsOld(ClosedKeeping(Inactive, failing)) = FALSE
    BY <2>1, <2>2, <2>4, <1>2
  <2>5. AllErrorsOld(ClosedKeeping(Inactive, failing)) \in BOOLEAN
    BY DEF AllErrorsOld
  <2>6. QED
    BY <2>3, <2>4, <2>5
<1>7. CASE svc_run_again
  BY <1>4, <1>7 DEF svc_run_again
<1>8. CASE fd_cache_purge
  BY <1>2, <1>8 DEF fd_cache_purge
<1>9. CASE Shutdown
  BY <1>3, <1>9 DEF Shutdown, Restarted
<1>10. CASE Crash
  BY <1>3, <1>10 DEF Crash, Restarted
<1>11. CASE Tick
  BY <1>4, <1>11 DEF Tick
<1>12. CASE UNCHANGED vars
  BY <1>12, PromisesSame DEF vars, WC!vars
<1>13. QED
  BY <1>5, <1>6, <1>7, <1>8, <1>9, <1>10, <1>11, <1>12 DEF Next

\* The descriptor cache implements the contract of WRITE, for every size of the
\* cache and every schedule of writes, sweeps, purges and restarts.
THEOREM CacheImplementsContract == Spec => KeepsContract
<1>1. Init => WC!Init
  <2> SUFFICES ASSUME Init PROVE WC!Init
    OBVIOUS
  <2>1. \A h \in Handles : PromiseOf(h) = "settled"
    BY DEF Init, PromiseOf, Current
  <2>2. QED
    BY <2>1 DEF Init, NoReply, Promises, WC!Init, WC!AllSettled, WC!NoReply, WC!Reply
<1>2. QED
  BY <1>1, CacheSafe, StepImplements, PTL DEF Spec, KeepsContract, WC!Spec
=============================================================================
