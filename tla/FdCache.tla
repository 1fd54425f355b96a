------------------------------ MODULE FdCache ------------------------------
(***************************************************************************)
(* The file descriptor cache (fd_cache.c), the WRITE procedure that is its *)
(* only client (nfs.c), the write verifier (daemon.c) and the service loop *)
(* that sweeps the cache (daemon.c).                                       *)
(*                                                                         *)
(* WRITE with stable = UNSTABLE is acknowledged before the data is synced; *)
(* the descriptor stays in the cache and is synced and closed later, where *)
(* nobody is waiting for the answer.  A failed sync is kept as a "pending  *)
(* error" and is told to the client later, by an error reply or by a new   *)
(* write verifier.  The module keeps, as history, which acknowledgements   *)
(* are still unsynced and which were lost.                                 *)
(*                                                                         *)
(* time_t values are modelled by ages: idle = time(NULL) - use, saturated  *)
(* at MaxIdle, the first age that no comparison of the code distinguishes  *)
(* from a larger one.                                                      *)
(***************************************************************************)
EXTENDS Integers, FiniteSets

CONSTANTS
    Handles,               \* file handles of regular files: (dev, ino, gen)
    NoHandle,              \* the cleared dev, ino and gen of an unused entry
    Fds,                   \* descriptors the operating system hands out
    NoFd,                  \* -1
    Verifiers,             \* values regenerate_write_verifier can store
    FD_ENTRIES,            \* size of the cache, 256 in the code
    INACTIVE_TIMEOUT,      \* 2 s in the code
    PENDING_ERROR_TIMEOUT  \* 7200 s in the code

ASSUME CacheAssumption ==
    /\ FD_ENTRIES \in Nat \ {0}
    /\ INACTIVE_TIMEOUT \in Nat
    /\ PENDING_ERROR_TIMEOUT \in Nat
    /\ INACTIVE_TIMEOUT < PENDING_ERROR_TIMEOUT
ASSUME SentinelAssumption == NoHandle \notin Handles /\ NoFd \notin Fds
ASSUME VerifierAssumption == Verifiers # {}

VARIABLES
    fd_cache,          \* the table: entry -> [fh, fd, idle]
    fd_cache_writers,  \* the statistics counter of cached descriptors
    wverf,             \* the write verifier
    openFds,           \* descriptors the process holds open
    pc,                \* where unfs3_svc_run is: about to sweep, or serving
    reply,             \* the reply to the WRITE just served, if any
    unsynced,          \* handle -> acknowledgements whose data is not synced
    lost               \* handle -> acknowledgements whose data a sync lost

vars == <<fd_cache, fd_cache_writers, wverf, openFds, pc, reply, unsynced, lost>>

Slots == 1..FD_ENTRIES
MaxIdle == PENDING_ERROR_TIMEOUT

Entry == [fh : Handles \cup {NoHandle}, fd : Fds \cup {NoFd}, idle : 0..MaxIdle]
Unused == [fh |-> NoHandle, fd |-> NoFd, idle |-> 0]

\* An acknowledgement of an UNSTABLE write: the verifier it quoted, and
\* whether the verifier has not been regenerated since.
Ack == [verf : Verifiers, current : BOOLEAN]
Retired(acks) == {[verf |-> a.verf, current |-> FALSE] : a \in acks}

Reply == [fh : Handles \cup {NoHandle}, status : {"none", "ok", "error"},
          stable : BOOLEAN]
NoReply == [fh |-> NoHandle, status |-> "none", stable |-> FALSE]

----------------------------------------------------------------------------
(* The three states of an entry. *)
IsUnused(e)  == e.fh = NoHandle
IsOpen(e)    == e.fh # NoHandle /\ e.fd # NoFd
IsPending(e) == e.fh # NoHandle /\ e.fd = NoFd

Pending(h) == \E i \in Slots : fd_cache[i].fh = h /\ fd_cache[i].fd = NoFd

(* The searches of the table: each is the set of the first index that      *)
(* matches, empty where the code returns -1.                               *)
\* Mutant: an entry whose descriptor is gone counts as no entry.
CachedOpenOnly(h) == \E i \in Slots : fd_cache[i].fh = h /\ fd_cache[i].fd # NoFd
Cached(h) == \E i \in Slots : fd_cache[i].fh = h
Full == \A i \in Slots : ~IsUnused(fd_cache[i])

idx_by_fh(h) ==
    {i \in Slots : /\ fd_cache[i].fh = h
                   /\ \A j \in 1..(i-1) : fd_cache[j].fh # h}

\* Mutant: the search stops at the first used entry, whatever its descriptor.
FirstUsed(fd) ==
    {i \in Slots : /\ ~IsUnused(fd_cache[i])
                   /\ \A j \in 1..(i-1) : IsUnused(fd_cache[j])}

idx_by_fd(fd) ==
    {i \in Slots : /\ fd_cache[i].fd = fd
                   /\ \A j \in 1..(i-1) : fd_cache[j].fd # fd}

\* Mutant: a full table recycles the first idle descriptor.
RecycleIdle ==
    LET free(e) == IsUnused(e) \/ e.idle > INACTIVE_TIMEOUT IN
    {i \in Slots : /\ free(fd_cache[i])
                   /\ \A j \in 1..(i-1) : ~free(fd_cache[j])}

fd_cache_unused ==
    {i \in Slots : /\ IsUnused(fd_cache[i])
                   /\ \A j \in 1..(i-1) : ~IsUnused(fd_cache[j])}

\* Mutant: the entry is cleared whatever happened to the data.
DelForgetsErrors(e, failed, keep_on_error) == Unused

\* fd_cache_del on one entry: what is left in the table.  A pending error and
\* a failed fsync or close both make the result -1.
fd_cache_del(e, failed, keep_on_error) ==
    IF (e.fd = NoFd \/ failed) /\ keep_on_error
    THEN [e EXCEPT !.fd = NoFd]
    ELSE Unused

----------------------------------------------------------------------------
(* What an fsync does to the promises made: it settles or loses the        *)
(* unsynced data of the handles in good and in bad.  A regenerated         *)
(* verifier retires every acknowledgement that quoted the old one.         *)
Sync(good, bad, regenerated) ==
    LET keep(acks) == IF regenerated THEN Retired(acks) ELSE acks IN
    /\ unsynced' = [h \in Handles |->
                        IF h \in good \cup bad THEN {} ELSE keep(unsynced[h])]
    /\ lost' = [h \in Handles |->
                    keep(lost[h] \cup (IF h \in bad THEN unsynced[h] ELSE {}))]

regenerate_write_verifier == wverf' \in Verifiers

Init ==
    /\ fd_cache = [i \in Slots |-> Unused]
    /\ fd_cache_writers = 0
    /\ wverf \in Verifiers
    /\ openFds = {}
    /\ pc = "sweep"
    /\ reply = NoReply
    /\ unsynced = [h \in Handles |-> {}]
    /\ lost = [h \in Handles |-> {}]

----------------------------------------------------------------------------
(* WRITE *)

WriteReply(h, ok, stable) ==
    reply' = [fh |-> h, status |-> IF ok THEN "ok" ELSE "error", stable |-> stable]

\* An UNSTABLE write that went through is acknowledged unsynced.
Promise(h, wrote) ==
    unsynced' = IF wrote
                THEN [unsynced EXCEPT ![h] =
                          @ \cup {[verf |-> wverf, current |-> TRUE]}]
                ELSE unsynced

\* Mutant: the error is reported, but the verifier stays.
ReportsUnderOldVerifier(h, stable) ==
    \E i \in idx_by_fh(h) :
        /\ IsPending(fd_cache[i])
        /\ fd_cache' = [fd_cache EXCEPT ![i] = fd_cache_del(@, TRUE, FALSE)]
        /\ WriteReply(h, FALSE, stable)
        /\ UNCHANGED <<fd_cache_writers, openFds, wverf, unsynced, lost>>

\* fd_open meets a pending error: the entry and the error go, the verifier
\* changes, and the client gets the error.
WriteReportsError(h, stable) ==
    \E i \in idx_by_fh(h) :
        /\ IsPending(fd_cache[i])
        /\ fd_cache' = [fd_cache EXCEPT ![i] = fd_cache_del(@, TRUE, FALSE)]
        /\ regenerate_write_verifier
        /\ Sync({}, {}, TRUE)
        /\ WriteReply(h, FALSE, stable)
        /\ UNCHANGED <<fd_cache_writers, openFds>>

\* The descriptor is cached and the write is UNSTABLE: fd_close only notes the
\* time.  wrote says whether pwrite succeeded.
WriteCachedUnstable(h, wrote) ==
    \E i \in idx_by_fh(h) : \E k \in idx_by_fd(fd_cache[i].fd) :
        /\ IsOpen(fd_cache[i])
        /\ fd_cache' = [fd_cache EXCEPT ![k].idle = 0]
        /\ Promise(h, wrote)
        /\ WriteReply(h, wrote, FALSE)
        /\ UNCHANGED <<fd_cache_writers, wverf, openFds, lost>>

\* The descriptor is cached and the write is stable: fd_close deletes the
\* entry, which syncs everything written through it.
WriteCachedStable(h, wrote, failed) ==
    \E i \in idx_by_fh(h) : \E k \in idx_by_fd(fd_cache[i].fd) :
        /\ IsOpen(fd_cache[i])
        /\ fd_cache' = [fd_cache EXCEPT ![k] = fd_cache_del(@, failed, FALSE)]
        /\ fd_cache_writers' = fd_cache_writers - 1
        /\ openFds' = openFds \ {fd_cache[i].fd}
        /\ IF failed THEN regenerate_write_verifier ELSE UNCHANGED wverf
        /\ Sync(IF failed THEN {} ELSE {h}, IF failed THEN {h} ELSE {}, failed)
        /\ WriteReply(h, wrote /\ ~failed, TRUE)

\* Nothing cached and open() fails, or the path has come to mean another file.
WriteOpenFails(h, stable) ==
    /\ ~Cached(h)
    /\ WriteReply(h, FALSE, stable)
    /\ UNCHANGED <<fd_cache, fd_cache_writers, wverf, openFds, unsynced, lost>>

\* Nothing cached, the write is UNSTABLE and an entry is free: fd_open adds the
\* descriptor to the cache, also when the pwrite that follows fails.
WriteAdds(h, wrote) ==
    /\ ~Cached(h)
    /\ \E i \in fd_cache_unused, fd \in Fds \ openFds :
        /\ fd_cache' = [fd_cache EXCEPT ![i] = [fh |-> h, fd |-> fd, idle |-> 0]]
        /\ openFds' = openFds \cup {fd}
    /\ fd_cache_writers' = fd_cache_writers + 1
    /\ Promise(h, wrote)
    /\ WriteReply(h, wrote, FALSE)
    /\ UNCHANGED <<wverf, lost>>

\* Nothing cached, and the write is stable or the cache is full: fd_close does
\* not find the descriptor, syncs and closes it at once, and leaves the
\* verifier alone.
WriteUncached(h, stable, wrote, failed) ==
    /\ ~Cached(h)
    /\ stable \/ Full
    /\ \E fd \in Fds \ openFds : \A i \in Slots : fd_cache[i].fd # fd
    /\ Sync(IF failed THEN {} ELSE {h}, IF failed THEN {h} ELSE {}, FALSE)
    /\ WriteReply(h, wrote /\ ~failed, stable)
    /\ UNCHANGED <<fd_cache, fd_cache_writers, wverf, openFds>>

\* The WRITE procedure, for a regular file on a writable export.
Write(h, stable) ==
    /\ pc = "serve"
    /\ \/ WriteReportsError(h, stable)
       \/ ~stable /\ \E wrote \in BOOLEAN : WriteCachedUnstable(h, wrote)
       \/ stable /\ \E wrote, failed \in BOOLEAN : WriteCachedStable(h, wrote, failed)
       \/ WriteOpenFails(h, stable)
       \/ ~stable /\ \E wrote \in BOOLEAN : WriteAdds(h, wrote)
       \/ \E wrote, failed \in BOOLEAN : WriteUncached(h, stable, wrote, failed)
    /\ UNCHANGED pc

----------------------------------------------------------------------------
(* Closing descriptors where no client waits for the result. *)

\* fd_cache_del(i, TRUE) for the open entries in closing; those in failing
\* cannot be synced.
ClosedKeeping(closing, failing) ==
    [i \in Slots |-> IF i \in closing
                     THEN fd_cache_del(fd_cache[i], i \in failing, TRUE)
                     ELSE fd_cache[i]]

HandlesOf(slots) == {fd_cache[i].fh : i \in slots}
FdsOf(slots) == {fd_cache[i].fd : i \in slots}

\* Mutant: the sweep compares with the wrong timeout.
InactiveTooLate == {i \in Slots : /\ IsOpen(fd_cache[i])
                                  /\ fd_cache[i].idle > PENDING_ERROR_TIMEOUT}

Inactive == {i \in Slots : /\ IsOpen(fd_cache[i])
                           /\ fd_cache[i].idle > INACTIVE_TIMEOUT}

PendingIn(table) == {i \in Slots : IsPending(table[i])}

AllErrorsOld(table) ==
    /\ PendingIn(table) # {}
    /\ \A i \in PendingIn(table) : table[i].idle >= PENDING_ERROR_TIMEOUT

\* Mutant: the second loop is missing.
ErrorsKept(table) == table

\* The second loop of fd_cache_close_inactive throws every pending error away.
WithoutErrors(table) ==
    [i \in Slots |-> IF i \in PendingIn(table)
                     THEN fd_cache_del(table[i], TRUE, FALSE)
                     ELSE table[i]]

fd_cache_close_inactive ==
    /\ pc = "sweep"
    /\ \E failing \in SUBSET Inactive :
        LET closed == ClosedKeeping(Inactive, failing)
            expire == AllErrorsOld(closed)
        IN  /\ fd_cache' = IF expire THEN WithoutErrors(closed) ELSE closed
            /\ IF expire THEN regenerate_write_verifier ELSE UNCHANGED wverf
            /\ Sync(HandlesOf(Inactive \ failing), HandlesOf(failing), expire)
    /\ fd_cache_writers' = fd_cache_writers - Cardinality(Inactive)
    /\ openFds' = openFds \ FdsOf(Inactive)
    /\ pc' = "serve"
    /\ reply' = NoReply

\* select times out, or the batch of requests is done: round the loop again.
svc_run_again ==
    /\ pc = "serve"
    /\ pc' = "sweep"
    /\ reply' = NoReply
    /\ UNCHANGED <<fd_cache, fd_cache_writers, wverf, openFds, unsynced, lost>>

OpenSlots == {i \in Slots : IsOpen(fd_cache[i])}

\* fd_cache_purge, from UMNT and UMNTALL once nothing is mounted any more.
fd_cache_purge ==
    /\ pc = "serve"
    /\ \E failing \in SUBSET OpenSlots :
        /\ fd_cache' = ClosedKeeping(OpenSlots, failing)
        /\ Sync(HandlesOf(OpenSlots \ failing), HandlesOf(failing), FALSE)
    /\ fd_cache_writers' = fd_cache_writers - Cardinality(OpenSlots)
    /\ openFds' = openFds \ FdsOf(OpenSlots)
    /\ reply' = NoReply
    /\ UNCHANGED <<wverf, pc>>

\* main of the next process: empty cache, new verifier.
Restarted ==
    /\ fd_cache' = [i \in Slots |-> Unused]
    /\ fd_cache_writers' = 0
    /\ openFds' = {}
    /\ regenerate_write_verifier
    /\ pc' = "sweep"
    /\ reply' = NoReply

\* daemon_exit on a signal purges the cache and exits; then the server is
\* started again.
Shutdown ==
    /\ \E failing \in SUBSET OpenSlots :
        Sync(HandlesOf(OpenSlots \ failing), HandlesOf(failing), TRUE)
    /\ Restarted

\* The process is killed, or the machine stops and the unsynced data of some
\* files goes with it.
Crash ==
    /\ \E bad \in SUBSET Handles : Sync({}, bad, TRUE)
    /\ Restarted

\* A second passes.  Time stands still only while no entry measures it.
Tick ==
    /\ fd_cache' = [i \in Slots |->
           IF IsUnused(fd_cache[i]) \/ fd_cache[i].idle = MaxIdle
           THEN fd_cache[i]
           ELSE [fd_cache[i] EXCEPT !.idle = @ + 1]]
    /\ reply' = NoReply
    /\ UNCHANGED <<fd_cache_writers, wverf, openFds, pc, unsynced, lost>>

----------------------------------------------------------------------------
Next ==
    \/ \E h \in Handles, stable \in BOOLEAN : Write(h, stable)
    \/ fd_cache_close_inactive
    \/ svc_run_again
    \/ fd_cache_purge
    \/ Shutdown
    \/ Crash
    \/ Tick

Spec == Init /\ [][Next]_vars

\* unfs3_svc_run never stops: select returns after a second at the latest and
\* a batch of requests is finite, so the sweep always comes round; and time
\* passes.
FairSpec ==
    /\ Spec
    /\ WF_vars(fd_cache_close_inactive)
    /\ WF_vars(svc_run_again)
    /\ WF_vars(Tick)
----------------------------------------------------------------------------
(* Properties *)

\* Type invariant of the cache, the verifier and the history.
TypeOK ==
    /\ fd_cache \in [Slots -> Entry]
    /\ fd_cache_writers \in Int
    /\ wverf \in Verifiers
    /\ openFds \in SUBSET Fds
    /\ pc \in {"sweep", "serve"}
    /\ reply \in Reply
    /\ unsynced \in [Handles -> SUBSET Ack]
    /\ lost \in [Handles -> SUBSET Ack]

\* No two used entries are for the same file, and no two open ones share a
\* descriptor: otherwise idx_by_fh and idx_by_fd, which stop at the first
\* match, would sync one entry and leave the other's data and descriptor
\* behind.
EntriesDistinct ==
    \A i, j \in Slots :
        /\ i # j
        /\ ~IsUnused(fd_cache[i])
        => /\ fd_cache[i].fh # fd_cache[j].fh
           /\ IsOpen(fd_cache[i]) => fd_cache[i].fd # fd_cache[j].fd

\* Between requests the process holds open exactly the cached descriptors (none
\* leaks on an error path, none is closed while cached), no unused entry names
\* one, and the counter that SIGUSR1 logs is their number.
DescriptorsAccounted ==
    /\ openFds = FdsOf(OpenSlots)
    /\ \A i \in Slots : IsUnused(fd_cache[i]) => fd_cache[i].fd = NoFd
    /\ fd_cache_writers = Cardinality(OpenSlots)

\* Data acknowledged under the verifier in force and not yet synced can still be
\* synced and its failure still noticed: the file has an open descriptor in the
\* cache.  (Were the entry dropped, recycled or taken over by another file, no
\* later fsync would cover the data.)
PromisesHeld ==
    \A h \in Handles : (\E a \in unsynced[h] : a.current) =>
        \E i \in Slots : fd_cache[i].fh = h /\ fd_cache[i].fd # NoFd

\* No acknowledged data disappears silently: when a sync lost data that was
\* acknowledged under the verifier still in force, an error for that file is
\* pending, so the next WRITE to it fails (fd_cache.c, "pending fsync/close
\* error, to be reported in next COMMIT or WRITE").
NoSilentLoss ==
    \A h \in Handles : (\E a \in lost[h] : a.current) => Pending(h)

\* A successful WRITE reply is honest about what came before it: nothing
\* acknowledged for the file under the verifier in force is lost, and if the
\* write was stable nothing of the file is left unsynced.
ReplyHonest ==
    reply.status = "ok" =>
        /\ \A a \in lost[reply.fh] : ~a.current
        /\ reply.stable => unsynced[reply.fh] = {}

\* A descriptor that nobody uses is closed: unless the file is written again,
\* the sweep of the service loop takes an open entry out of the cache.
IdleDescriptorsClosed ==
    \A i \in Slots :
        (IsOpen(fd_cache[i]) /\ fd_cache[i].idle > 0)
            ~> (~IsOpen(fd_cache[i]) \/ fd_cache[i].idle = 0)

\* Pending errors do not fill the table for ever: once all of them are old the
\* sweep removes them, unless another error appears first.
OldErrorsDropped ==
    AllErrorsOld(fd_cache) ~> ~AllErrorsOld(fd_cache)

\* The contract of WRITE, as the cache keeps it: of a file's acknowledgements
\* only those under the verifier in force count.
Current(acks) == \E a \in acks : a.current

PromiseOf(h) == IF Current(lost[h]) THEN "lost"
                ELSE IF Current(unsynced[h]) THEN "unsynced"
                ELSE "settled"

Promises == [h \in Handles |-> PromiseOf(h)]

WC == INSTANCE WriteContract WITH Files <- Handles, NoFile <- NoHandle,
                                  promise <- Promises, reply <- reply

\* The cache, the sweep, purges and restarts implement WriteContract: whatever
\* happens to descriptors and entries, no WRITE to a file succeeds while
\* acknowledged data of it is lost, and lost data is given up only together
\* with the verifier it was acknowledged under.
KeepsContract == WC!Spec
=============================================================================
