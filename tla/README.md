# TLA+ models of NFS-RODS

NFS-RODS is a user-space NFSv3 server (derived from UNFS3) that shows iRODS
collections to NFS clients. It keeps a local directory tree, the mirror, in
which the NFS procedures do what an NFS server does, and repeats every change
in iRODS through the iRODS C client library. This directory holds TLA+ models of
its parts, TLC configurations that check them on small instances, and TLAPS
proofs that hold for every value of the constants.

## The system

One process, one thread: `unfs3_svc_run` (daemon.c) sweeps the descriptor cache,
waits in `select` for at most a second, and serves a batch of RPC requests. A
signal handler reloads the export list (SIGHUP) or shuts down. Nothing else runs
in parallel inside the server, so a procedure is atomic for other requests; what
is hard is that all requests share global state (caches, static results, "last" values)
which the signal handler may change under a request, that each procedure works on two
stores that fail independently, and that time-outs, crashes, other iRODS clients and
repeated or late requests come in any order.

| Component | State | Operations | Interacts with | Modules |
|---|---|---|---|---|
| Descriptor cache (fd_cache.c) | `fd_cache[256]`, counters, `wverf` | `fd_open`, `fd_close`, `fd_cache_purge`, `fd_cache_close_inactive` | WRITE, UMNT, the loop, `daemon_exit` | FdCache, WriteContract |
| Handle cache (fh_cache.c) | `fh_cache[4096]`, LRU clock, `fh_last_entry`, `st_cache` | `fh_decomp`, `fh_comp`, `fh_cache_add` | PREP of every procedure, MNT | FhCache |
| Handles (fh.c, locate.c) | the handles clients hold, the directory tree | `fh_comp_raw`, `fh_extend`, `fh_decomp_raw`, `locate_file` | handle cache, LOOKUP, CREATE, MKDIR | Handles |
| Mount service (mount.c, password.c) | `mount_list`, `mount_cnt`, `nonce` | MNT with `@getnonce`, `@password:`, `@otp:`; UMNT, UMNTALL | exports, both caches | Mount |
| Export list (Config/exports.y) | the list, `exports_opts`, `export_path`, ... | `exports_options`, `exports_parse`, `exports_compat` | every procedure; SIGHUP | Exports, Requests |
| Users (user.c) | effective uid, gid, groups, squash ids | `switch_to_root`, `switch_user`, `read_executable`, ... | PREP, READ, WRITE, ACCESS | Users, Requests |
| NFS procedures (nfs.c, irodsapi/rodscapi.c) | the mirror and the iRODS collections | the NFSv3 procedures | everything | Mirror, Rods |
| iRODS connections (irodsapi) | connections, logins, configuration | `rodsConnect`, `rodsConnectProxy`, `rcDisconnect`, the calls | every procedure that reaches iRODS | Rods |
| Attributes (attr.c) | `st_cache` | `get_post_*`, `set_attr`, `set_attr_irods` | all replies | Attr, Rods |
| Directory paging (readdir.c) | `rcookie` | `read_dir` | READDIR; REMOVE, RMDIR, RENAME change the cookie | ReadDir |
| Protocol (nfs.h, xdr.c, mount.h, daemon.c) | static results | decoding, dispatch, encoding | all handlers | NfsTypes, Xdr, Rpc |
| Error mapping (error.c) | none | errno to status | all handlers | Errors, Rpc |
| Start and end (daemon.c) | pid file, ports, registrations | `main`, `daemon_exit`, signals | portmapper, other instances | Daemon |

What makes each correct:

* Descriptor cache: no descriptor leaks or is mixed up; data acknowledged to a
  client is never lost without an error reply or a changed write verifier; idle
  descriptors are closed.
* Handle cache: an object has one entry; a path is not overwritten while a request
  uses it; a reply shows the attributes of the object it is about.
* Handles: a handle leads to its object, or nowhere, however hashes collide.
* Mount service: a one-time password works once; the counter, which decides when
  descriptors are flushed, matches the list.
* Exports and users: a request gets the options and the identity that the export file
  grants, whatever was served before and whenever the file is reloaded.
* NFS procedures: mirror and iRODS name the same objects with the same data unless one
  half alone of a procedure was done; nothing but a request to remove data destroys it.
* iRODS connections: every procedure gives back what it opened.
* Paging: pages join to the whole directory; names that stay are not skipped.
* Protocol: a reply consists of what its own call produced, and fits.
* Start and end: what is registered and written in the pid file is the server that runs.

## Modules

Each component has a module with its state, actions and properties; the `MC` module
instantiates it for TLC, the `Proofs` module holds its theorems (DaemonProofs those of Rpc
and Mount, too, whose definitions carry their module's name, as `RpcSpec`, for that
reason). In each module the
operators called "Mutant" next to a definition are variants of it with a plausible
mistake; they show that a property notices the mistake, and no specification uses them.

### FdCache

`fd_cache` is a function from slots to entries `[fh, fd, idle]`; `idle` is the
number of seconds since the last use, so that no absolute clock is needed. The three entry
states of the comment in fd_cache.c are `IsUnused`, `IsOpen` and `IsPending`.
`Write` is the WRITE procedure as far as the cache is concerned, split by what
`fd_open` and `fd_close` find: a pending error, a cached descriptor, an open that
fails, a free slot, or a full table. `fd_cache_close_inactive`, `fd_cache_purge`,
`Shutdown`, `Crash`, `Tick` are the rest. `pc` says where the service loop is.
`unsynced` and `lost` are history variables: per file, the acknowledgements whose data
no fsync has covered and those whose data an fsync lost; each records the verifier
it carried and whether that verifier has been regenerated since.
The read half of the cache and `fd_sync` have no caller in this
program (READ goes to iRODS, COMMIT answers NFS3ERR_NOTSUPP) and are left out.

`WriteContract` is the abstract specification: per file, the data acknowledged under
the verifier in force is settled, unsynced or lost, and a WRITE to a file with lost data
is refused. `KeepsContract` says that FdCache implements it under the refinement
mapping `Promises`, which computes the state of a file from the history variables.

### FhCache

An entry names the object whose path it holds. `fh_decomp` resolves
a handle as an export point of a removable device, by a hit, by a miss
(`fh_decomp_raw` or `locate_file`), or not at all. A request is a sequence of
steps `PREP`, then the reply, because MKDIR and RENAME read the stat cache before
they overwrite it and RENAME resolves a second handle while it holds the first
path; `from` and `to` record which slot a request points into. `UINT_RANGE` is the
range of the LRU clock, small so that it wraps.

### Mount

The mount list, the counter, the single nonce, and `exports_opts` as left by the
last `exports_options`. A one-time password is represented by the nonce it
was computed from. Requests with `@otp:` stay in `sent`, so that they arrive late,
repeatedly or never. `used` records nonces that authenticated a mount.
Refusals for the length of the path, the port or a non-directory are not told apart
from ACCES: all leave the same state.

### Mirror

One directory: `local` and `rods` map each name to an object of the mirror and of
the iRODS collection (nothing, a file with or without data, a directory with or
without entries). Each procedure is one action with both halves, in the order and
under the conditions of the code, and each half may fail. `fresh` says
whether the clients' handle of the directory still resolves: READDIR removes
the directory and makes it again. A listing is the wipe, which may leave anything, and the
entries, each made by an unquoted shell command: `Word` gives the name under which the
shell opens a name. Wipe and listing may break off, and the process ends if the directory
cannot be examined. A download may break off. `StrayName` is what CREATE, REMOVE and RMDIR do
with a name `cat_name` refuses: they go on to call iRODS with a buffer nobody filled.
`RmdirSelf` is RMDIR of ".", ".." and of the directory from the one above.
`suspect` is a history variable: names of which one side alone was changed, or that the
last listing may have got wrong. It is what `Coherent` excuses: the property says that
nothing else lets the sides drift apart (a download, a write, a truncation, a retried CREATE,
work below a subdirectory), and not that a half-done procedure is harmless or even
reported; that it is not is told below. The local file system and the iRODS server are
external and modelled from how they are called.

### Exports, Users and Requests

`Exports` has the export list: what the grammar's actions make of a file given as lines
(normalised paths, netmasks, options with their defaults, the password's hash), the
search for the longest matching item, and the globals it leaves behind. The search is one
action per item, because the signal handler that frees the list may run between two;
`export_path` and the path that `fh_decomp` returns for an export point are references into
the list: `export_path.live` and, in Requests, `held` say whether the list is still there.
A search through a reference that is not may read any path, and the process may die of it.
The password's hash is a copy. `Users` has squashing, the switches of the effective user and the functions that
switch back to root for owners and readable executables, with switches that fail.
`Requests` composes the two: a request arrives (an NFS procedure, RENAME, MNT),
is resolved, checked against the list, switches users, works and is answered. SIGHUP comes
between any two of its steps; the exports file is edited only while no request is served, so one
request meets at most two versions of the list (a bound), and the server is started again
only once it is dead.
RENAME resolves and searches for its second handle in steps of its own. The history variables
`loaded`, `searched` and `granted` record what the file said when it was last read, when the
search began and when PREP admitted the request; the properties compare the server's globals with a reference definition over the file
(`GrantsFor`), which does not search and goes by directories: /a/b is in /a, and /ab is not.

### Handles

A tree of inodes with names, and handles of device, inode and one hash per component: composition from a path,
extension by one entry, the guided search with its hash collisions and its order of
entries (any order), the brute-force search, and removable export points, whose handles
hold a hash of the path instead. `private` is whether users have directories of their own below
the export: LOOKUP, CREATE and MKDIR then work in the directory `getRealPathNFS` makes of the
handle's path and extend the handle they were given. Objects are created, removed and renamed; inode numbers
are used again, and a new object may get a handle the old one had: `get_gen` returns
the inode number in this build. The searches are on a file system that answers: a directory
that cannot be opened or examined (fh.c:394, 401, locate.c:60-65, 126-138), at which they
give up or go on, is left out.

### ReadDir

One client lists a directory page by page while others change it. `read_dir` keeps the
two limits of a page (bytes and entries), the entry that is dropped again when it does
not fit, and the rule that the first entry always stays. A cookie is the epoch
(`rcookie`, upper half) and a position. Every page lists iRODS again; a listing that
breaks off is a prefix. Every page removes the directory and makes it again, so it may leave
the client with a stale handle (`stale`); the client then looks the directory up and asks for
the same page. The server is not restarted during a listing: a restart sets `rcookie` back to 0
(daemon.c:69), and a cookie of the first epoch would be taken again.

### Attr and Rods

`Attr` has the mapping of mode digits to iRODS access levels and back, and the attributes
of replies. `Rods` follows one file and its object through the procedures that touch
data and attributes (GETATTR, ACCESS, READ, WRITE, SETATTR, READDIR, and the calls they make
in rodscapi.c): path translation, connection, login, the call, disconnection, each with
its failure. Paths are sequences of characters, because the translations go by characters:
`strstr` finds the user's directory anywhere in a path, and what is cut off a path that is
shorter is read from behind its end (`Leftovers`). Downloads break off, writes on either side
and answers to READ are short, and the size READ tells is any number if there was no answer.
Other iRODS clients change the object, or share it, between any two steps, and a local
process may replace the mirror's file. `conf` is the configuration of a run; `conf.honours` is
whether iRODS reads at the offset in the call or, as READ does not seek, at the position of the
newly opened object: this repository does not tell. The width of the
offset that reaches iRODS (`int`) is `INT_LIMIT`.

### NfsTypes, Xdr, Errors and Rpc

`NfsTypes` lays out the structures of nfs.h and mount.h in memory, `Xdr` gives the
wire routines of xdr.c as descriptors with their sizes, `Errors` the tables of error.c.
`Rpc` sends a call through them: the dispatcher picks decoder, handler and encoder by
procedure number, decoding may fail after any routine, PREP may refuse the handle, the
handler fills some fields of a static result and leaves a status, and the reply is
encoded by status. `mem` says which call wrote each field last, and that the size in the
attributes of a READ that failed early was written by nobody. Replies are measured in
words against the buffers of the transports.

### Daemon

`main` from option parsing to the service loop, per instance: the pid file and its
lock, the ports, `pmap_unset` and `svc_register`, the fork, the signal handlers, and the
ways out (`daemon_exit`, a bare `exit`, a crash). The pid file may fail to open, to be locked,
written or removed, which is logged (`warned`) and not fatal; a transport may fail to bind, which
ends in `exit(1)`, or to be made, which ends in `daemon_exit`. Instances share the portmapper, the
ports and the pid file.

## What the runs check

| Run | Instance | States |
|---|---|---|
| FdCacheSafety | 3 files, 2 slots, 3 descriptors, 1 verifier value | 46,552 |
| FdCacheLiveness (`FairSpec`) | 2 files, 2 slots, 2 descriptors, time-outs 1 and 3 | 21,840 |
| FhCacheSafety | 4 objects (one root, one export point), 3 slots, clock modulo 4 | 942,502 |
| MountSafety | 2 hosts, 2 directories (one with a password, one removable), 3 nonces, 2 mounts | 50,344 |
| MirrorSafety | 2 names, one of which the shell cuts to the other | 74,117 |
| RequestSafety (`FairSpec`) | 1 address bit, exports /a and /a/b, 3 versions of the file (one broken), server started as root and as a user, 2 credentials, 2 addresses, 2 passwords, 2 files | 542,224 |
| HandleSafety | 3 inodes and the root, hashes modulo 2, 2 names, one of them a user's number, handles of 2 components, public and private | 46,800 |
| ReadDirSafety (`FairSpec`) | 3 names of two lengths, at most 2 entries to a page, 3 changes, 4 epochs | 431,368 |
| RodsSafety | 4 users (the number of one begins another's, one has no name), 2 connections, writes of 2 bytes at offsets of which one passes the `int` limit, 6 configurations | 1,143,394 |
| RpcSafety (`RpcFairSpec`) | 2 calls, reads of 1 to 200,000 words, lists of 0, 1 and 40 | 78,738 |
| DaemonSafety (`FairSpec`) | 3 instances (two that compete for the mount port, one with one port for both), 3 starts | 63,544 |
| MirrorReadOnly | as MirrorSafety; violates `ReadOnlyKept` | |

All but the last hold. What they show:

* **FdCacheSafety**: `EntriesDistinct`, `DescriptorsAccounted`, `PromisesHeld`,
  `NoSilentLoss` over writes, failing opens and syncs, full tables, sweeps, purges,
  crashes; and the refinement `KeepsContract`.
* **FdCacheLiveness**: `IdleDescriptorsClosed`, `OldErrorsDropped`.
* **FhCacheSafety**: `EntriesUnique`, `HitPathKept` (with a clock that wraps),
  `AttributesOwn`.
* **MountSafety**: `CountMatches`, `OtpUsedOnce` with late and repeated requests.
* **MirrorSafety**: `Coherent`, and the action property `DataSurvives`.
* **RequestSafety**: `OptionsMatch`, `ActsAsCaller`,
  `OldPasswordRefused`, `AccessClass`, and that every request is `Answered`.
* **HandleSafety**: `Resolvable`, `MadeAlike`, `NeverAnother`, `BruteForceFinds`,
  and the action property `PublicLeads`.
* **ReadDirSafety**: `Complete`, `PagesJoin`, `ListingEnds`.
* **RodsSafety**: `ConnectionsReturned`, `SameFile`, `DataAgree`, `OnlyHandlesObject`.
* **RpcSafety**: `ReplyOfThisCall`, `RepliesFit`, `Answered`, over all procedures of
  both programs.
* **DaemonSafety**: `Advertised`, `StartsUp`.
* **MirrorReadOnly**: CREATE, REMOVE and RMDIR reach iRODS on a read-only export, which
  unfsd.8:291-293 excludes (PROJECT.json, "findings").

Bounds. `FD_ENTRIES`: two slots hold an open and a pending entry side by
side, and the third file meets a full table. One verifier value is enough for the
safety run, whose history records that the verifier was regenerated and not what
came out. `CACHE_ENTRIES`: three is the smallest table in
which the last returned entry, the slot the LRU search picks and the slot that is never
handed out differ. `UINT_RANGE = 4` lets the clock wrap while entries are in use.
`MaxMounts = 2` allows repeated mounts; three nonces allow the race of
doc/passwords.txt plus one renewal. Two names are enough for RENAME and
for one name's failure to meet the other's success. The time-outs keep their order
(`INACTIVE_TIMEOUT < PENDING_ERROR_TIMEOUT`), which is all the code compares.
Requests: nested exports make the longest match differ from the first, one address bit
tells two hosts and a network apart, and three versions of the file give a reload that
changes options and password and one that fails. Handles: with hashes modulo 2 two of
three inodes always collide, on one level or along one path; paths of two components
have an inner one, and longer ones do not fit a handle. ReadDir: three names need two
pages at least, the sizes asked for give pages of no, one and two entries, and one above
`MaxCount`; `CookieEpochs` exceeds `MaxChanges`, as 2^32 exceeds what happens
between two pages. Rods: two connections are the one a request opens and one that READ
has kept; with objects of up to two bytes and writes of two a write may be whole, short or
missing on either side, and pass the `int` limit; the file lies in the user's directory or
further down in one that has another user's directory in its path. The object that RodsRead
reads has two bytes and is asked for one at a time; counts of two show the short answer that is
taken for the end as well. Rpc: two calls are a
call and the one whose result it might show; the read counts lie on both sides of the
limits of both transports. Daemon: three starts are a server, one that crashed before it,
and one that disturbs it.

Deadlock is checked in all runs but RpcSafety and DaemonSafety, whose bounds on
calls and starts make them end.

Fairness. FdCache: the loop always comes round to the sweep, because `select` returns
after a second and a batch of requests is finite (weak fairness of `svc_run_again` and of
the sweep), and time passes (weak fairness of `Tick`). Requests and Rpc: the server goes on with the
request it has begun (weak fairness of `Serve`). In FdCache, Requests and Rpc this assumes that
what a handler waits for returns: it is one thread, which blocks on the local file system and on
its calls to iRODS, for which the code sets no time-out. SIGHUP and new requests are not fair.
ReadDir: the client goes on asking, looks the directory up again when its handle has become
stale (weak fairness of `LOOKUP`) and goes on with its cookie, and not every listing of iRODS
breaks off; the page of a whole collection is strongly fair, because each page may leave a stale
handle, in which no page is possible until the next LOOKUP. Daemon: `main` runs on
(weak fairness of each instance's `main`); crashes, signals and other starts need not happen.
Nowhere is a failure or a recovery assumed to come.

What the properties leave out, by intent:

* `AttributesOwn` leaves out roots and export points: for an export point `fh_decomp` marks
  the stat cache valid without filling it (fh_cache.c:227-228, the lstat is commented out).
* `ActsAsCaller` speaks of user and group, and not of the auxiliary groups.
* `AccessClass`: the run has no directory, so that of DELETE only the theorem says something.
* `Answered` of Requests accepts a server that a request has ended.
* `NeverAnother` cannot tell an inode number that is used again from the object it was.
* `ConnectionsReturned` counts the connections READ keeps; that they last is not claimed.
* `StartsUp` leaves out starts in which fork or the RPC library has no memory.
* `DataAgree` speaks of WRITEs done in full on both sides, `SameFile` of a user's own requests
  and of when the others miss, `OptionsMatch` and what rests on it of paths that are not mere
  siblings of an exported directory, `OldPasswordRefused` of the first handle. What the code does
  in the other cases is below.

## Statements the code does not keep

Each of these properties is what a document or a comment of the repository says; TLC answers
its configuration with a behaviour of the code that violates it. The first is the run
MirrorReadOnly and the finding of PROJECT.json; the others are run by hand, as
`tlc -config RodsWrite.cfg MCRods`.

| Configuration | Property | Said in | What TLC shows |
|---|---|---|---|
| MirrorReadOnly, MCMirror | `ReadOnlyKept` | unfsd.8:291-293, "clients are not allowed to modify files and directories on the server" | CREATE, REMOVE or RMDIR changes the collection of a read-only export |
| MirrorListing, MCMirror | `NoPhantoms` | rodscapi.c:150-151, "creates empty files with the same name" | an object whose name the shell cuts at a space gets a local entry of another name |
| MirrorRmdir, MCMirror | `EmptyRemoved` | rodscapi.c:289-292, "Removes an empty collection" | an RMDIR answered OK takes the contents of the collection along: READDIR left the mirror of it empty |
| MirrorRename, MCMirror | `RenameAtomic` | nfs.c:1196, "The operation is required to be atomic to the client" | a RENAME answered OK was done in the mirror and not in iRODS |
| HandlePrivate, MCHandles | `PrivateLeads` | unfsd.8:153-155, a handle becomes stale when its file is renamed | with private collections, the default, CREATE gives a handle without the user's directory, and its hashes do not lead to the object |
| RequestReload, MCRequests | `ReferencesKept` | exports.y:724, "protect against SIGHUP reloading the list" | a SIGHUP outside the walk frees the list that the request's path or `export_path` is a part of, and the request goes on to read it |
| RequestSibling, MCRequests | `SiblingsRefused` | unfsd.8:222-223, the exports file "determines which directories on the server can be accessed" | with /a exported and /ab not, a request for /ab gets the options of /a |
| RequestRename, MCRequests | `SecondHandleRefused` | unfsd.8:333, "all clients will need to remount this export" | a RENAME whose second handle has the hash of the old password is let through |
| RodsPaths, MCRods | `OwnObject` | rodscapi.c:870, "Translates a local path to the iRODS path" | another user's request works on the file in the mirror and not on its object, or the other way round |
| RodsRead, MCRods | `SizeTrue`, `ReadsInOrder` | README.md:7, "users can access and change iRODS directories as if they were local ones" | READ tells the length of the piece, or what was in memory, as the size; reading on gives the beginning again if iRODS does not take the offset from the call, and a short answer is taken for the end if it does |
| RodsWrite, MCRods | `WriteReaches` | the same, and rodscapi.c:769-770 | a WRITE is answered OK with a count of bytes of which the object has fewer, or none |
| RodsMode, MCRods | `ModeShown` | README.md:14 lists chmod | after the owner's SETATTR the listing gives the file the mode of a user it is shared with |

## What is proved

The proofs hold for any number of files, slots, descriptors, objects, inodes, hosts,
nonces, names, calls, instances and ports, for trees of any depth and any hash, and for
directories, lists and pages of any size, from the assumptions named in the modules
(finiteness or non-emptiness of tables, distinctness of the "no value" constants, more
epochs than changes). Every invariant of the passing runs, the action property
`DataSurvives` and the refinement `KeepsContract` are theorems.

* FdCacheProofs. The inductive invariant is the conjunction of `TypeOK`,
  `EntriesDistinct`, `DescriptorsAccounted`, `PromisesHeld`, `NoSilentLoss` and
  `ReplyHonest`: each needs the others (`PromisesHeld` needs that `fd_close` finds
  the right entry, which is `EntriesDistinct`; `NoSilentLoss` needs `PromisesHeld` so
  that a failing sync has an entry to leave its error in). `CacheImplementsContract`
  is the refinement of WriteContract: one lemma per action shows the abstract step
  or stutter it maps to, from the same invariant.
* FhCacheProofs. `HitPathKept` is strengthened by: while a request may still add
  entries, the slot a hit returned is `fh_last_entry`, which `fh_cache_lru` never
  answers (`HitProtected`); and, as long as slots are handed out in order, the ones
  not handed out are empty and `fh_last_entry` is not among them (`Fresh`,
  `LastHandedOut`), which `EntriesUnique` needs too because `fh_cache_index` does
  not search them. `AttributesOwn` needs that the stat cache describes the operand
  about to be answered (`StatOfOperand`).
* MirrorProofs. `TypeOK` and `Coherent` are inductive together, for any names and any `Word`; the
  action property `DataSurvives` follows step by step.
* ReadDirProofs. `PagesJoin` needs that, while nothing changes, the client's cookie stands
  where its entries end (`InStep`); lemmas give the shape of a page (`PageShape`: a
  beginning of the rest of the listing, and the end is reported if and only if it is all
  of it) and what pieces of sequences join to. `Complete` needs that every name that
  stayed and lies before the cookie has been returned (`Behind`), which additions
  keep because they move names away from the start only and removals keep because no
  cookie of an earlier epoch is taken at its word (`Epochs`). The types (a cookie never
  points behind the end of what a directory can hold) need that no name is listed twice,
  which insertions and removals keep (`Injective`).
* HandlesProofs. The inductive invariant (`HandlesInv`) says that the tree is one: entries
  lie in directories that exist, names in a directory differ, and every object has a
  distance from the root (`Acyclic`), which `RenameTree` gives anew to all that a moved
  directory carries along; and that each handle is the export point's or has the hashes of
  the inodes passed when it was made (`Made`). The four properties follow from it in each
  state. The searches are recursive functions of the depth; `RecDef`, `LocDef` and `ChainDef`
  show that these functions exist and what one level computes from the next, and each
  induction over the depth is an argument about the least level at which the claim fails
  (`Least`, `Induct`), because the induction theorems of the library cannot be used. `SearchSound`
  gives `NeverAnother` for both searches. For `Resolvable` the induction goes from the object
  upwards: at each level the entry on the way has the hash the handle asks for, so `fh_rec`
  descends into it, whatever collides with it. `MadeAlike` is that a path of names passes the
  chain of the object it leads to (`WalkChain`). `ExtensionInPlace` is why handles lead in public
  exports: what is extended from a handle in place is in place.
* DaemonProofs, Rpc. `ReplyOfThisCall` is about memory: a handler writes the failure arm by way
  of `resok`, so the encoder reads the right field only if the two arms of the union lie
  over each other. `SizeofIs` computes the sizes of all structures, `CellsMeet` shows that
  two arms of which one begins like the other share the cells of exactly the fields with the
  same place, and `LaidOut` that the results of all 22 procedures are of this kind, so that `ShownIs`:
  the encoder shows the field of the name. With `HandlersFill` (every way through every handler
  writes all fields of the arm its status selects, which needs `ErrsBad`: no error routine
  returns NFS3_OK) the invariant is only that the results of procedures which are not
  supported stay zero (`ReplyInv`). `RepliesFit` needs the longest form of every type
  on the wire (`WordsAre`), that a reply without its data has at most 320 words
  (`ReplyWordsBound`), and what READ and READDIR add (`ExtraBound`).
* DaemonProofs, Mount. `OtpUsedOnce` needs that every nonce that authenticated was
  generated before, and a new nonce never was. `CountMatches` needs that what
  `remove_mount` leaves is as long as the set of entries that stay (`UnmountCounted`).
* DaemonProofs, Daemon. `Advertised` needs that only an instance that has just opened the
  pid file holds its lock (`LockHeld`), that while one runs alone all others are off
  (`OthersOff`), and what is registered at each place of `main` on the way (`OnTheWay`).
* RodsProofs. One inductive invariant carries the four properties of RodsSafety. A procedure
  is a plan of steps; `Planning` says which step may follow which, and what the connection
  must have become before each, which is what `Counting` needs. The other parts say that
  the arguments and the translated paths stay what they were (`Arguments`, `Translated`),
  which descriptor SETATTR holds (`Holding`), and that file and object differ by exactly
  the piece a WRITE is about to bring to iRODS (`Agreement`, `HalfWritten`).
  `SameFile` rests on lemmas about pieces of sequences: a user's own directory is in the path of
  the file, so `strstr` finds it, and a directory that is put in front gives another path.
  `ModeRoundTrip` is about the operators alone: which modes the way through an access level keeps.
* RequestsProofs. `OptionsMatch` says that the loop of `exports_options`, which keeps the
  longest match so far and goes on, has at its end what the declarative reading of the
  exports file grants. Its loop invariant is `Searching`: after n items the globals hold
  the first matching host of the first of the longest matching lines among the first n
  (`Round` is one iteration, `Start` and `End` the two ends; `FindHost` shows that the
  masked comparison of `find_host` finds the host the file means). That needs `Listed`: the
  list is the one of the file as last read, and nobody replaces it under a search. The walk
  compares characters and the reference goes by directories: the two agree on paths that are
  not mere siblings of an exported directory (`IsApart`). `ActsAsCaller` and `OldPasswordRefused` follow from `OptionsMatch` at
  the moment PREP admits a request (`Admitted`), and from the fact that nothing changes
  the identity from there to the reply but `Elevate` (`AtWorkFrom`). `AccessClass` needs
  in addition that the globals are still those of PREP when ACCESS looks at the file
  (`BeforeAccess`) and who a server is that cannot switch (`Identity`).

The parts of the invariants of Rods and Requests were checked by TLC on the instances of
the runs before they were proved. The proofs led to assumptions that say what was only true
of the instances: the lines of an exports file are what the grammar makes of them (`ExportFilesAssumption`:
addresses within `AddrBits`, an item's path not empty), the empty password hashes to 0, as
in `clear_host` (`ExportsAssumption`), a credential has at most the 32
groups `switch_groups` copies (`RequestsAssumption`; the protocol allows 16), and in Rods
that uids and names contain no slash (`Plain`). They also showed that a network with address
bits beyond its mask matches no client, which `Concerns` now says,
and that the path of an export that is removable for all hosts may hold "." and "..",
because `add_item` (exports.y) only removes its superfluous slashes: the history of a handle
extended from there is therefore the way its path takes, and such a handle is not in place
where `Resolvable` and `MadeAlike` speak of handles in place. `HandleInPlace` shows that
a handle made from a path of names always is.

Only model-checked:

* the action property `PublicLeads` (its step `ExtensionInPlace` is a theorem);
* the liveness properties (`IdleDescriptorsClosed`, `OldErrorsDropped`, `ListingEnds`,
  `StartsUp` and `Answered` of Requests and of Rpc): fairness and ENABLED are out of reach of
  the prover.

## What the models say about the code

Besides the statements above, modelling showed behaviours that a maintainer should know. They
are part of the models, and the properties are stated so that they do not exclude them:

* A regenerated write verifier may equal the old one: it is an array of char, of
  which `regenerate_write_verifier` sets two (daemon.c:839).
* A path resolved by a miss is not protected by `fh_last_entry`; once the LRU clock has
  wrapped, the next addition in the same request may overwrite it. `HitPathKept` is about hits.
* A handle of a root or an export point leaves the previous request's attributes in the
  stat cache; `AttributesOwn` leaves these handles out.
* Every MNT with `@otp:`, also one that fails, replaces the nonce, so that of two
  clients that fetched a nonce the second to mount has to fetch another
  (doc/passwords.txt describes the race). `OtpUsedOnce` assumes that nonces do not repeat.
* MNT of a removable export whose device is absent looks at the options of the request
  before it.
* RMDIR removes a collection with its contents, even when it answers with an error, and RMDIR
  of "." the directory itself.
* `fd_open` does not look at the option removable: descriptors of such exports are
  cached like any others.
* The handle of a removable export that is withdrawn has no components, and the
  search then resolves it to "/"; `NeverAnother` speaks of exports that are in force.
* The generation in a handle is the inode number, so an inode that is used again for
  another object is not noticed.
* READ keeps its iRODS connection; `ConnectionsReturned` counts those separately.
* The translation of paths reads `export_path`, which a RENAME into a directory that is not
  exported leaves unset: the server then ends through its handler of SIGSEGV.
* A second start that fails after its options unregisters the services of the server
  that runs and removes its pid file, because it leaves through `daemon_exit`; a
  failure to bind leaves through `exit(1)` and keeps its registrations. `Advertised`
  therefore speaks of servers that run alone.
* A UMNT with a mount command in front of the path matches no entry (mount.c:268), since
  `add_mount` stores the bare path.
* Names that vanish from a collection without the server's doing shift the positions
  in cookies: a listing under way may skip an entry. `Complete` leaves this out.

## Not modelled

* y.tab.c and lex.yy.c are generated from exports.y and exports.l; `Exports` models
  the actions of the grammar, on lines given as parsed.
* The cluster extensions are compiled out; winsupport.c is not part of the
  Unix build; md5.c and json.c are third-party libraries; the C++ wrapper of the iRODS
  API is not called; the contributed clients are separate programs (the one-time
  password client appears as `SendOtp`).
* How genQuery assembles a query, and functions of rodscapi.c without a caller.
* `directory_hash`, whose result nobody checks; times and owners as values; the details
  of `parse_options`; hit statistics and logging.

## Plan

1. Done: all components above; the proofs of all safety properties, of the refinement of
   WriteContract and of the type invariants.
2. Composition: FdCache with Mount, so that the flush at the last unmount is one step of
   both; Mirror with ReadDir, so that the order of a listing comes from the mirror.
3. Liveness proofs, when a prover for fairness and ENABLED is at hand; the invariants they
   would start from are those above.
