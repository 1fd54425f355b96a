------------------------------- MODULE Mirror -------------------------------
(***************************************************************************)
(* One directory served by nfs.c: the local directory that mirrors it and  *)
(* the iRODS collection it stands for.                                     *)
(*                                                                         *)
(* The server is one thread, so a procedure is one step; but each          *)
(* procedure works twice, on the local mirror and (through                 *)
(* irodsapi/rodscapi.c) on iRODS, and either half may fail by itself.      *)
(* READDIR removes the mirror with all that is below it and fills it again *)
(* from iRODS with blank files and directories, the files through an       *)
(* unquoted shell command; other iRODS clients change the collection       *)
(* behind the server's back.                                               *)
(*                                                                         *)
(* The local file system and the iRODS server are external: what they may  *)
(* do to a name is modelled from how the procedures call them, and any     *)
(* call may fail.  Renames between directories, and who makes the          *)
(* directory itself again once it was removed, are outside the model.      *)
(***************************************************************************)

CONSTANTS
    Names,    \* names in the directory that cat_name accepts, but "." and ".."
    Word      \* name -> the name under which the shell opens it

\* full: a file holds the clients' data, a directory has entries.
None == [kind |-> "none", full |-> FALSE]
EmptyFile == [kind |-> "file", full |-> FALSE]
FullFile == [kind |-> "file", full |-> TRUE]
EmptyDir == [kind |-> "dir", full |-> FALSE]
FullDir == [kind |-> "dir", full |-> TRUE]
Object == {None, EmptyFile, FullFile, EmptyDir, FullDir}

VARIABLES
    local,     \* the mirror: name -> Object
    rods,      \* the iRODS collection: name -> Object
    rw,        \* the export has the option "rw"
    fresh,     \* the clients' handle of the directory resolves
    suspect,   \* history: names of which one side alone was changed, or
               \* that the last listing may have got wrong
    reply      \* the procedure just served, the name it was given, the result

vars == <<local, rods, rw, fresh, suspect, reply>>

Procedures == {"NONE", "CREATE", "MKDIR", "REMOVE", "RMDIR", "RENAME", "READDIR",
               "LOOKUP", "ACCESS", "WRITE", "SETATTR", "STALE", "EXIT"}

\* The name in a reply when cat_name refused the one in the request, when the
\* request was about the directory itself, about something in a subdirectory
\* and about the directory above.
BadName == "bad_name"
Self == "self"
Below == "below"
Above == "above"
NoNames == {BadName, Self, Below, Above}

\* The shell opens nothing, or something outside the directory.
Nowhere == "nowhere"

ASSUME NamesAssumption == Names \cap (NoNames \cup {Nowhere}) = {}
ASSUME WordAssumption == Word \in [Names -> Names \cup {Nowhere}]

Answer(op, n, ok) == reply' = [op |-> op, name |-> n, ok |-> ok]

Init ==
    /\ local = [n \in Names |-> None]
    /\ rods \in [Names -> {None, FullFile, FullDir}]
    /\ rw \in BOOLEAN
    /\ fresh = TRUE
    /\ suspect = Names
    /\ reply = [op |-> "NONE", name |-> Self, ok |-> TRUE]

----------------------------------------------------------------------------
(* Calls to iRODS: done says whether the call succeeded. *)

\* Mutant: the object is created with the force flag.
CreateForced(n, done) ==
    IF done THEN /\ rods[n].kind # "dir"
                 /\ rods' = [rods EXCEPT ![n] = EmptyFile]
            ELSE rods' = rods

\* Without the force flag iRODS creates no object where one exists.
createFile(n, done) ==
    IF done THEN /\ rods[n] = None
                 /\ rods' = [rods EXCEPT ![n] = EmptyFile]
            ELSE rods' = rods

makeCollection(n, done) ==
    IF done THEN \/ /\ rods[n] = None
                    /\ rods' = [rods EXCEPT ![n] = EmptyDir]
                 \/ rods[n].kind = "dir" /\ rods' = rods
            ELSE rods' = rods

removeObj(n, done) ==
    IF done THEN /\ rods[n].kind = "file"
                 /\ rods' = [rods EXCEPT ![n] = None]
            ELSE rods' = rods

\* Recursive and forced: the contents go first, and a failure may come after.
removeCollection(n, done) ==
    IF done THEN /\ rods[n].kind = "dir"
                 /\ rods' = [rods EXCEPT ![n] = None]
            ELSE \/ rods' = rods
                 \/ /\ rods[n].kind = "dir"
                    /\ rods' = [rods EXCEPT ![n] = EmptyDir]

\* Mutant: source and destination are swapped.
RenameSwapped(des, src, done) ==
    IF done THEN /\ rods[des] # None /\ rods[src] = None
                 /\ rods' = [rods EXCEPT ![src] = rods[des], ![des] = None]
            ELSE rods' = rods

\* iRODS renames nothing onto an existing object.
renameFile(des, src, done) ==
    IF done THEN /\ rods[src] # None /\ rods[des] = None
                 /\ rods' = [rods EXCEPT ![des] = rods[src], ![src] = None]
            ELSE rods' = rods

iWrite(n, done) ==
    IF done THEN /\ rods[n].kind = "file"
                 /\ rods' = [rods EXCEPT ![n] = FullFile]
            ELSE rods' = rods

----------------------------------------------------------------------------
(* Calls to the local file system *)

SetLocal(n, o) == local' = [local EXCEPT ![n] = o]

is_reg(n) == local[n].kind = "file"

\* The download with the force flag replaces a local file; if it breaks off the
\* file is left as it was or cut short.
getFile(n, done) ==
    IF done THEN rods[n].kind = "file" /\ is_reg(n) /\ SetLocal(n, rods[n])
            ELSE local' = local \/ (is_reg(n) /\ SetLocal(n, EmptyFile))

\* open(O_CREAT | O_TRUNC), with O_EXCL unless the mode is UNCHECKED
CanCreate(n, mode) ==
    local[n] = None \/ (mode = "UNCHECKED" /\ local[n].kind = "file")

\* remove() of the C library also removes an empty directory.
CanRemove(n) == local[n].kind = "file" \/ local[n] = EmptyDir

\* rename() replaces a file by a file and an empty directory by a directory.
CanRename(from, to) ==
    /\ local[from] # None
    /\ \/ local[to] = None
       \/ local[from].kind = "file" /\ local[to].kind = "file"
       \/ local[from].kind = "dir" /\ local[to] = EmptyDir
       \/ from = to

Renamed(from, to) ==
    IF from = to THEN local
    ELSE [local EXCEPT ![to] = local[from], ![from] = None]

\* set_attr of size 0.  What it sets after the size may still fail.
set_attr(n) == is_reg(n) /\ SetLocal(n, EmptyFile)

----------------------------------------------------------------------------
(* The procedures of nfs.c *)

\* History: the local half of a procedure on n was done, and the iRODS half.
Trust(n, here, there) ==
    suspect' = IF here /\ there THEN suspect \ {n}
               ELSE IF here \/ there THEN suspect \cup {n} ELSE suspect

exports_rw == rw

\* Every procedure starts with PREP: fh_decomp finds no path for the handle of
\* a directory that READDIR made anew, or of anything in it.
PREP == fresh

PREPRefuses ==
    /\ ~PREP
    /\ Answer("STALE", Self, FALSE)
    /\ UNCHANGED <<local, rods, rw, fresh, suspect>>

\* CREATE: the local open only if every check passed; createFile whatever
\* happened before.  The reply is about the local half alone.  With EXCLUSIVE
\* whatever has the name and the times of the verifier counts as created, a
\* directory too.
CREATE(n, mode) ==
    /\ PREP
    /\ \E made, ok, done \in BOOLEAN :
         /\ IF made THEN exports_rw /\ CanCreate(n, mode) /\ SetLocal(n, EmptyFile)
                    ELSE local' = local
         /\ ok => made \/ (exports_rw /\ mode = "EXCLUSIVE" /\ local[n] # None)
         /\ createFile(n, done)
         /\ Answer("CREATE", n, ok)
         /\ Trust(n, made, done)
    /\ UNCHANGED <<rw, fresh>>

\* MKDIR calls makeCollection whether or not the local mkdir worked.
MKDIR(n) ==
    /\ PREP
    /\ \/ \E ok, done \in BOOLEAN :
            /\ exports_rw
            /\ IF ok THEN local[n] = None /\ SetLocal(n, EmptyDir) ELSE local' = local
            /\ makeCollection(n, done)
            /\ Answer("MKDIR", n, ok)
            /\ Trust(n, ok, done)
       \/ /\ Answer("MKDIR", n, FALSE)
          /\ UNCHANGED <<local, rods, suspect>>
    /\ UNCHANGED <<rw, fresh>>

\* REMOVE and RMDIR: the local half only if the export is rw, the iRODS half
\* always.
REMOVE(n) ==
    /\ PREP
    /\ \E ok, done \in BOOLEAN :
         /\ IF ok THEN exports_rw /\ CanRemove(n) /\ SetLocal(n, None) ELSE local' = local
         /\ removeObj(n, done)
         /\ Answer("REMOVE", n, ok)
         /\ Trust(n, ok, done)
    /\ UNCHANGED <<rw, fresh>>

RMDIR(n) ==
    /\ PREP
    /\ \E ok, done \in BOOLEAN :
         /\ IF ok THEN exports_rw /\ local[n] = EmptyDir /\ SetLocal(n, None)
                  ELSE local' = local
         /\ removeCollection(n, done)
         /\ Answer("RMDIR", n, ok)
         /\ Trust(n, ok, done)
    /\ UNCHANGED <<rw, fresh>>

\* cat_name turns "." into the directory and ".." into the one above, so RMDIR
\* of either, like RMDIR of the directory in the one above or of a buffer that
\* nobody filled (StrayName), may remove the collection with all its members,
\* or some of them before it fails.  The mirror goes only if it is empty.
RmdirSelf ==
    /\ \E at \in {Self, BadName}, ok, done \in BOOLEAN, gone \in SUBSET Names :
         /\ ok => at = Self /\ exports_rw /\ \A n \in Names : local[n] = None
         /\ done => gone = Names
         /\ rods' = [n \in Names |-> IF n \in gone THEN None ELSE rods[n]]
         /\ fresh' = (fresh /\ ~ok)
         /\ suspect' = IF ok /\ done THEN {} ELSE suspect \cup gone
         /\ Answer("RMDIR", at, ok)
    /\ UNCHANGED <<local, rw>>

\* When cat_name refuses the name, CREATE, REMOVE and RMDIR still call iRODS,
\* with a path buffer nobody filled: it may hold the path of any earlier
\* request, or nothing iRODS finds.
StrayName ==
    /\ PREP
    /\ \E n \in Names, op \in {"CREATE", "REMOVE", "RMDIR"}, done \in BOOLEAN :
         /\ CASE op = "CREATE" -> createFile(n, done)
              [] op = "REMOVE" -> removeObj(n, done)
              [] op = "RMDIR" -> removeCollection(n, done)
         /\ Answer(op, BadName, FALSE)
         /\ Trust(n, FALSE, done)
    /\ UNCHANGED <<local, rw, fresh>>

\* RENAME: iRODS first.  Error codes of iRODS are not -1, so only a failure of
\* the local rename is reported.
RENAME(from, to) ==
    /\ PREP
    /\ \/ \E ok, done \in BOOLEAN :
            /\ exports_rw
            /\ renameFile(to, from, done)
            /\ IF ok THEN CanRename(from, to) /\ local' = Renamed(from, to)
                     ELSE local' = local
            /\ Answer("RENAME", to, ok)
            /\ suspect' = IF ok /\ done
                          THEN (suspect \ {from, to}) \cup
                               {to : n \in suspect \cap {from}}
                          ELSE IF ok \/ done THEN suspect \cup {from, to}
                          ELSE suspect
       \/ /\ Answer("RENAME", to, FALSE)
          /\ UNCHANGED <<local, rods, suspect>>
    /\ UNCHANGED <<rw, fresh>>

\* removedirectoryrecursively looks at no result: an entry may stay, a
\* directory emptied or not.
Leftovers ==
    {left \in [Names -> Object] :
        \A n \in Names : \/ left[n] \in {None, local[n]}
                         \/ local[n] = FullDir /\ left[n] = EmptyDir}

\* Where the entry of the collection member m is made: a directory by mkdir, a
\* file by a shell that is given the unquoted path.
Place(m) == IF rods[m].kind = "file" THEN Word[m] ELSE m

Blank(o) == IF o.kind = "file" THEN EmptyFile ELSE EmptyDir

\* The mirror is removed, made again, and gets a blank entry for every
\* collection member listed.  Where something is left, or two members have one
\* place, the first stays.
listCollection(listed, left) ==
    /\ local' \in [Names -> Object]
    /\ \A n \in Names :
         LET makers == {m \in listed : Place(m) = n}
         IN  IF left[n] # None \/ makers = {}
             THEN \/ local'[n] = left[n]
                  \/ left[n].kind = "file" /\ makers # {} /\ local'[n] = EmptyFile
             ELSE \E m \in makers : local'[n] = Blank(rods[m])

\* What a listing may have got wrong: members that were not listed, entries that
\* were left, members whose entry has another name and what has that name.
Doubtful(listed, left) ==
    {n \in Names : \/ n \notin listed /\ rods[n] # None
                  \/ left[n] # None
                  \/ \E m \in listed : Place(m) # m /\ n \in {m, Place(m)}}

\* A directory that could be removed is made again, and the new one may or may
\* not have the inode of the old one.
Remade(left) == fresh' \in (IF \E n \in Names : left[n] # None THEN {fresh} ELSE BOOLEAN)

\* READDIR.  The listing may end early (iRODS fails, an entry cannot be made
\* locally): nobody looks at its result, and the reply is OK as long as the
\* mirror can be opened.
READDIR ==
    /\ PREP
    /\ \E listed \in SUBSET {n \in Names : rods[n] # None}, left \in Leftovers,
         ok \in BOOLEAN :
         /\ listCollection(listed, left)
         /\ Remade(left)
         /\ suspect' = Doubtful(listed, left)
         /\ Answer("READDIR", Self, ok)
    /\ UNCHANGED <<rods, rw>>

\* READDIR of a directory above wipes this one with the rest.
ReaddirAbove ==
    /\ local' \in Leftovers
    /\ Remade(local')
    /\ suspect' = Doubtful({}, local')
    /\ Answer("READDIR", Above, TRUE)
    /\ UNCHANGED <<rods, rw>>

\* stat of the wiped mirror fails, and the server exits; it is started again.
ReaddirExits ==
    /\ PREP
    /\ local' \in Leftovers
    /\ Remade(local')
    /\ suspect' = Doubtful({}, local')
    /\ Answer("EXIT", Self, FALSE)
    /\ UNCHANGED <<rods, rw>>

\* READDIR of the subdirectory n: what is below it is replaced by what iRODS
\* lists, which is nothing if iRODS fails.
ReaddirBelow(n) ==
    /\ PREP /\ local[n].kind = "dir"
    /\ \/ SetLocal(n, EmptyDir)
       \/ rods[n] = FullDir /\ SetLocal(n, FullDir)
    /\ Answer("READDIR", n, TRUE)
    /\ UNCHANGED <<rods, rw, fresh, suspect>>

\* REMOVE or RMDIR inside the subdirectory n: each side may lose its last entry.
RemoveBelow(n) ==
    /\ PREP /\ local[n].kind = "dir"
    /\ \E op \in {"REMOVE", "RMDIR"}, ok \in BOOLEAN :
         /\ \/ local' = local
            \/ ok /\ exports_rw /\ SetLocal(n, EmptyDir)
         /\ \/ rods' = rods
            \/ rods[n].kind = "dir" /\ rods' = [rods EXCEPT ![n] = EmptyDir]
         /\ Answer(op, Below, ok)
    /\ UNCHANGED <<rw, fresh, suspect>>

\* CREATE inside the subdirectory n.
CreateBelow(n) ==
    /\ PREP /\ local[n].kind = "dir"
    /\ \E ok, done \in BOOLEAN :
         /\ IF ok THEN exports_rw /\ SetLocal(n, FullDir)
                  ELSE local' = local
         /\ IF done THEN rods[n].kind = "dir" /\ rods' = [rods EXCEPT ![n] = FullDir]
                    ELSE rods' = rods
         /\ Answer("CREATE", Below, ok)
    /\ UNCHANGED <<rw, fresh, suspect>>

\* LOOKUP of the directory itself in its parent gives the client its new handle
\* (once it is there again, if it had been removed).
LOOKUP ==
    /\ ~PREP
    /\ fresh' = TRUE
    /\ Answer("LOOKUP", Self, TRUE)
    /\ UNCHANGED <<local, rods, rw, suspect>>

\* ACCESS downloads the object over the local file.
ACCESS(n) ==
    /\ PREP /\ local[n] # None
    /\ \E done \in BOOLEAN : getFile(n, done)
    /\ Answer("ACCESS", n, TRUE)
    /\ UNCHANGED <<rods, rw, fresh, suspect>>

\* WRITE: nothing if the export is read-only or the local file cannot be
\* opened; otherwise both sides are written and the reply is about the local one.
WRITE(n) ==
    /\ PREP /\ local[n] # None
    /\ \/ \E ok, done \in BOOLEAN :
            /\ exports_rw /\ is_reg(n)
            /\ IF ok THEN SetLocal(n, FullFile) ELSE local' = local
            /\ iWrite(n, done)
            /\ Answer("WRITE", n, ok)
       \/ /\ Answer("WRITE", n, FALSE)
          /\ UNCHANGED <<local, rods>>
    /\ UNCHANGED <<rw, fresh, suspect>>

\* SETATTR of the size truncates the local file and leaves iRODS alone; other
\* attributes do not show here.  The reply is an error if the user is unknown,
\* after the file was truncated.
SETATTR(n) ==
    /\ PREP /\ local[n] # None
    /\ \E ok \in BOOLEAN :
         /\ \/ exports_rw /\ set_attr(n)
            \/ (ok => exports_rw) /\ local' = local
         /\ Answer("SETATTR", n, ok)
    /\ UNCHANGED <<rods, rw, fresh, suspect>>

\* Another iRODS client changes a member of the collection.
Outsider(n) ==
    /\ \E o \in {None, FullFile, EmptyDir, FullDir} :
         rods' = [rods EXCEPT ![n] = o]
    /\ suspect' = suspect \cup {n}
    /\ Answer("NONE", n, TRUE)
    /\ UNCHANGED <<local, rw, fresh>>

\* The administrator edits the export and sends SIGHUP.
Reload ==
    /\ rw' = ~rw
    /\ Answer("NONE", Self, TRUE)
    /\ UNCHANGED <<local, rods, fresh, suspect>>

Next ==
    \/ \E n \in Names :
         \/ REMOVE(n) \/ RMDIR(n) \/ MKDIR(n)
         \/ \E mode \in {"UNCHECKED", "GUARDED", "EXCLUSIVE"} : CREATE(n, mode)
         \/ \E to \in Names : RENAME(n, to)
         \/ ReaddirBelow(n) \/ CreateBelow(n) \/ RemoveBelow(n)
         \/ ACCESS(n) \/ WRITE(n) \/ SETATTR(n)
         \/ Outsider(n)
    \/ PREPRefuses \/ READDIR \/ ReaddirAbove \/ ReaddirExits
    \/ LOOKUP \/ Reload \/ RmdirSelf \/ StrayName

Spec == Init /\ [][Next]_vars

----------------------------------------------------------------------------
(* Properties *)

\* Types of the variables; what does not exist is not full (Object).
TypeOK ==
    /\ local \in [Names -> Object]
    /\ rods \in [Names -> Object]
    /\ rw \in BOOLEAN
    /\ fresh \in BOOLEAN
    /\ suspect \subseteq Names
    /\ reply \in [op : Procedures, name : Names \cup NoNames, ok : BOOLEAN]

\* The two sides drift apart only through a half-done procedure, a faulty
\* listing or another iRODS client: a name exists locally and in iRODS as the
\* same kind of object unless, since both sides were last changed together or
\* listed, one half alone of a procedure on it was done (whatever the client was
\* told: most procedures of nfs.c drop the status of iRODS), a listing left it
\* out, or out of place, or beside an entry that could not be wiped, or an
\* outsider changed it.  Downloads, writes, truncations, retried creates and
\* whatever happens below a subdirectory are no reason.
Coherent == \A n \in Names : n \notin suspect => local[n].kind = rods[n].kind

\* The listing "creates a local folder with the same directories, and creates
\* empty files with the same name" (listCollection): right after a READDIR the
\* mirror, which LOOKUP and GETATTR answer from, has no name that iRODS does not
\* have.
NoPhantoms ==
    (reply.op = "READDIR" /\ reply.name = Self /\ reply.ok) =>
        \A n \in Names : local[n] # None => local[n].kind = rods[n].kind

\* The clients' data in iRODS, file contents and members of collections, is given
\* up by a request to remove it and by nothing else: no listing, truncation,
\* exclusive or repeated CREATE, download or rename onto an existing object
\* destroys it, and REMOVE never takes a collection nor RMDIR of a name a file.
\* A RENAME moves it.
DataKept(n) ==
    rods[n].full /\ rods'[n] # rods[n] =>
        \/ reply'.op = "NONE" /\ reply'.name = n
        \/ /\ reply'.op = "REMOVE"
           /\ reply'.name \in (IF rods[n].kind = "file" THEN {n, BadName} ELSE {Below})
        \/ /\ reply'.op = "RMDIR"
           /\ reply'.name \in {Self, BadName} \cup
                              (IF rods[n].kind = "dir" THEN {n, Below} ELSE {})
        \/ /\ reply'.op = "RENAME" /\ reply'.name # n
           /\ rods'[reply'.name] = rods[n]

DataSurvives == [][\A n \in Names : DataKept(n)]_vars

\* "clients are not allowed to modify files and directories on the server"
\* (option ro): the procedures leave the collection of a read-only export alone.
ReadOnlyKept == [][~rw /\ reply'.op # "NONE" => rods' = rods]_vars

\* removeCollection "removes an empty collection": when RMDIR of a name is
\* answered with OK, and the sides agreed on it before, no contents went with it.
EmptyRemoved ==
    [][\A n \in Names \ suspect :
          reply'.op = "RMDIR" /\ reply'.name = n /\ reply'.ok =>
              (rods[n] = FullDir => rods'[n] = FullDir)]_vars

\* RENAME "is required to be atomic to the client": where the two sides agreed it
\* is done on both or on none.
RenameAtomic ==
    [][suspect = {} /\ reply'.op = "RENAME" => (local' = local <=> rods' = rods)]_vars
=============================================================================
