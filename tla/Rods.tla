-------------------------------- MODULE Rods --------------------------------
(***************************************************************************)
(* The procedures of nfs.c at work on one file and its iRODS object: paths  *)
(* are translated, a connection to iRODS is opened for the request, logged  *)
(* in, used and closed (irodsapi/rodscapi.c), and the mirror is changed     *)
(* before that.  iRODS may refuse a connection, a login or a call at any    *)
(* time, or do a part of what it is asked; between any two steps another    *)
(* iRODS client may change the object, and a local process may put another  *)
(* file in the place of the mirror's.                                       *)
(*                                                                         *)
(* One file is followed, that of user Me.  Its handle may be used by other   *)
(* users of the client's machine, too; their requests go where the           *)
(* translation of the path leads them.  iRODS and its client library are    *)
(* external.                                                                *)
(***************************************************************************)
EXTENDS Attr, SequencesExt

CONSTANTS
    Uids,         \* user numbers, as sequences of digits
    UserNames,    \* uid -> name, for those in the password file
    Me,           \* the user whose file is followed
    MaxConns,     \* connections iRODS accepts from the server
    INT_LIMIT,    \* offsets that fit the int offset of iWrite: 2^31 in the code
    Counts,       \* bytes READ asks for
    Offsets,      \* offsets of WRITE
    Lens,         \* bytes it writes
    AttrSets,     \* sets of "size", "owner", "mode" and "times" SETATTR is to set
    Modes,        \* modes it is to set
    Inos,         \* numbers of inodes
    MaxSize,      \* bound: bytes other iRODS clients put in the object
    MaxOutside,   \* bound: changes they make
    MaxRead,      \* bound: bytes a client reads
    export_path,           \* the path of the export, as characters
    Leftovers,             \* what may be in memory behind a path
    Configurations,        \* [private, pub, honours, dir, ops]
    opt_readable_executables

Ops == {"GETATTR", "SETATTR", "ACCESS", "READ", "WRITE", "READDIR", "OTHER"}

\* A user's number, and a login name, is a file name.
Plain(name) == name \in Seq(STRING) /\ \A i \in 1..Len(name) : name[i] # "/"

ASSUME RodsAssumption ==
    /\ DOMAIN UserNames \subseteq Uids /\ Me \in DOMAIN UserNames
    /\ \A u \in Uids : Plain(u)
    /\ \A u \in DOMAIN UserNames : Plain(UserNames[u])
    /\ Inos # {}
    /\ {MaxConns, INT_LIMIT, MaxSize, MaxOutside, MaxRead} \subseteq Nat /\ INT_LIMIT > 0
    /\ Counts \cup Offsets \cup Lens \subseteq Nat
    /\ Modes \subseteq Mode
    /\ export_path \in Seq(STRING) /\ Leftovers \subseteq Seq(STRING)
    /\ \A c \in Configurations : c.ops \subseteq Ops /\ c.dir \in Seq(STRING)
    /\ opt_readable_executables \in BOOLEAN

VARIABLES
    conf,      \* private: use_private_collection of the configuration file, FALSE
               \* if there is none; pub: the export's path contains "public";
               \* honours: iRODS reads at the offset of the call, not at the
               \* position of the open object; dir: where the file is below the
               \* user's directory; ops: the procedures clients call
    conns,     \* connections open
    obj,       \* the object: [there, data, acl, shared], shared being the access
               \* levels of other users
    mir,       \* the file in the mirror: [there, ino, kind, mode, data]
    req,       \* the request being served, or NoReq
    reply,     \* the last reply, until the next request
    reader,    \* a client reading the file from the start: [got, eof]
    kept,      \* history: connections READ has left open
    agree,     \* history: file and object were made equal, and since then only
               \* WRITE changed them, on both sides
    quiet,     \* history: the object has not changed since the reader began
    shown,     \* history: [asked: the last mode SETATTR brought to iRODS, if it
               \* still counts; listed: the file is as READDIR made it, and
               \* iRODS told a mode]
    touched,   \* history: [ino, attr, by] the present SETATTR has set in the mirror
    outside    \* changes by other iRODS clients

hist == <<kept, agree, quiet, shown, touched, outside>>
vars == <<conf, conns, obj, mir, req, reply, reader, hist>>

----------------------------------------------------------------------------
(* Paths: what follows the export's path, as characters *)

Slash == <<"/">>
File == <<"/", "f">>

isPublic == conf.pub \/ ~conf.private

\* Mutant: the user's directory is put in front again.
AlwaysInFront(path, uid) == IF isPublic THEN path ELSE Slash \o uid \o path

\* t is in s, anywhere
strstr(s, t) == \E i \in 0..Len(s) : IsPrefix(t, SubSeq(s, i + 1, Len(s)))

\* The directory of the user in the mirror is named by the user's number; it is
\* put in front of a path in which it is nowhere to be found.
InPath(path, uid) == strstr(export_path \o path, export_path \o Slash \o uid)

getRealPathNFS(path, uid) ==
    IF isPublic \/ InPath(path, uid) THEN path ELSE Slash \o uid \o path

\* As many characters as the user's number has are cut off, which leads beyond
\* the end of a path that is shorter.
getIRODSpathGetAttr(path, uid) ==
    IF isPublic THEN {path}
    ELSE IF Len(path) > Len(uid) THEN {SubSeq(path, Len(uid) + 2, Len(path))}
    ELSE Leftovers

getUserName(uid) == IF uid \in DOMAIN UserNames THEN UserNames[uid] ELSE <<>>

getRodsPath(uid, path) ==
    Slash \o (IF isPublic THEN <<"public">> ELSE getUserName(uid)) \o path

\* The file followed: where Me's requests find it.
DirPath == (IF isPublic THEN <<>> ELSE Slash \o Me) \o conf.dir
MirrorPath == DirPath \o File
ObjectPath == Slash \o (IF isPublic THEN <<"public">> ELSE UserNames[Me]) \o conf.dir \o File

----------------------------------------------------------------------------
(* Requests *)

\* These take the handle's path to iRODS, the others the mirror's.
Untranslated == {"GETATTR", "READ", "READDIR"}

\* The path of the handle.  READDIR is given that of the file's directory, or of the
\* export's root; what counts is the entry for the file it may make.
HandlePath(op, arg) ==
    IF op # "READDIR" THEN MirrorPath ELSE IF arg.root THEN <<>> ELSE DirPath
EntryOf(op) == IF op = "READDIR" THEN File ELSE <<>>

RealPath(op, uid, arg) == getRealPathNFS(HandlePath(op, arg), uid) \o EntryOf(op)

RodsPaths(op, uid, arg) ==
    {getRodsPath(uid, path) \o EntryOf(op) :
        path \in getIRODSpathGetAttr(
            IF op \in Untranslated THEN HandlePath(op, arg)
            ELSE getRealPathNFS(MirrorPath, uid), uid)}

\* The steps of each procedure; SETATTR's are found on the way.
Steps(op) ==
    CASE op = "GETATTR" -> <<"connect", "login", "fileSize", "disconnect", "done">>
      [] op = "SETATTR" -> <<"set_attr">>
      [] op = "ACCESS"  -> <<"connect", "login", "getFile", "disconnect", "done">>
      [] op = "READ"    -> <<"connect", "login", "read">>
      [] op = "WRITE"   -> <<"pwrite", "connect", "login", "iWrite", "disconnect", "close">>
      [] op = "READDIR" -> <<"connect", "login", "listCollection", "disconnect", "done">>
      [] op = "OTHER"   -> <<"connect", "login", "call", "disconnect", "done">>

NoReq == [op |-> "NONE"]
NoReply == [op |-> "NONE", status |-> "OK", size |-> 0, seen |-> {}, here |-> FALSE, ino |-> 0,
            attr |-> NoAttr]

At(step) == req # NoReq /\ Head(req.todo) = step
Then(r) == req' = [r EXCEPT !.todo = Tail(@)]
Done == Then(req)

OnMirror == req.real = MirrorPath
OnObject == req.rods = ObjectPath

Stat == IF mir.there THEN {[kind |-> mir.kind, mode |-> mir.mode, ino |-> mir.ino,
                            size |-> Len(mir.data)]} ELSE {}

\* The object's size
Size == IF OnObject /\ obj.there THEN {Len(obj.data)} ELSE {}

\* The reply of r.  size is the size it tells, or the number of bytes WRITE tells;
\* seen is a history: the object's size then, if there is one, or the number of
\* bytes WRITE has put in their place in the object.  here: it was about the file.
Answer(r, status, size, seen) ==
    reply' = [op |-> r.op, status |-> status, size |-> size, seen |-> seen, ino |-> r.ino,
              here |-> r.real = MirrorPath /\ r.rods = ObjectPath,
              attr |-> IF r.real = MirrorPath
                       THEN get_post_ll(Stat, r.ino, opt_readable_executables) ELSE NoAttr]

Finish(status, size, seen) == req' = NoReq /\ Answer(req, status, size, seen)

Args(op) ==
    CASE op = "READ" -> [offset : {Len(reader.got)}, count : Counts]
      [] op = "WRITE" -> [offset : Offsets, len : Lens]
      [] op = "READDIR" -> [root : BOOLEAN]
      [] op = "SETATTR" -> [set : {a \in AttrSets : "mode" \in a}, mode : Modes]
                            \cup [set : {a \in AttrSets : "mode" \notin a}]
      [] OTHER -> {<<>>}

Request(op, uid, arg, rods) ==
    [op |-> op, uid |-> uid, real |-> RealPath(op, uid, arg), rods |-> rods,
     todo |-> Steps(op), arg |-> arg, ino |-> mir.ino, fd |-> 0, comm |-> "null", status |-> "OK",
     size |-> 0, seen |-> {}]

\* PREP has resolved the handle: the file is there, or the directory.
Begin(op, uid, arg, rods) ==
    /\ req = NoReq
    /\ rods \in RodsPaths(op, uid, arg)
    /\ mir.there \/ op \in {"READDIR", "OTHER"}
    /\ op = "READ" => uid = Me /\ ~reader.eof /\ Len(reader.got) < MaxRead
    /\ touched' = {}
    /\ \/ /\ op \in {"GETATTR", "READ", "WRITE"} => mir.kind = "reg"
          /\ req' = Request(op, uid, arg, rods) /\ reply' = NoReply
       \/ \* a read-only export
          /\ op \in {"SETATTR", "WRITE"}
          /\ Answer(Request(op, uid, arg, rods), "ROFS", 0, {}) /\ UNCHANGED req
       \/ \* is_reg; READ tells a size all the same
          /\ op \in {"READ", "WRITE"} /\ mir.kind # "reg"
          /\ \E junk \in 0..MaxSize : Answer(Request(op, uid, arg, rods), "INVAL", junk, {})
          /\ UNCHANGED req
       \/ \* iRODS is not asked for the size
          /\ op = "GETATTR" /\ mir.kind # "reg"
          /\ Answer(Request(op, uid, arg, rods), "OK", Len(mir.data), {}) /\ UNCHANGED req
    /\ UNCHANGED <<conf, conns, obj, mir, reader, kept, agree, quiet, shown, outside>>

----------------------------------------------------------------------------
(* Connections *)

\* The process dies and is started again.  iRODS closes its connections.
Dies ==
    /\ req' = NoReq /\ reply' = NoReply /\ conns' = 0 /\ kept' = 0 /\ agree' = FALSE
    /\ touched' = {}
    /\ UNCHANGED <<conf, obj, mir, reader, quiet, shown, outside>>

\* iRODS may refuse.  The name of a user who has none is a string constant, and it
\* is freed: the process may die of it.
rodsConnecUser ==
    /\ At("connect")
    /\ \/ /\ \/ conns < MaxConns /\ conns' = conns + 1 /\ Then([req EXCEPT !.comm = "open"])
             \/ Then([req EXCEPT !.comm = "null"]) /\ UNCHANGED conns
          /\ touched' = {}
          /\ UNCHANGED <<conf, obj, mir, reply, reader, kept, agree, quiet, shown, outside>>
       \/ conf.private /\ req.uid \notin DOMAIN UserNames /\ Dies

\* Mutant: a connection that could not be logged in is only forgotten.
LoginForgets ==
    /\ At("login")
    /\ \E ok \in BOOLEAN : Then([req EXCEPT !.comm = IF @ = "open" /\ ok THEN "in" ELSE "freed"])
    /\ UNCHANGED <<conf, conns, obj, mir, reply, reader, hist>>

\* A failed login disconnects, and the handlers go on with the connection.
rodsLogin ==
    /\ At("login")
    /\ \/ req.comm = "null" /\ Done /\ UNCHANGED conns
       \/ req.comm = "open" /\ Then([req EXCEPT !.comm = "in"]) /\ UNCHANGED conns
       \/ req.comm = "open" /\ Then([req EXCEPT !.comm = "freed"]) /\ conns' = conns - 1
    /\ UNCHANGED <<conf, obj, mir, reply, reader, hist>>

\* A connection freed by the failed login is freed again: the process may die of it.
rcDisconnect ==
    /\ At("disconnect")
    /\ \/ /\ conns' = IF req.comm = "in" THEN conns - 1 ELSE conns
          /\ Then([req EXCEPT !.comm = "closed"])
          /\ UNCHANGED <<conf, obj, mir, reply, reader, hist>>
       \/ req.comm = "freed" /\ Dies

\* A call of iRODS may be answered, and one that is given a freed connection may
\* be the end of the process.
Answers == req.comm = "in"

CallDies ==
    /\ req # NoReq /\ req.comm = "freed"
    /\ Head(req.todo) \in {"fileSize", "getFile", "read", "iWrite", "changeAttr", "listCollection", "call"}
    /\ Dies

----------------------------------------------------------------------------
(* Calls to iRODS.  Any may fail; the handlers look at no status but READ's. *)

\* The size of the object, 0 if it cannot be opened.
fileSize ==
    /\ At("fileSize")
    /\ \/ /\ Answers /\ OnObject /\ obj.there
          /\ Then([req EXCEPT !.size = Len(obj.data), !.seen = Size])
       \/ Then([req EXCEPT !.seen = Size])
    /\ UNCHANGED <<conf, conns, obj, mir, reply, reader, hist>>

\* The download replaces the contents of the local file, and may break off.
getFile ==
    /\ At("getFile")
    /\ \/ /\ Answers /\ OnObject /\ OnMirror /\ obj.there /\ mir.there
          /\ mir' = [mir EXCEPT !.data = obj.data]
          /\ agree' = TRUE
       \/ /\ Answers /\ OnObject /\ OnMirror /\ obj.there /\ mir.there
          /\ \E n \in 0..Len(obj.data) : mir' = [mir EXCEPT !.data = SubSeq(obj.data, 1, n)]
          /\ agree' = FALSE
       \/ /\ Answers /\ ~OnObject /\ OnMirror /\ mir.there
          /\ mir' = [mir EXCEPT !.data = <<"x">>]
          /\ agree' = FALSE
       \/ UNCHANGED <<mir, agree>>
    /\ Done
    /\ UNCHANGED <<conf, conns, obj, reply, reader, kept, quiet, shown, touched, outside>>

AtEof(bytes, count) == bytes < count

\* Bytes at the call's offset, or at the position of the newly opened object: as
\* many as asked for, or fewer.
rcDataObjRead(data, offset, count) ==
    LET from == IF conf.honours THEN offset ELSE 0
    IN  {SubSeq(data, from + 1, to) :
            to \in {i \in 1..Len(data) : from < i /\ i <= from + count}}

\* READ does not seek, and leaves the connection open.  No bytes are an error, at the
\* end of the file as well.  The size it tells is the number of bytes; if there are
\* none, what rcDataObjRead returned, or whatever was there before.
READ ==
    /\ At("read")
    /\ \/ /\ Answers /\ OnObject /\ obj.there
          /\ \E got \in rcDataObjRead(obj.data, req.arg.offset, req.arg.count) :
               /\ Finish("OK", Len(got), Size)
               /\ reader' = [got |-> reader.got \o got, eof |-> AtEof(Len(got), req.arg.count)]
       \/ /\ \E junk \in 0..MaxSize : Finish("ERR", junk, Size)
          /\ UNCHANGED reader
    /\ kept' = IF req.comm = "in" THEN kept + 1 ELSE kept
    /\ UNCHANGED <<conf, conns, obj, mir, agree, quiet, shown, touched, outside>>

\* data with n bytes written at offset, holes filled
Put(data, offset, n) ==
    [i \in 1..(IF offset + n > Len(data) THEN offset + n ELSE Len(data)) |->
        IF offset < i /\ i <= offset + n THEN "w" ELSE IF i <= Len(data) THEN data[i] ELSE "0"]

\* fd_open and pwrite: the file may not open, which ends the request, or not be
\* written, or not in full, which does not.
pwrite ==
    /\ At("pwrite")
    /\ \/ Finish("ERR", 0, {}) /\ UNCHANGED <<mir, agree>>
       \/ /\ OnMirror /\ mir.there
          /\ \E n \in 1..req.arg.len :
               /\ mir' = [mir EXCEPT !.data = Put(@, req.arg.offset, n)]
               /\ agree' = (agree /\ OnObject /\ n = req.arg.len)
               /\ Then([req EXCEPT !.size = n])
          /\ UNCHANGED reply
       \/ /\ ~OnMirror /\ \E n \in 1..req.arg.len : Then([req EXCEPT !.size = n])
          /\ UNCHANGED <<mir, agree, reply>>
       \/ /\ Then([req EXCEPT !.status = "ERR"])
          /\ agree' = (agree /\ ~OnMirror /\ ~OnObject)
          /\ UNCHANGED <<mir, reply>>
    /\ UNCHANGED <<conf, conns, obj, reader, kept, quiet, shown, touched, outside>>

\* Mutant: the data go to the end of the object, as in testWrite.
AtTheEnd(offset) == Len(obj.data)

\* The offset iWrite is given is an int.
IntOffset(offset) == ((offset + INT_LIMIT) % (2 * INT_LIMIT)) - INT_LIMIT

\* Open, seek, write, close; the write may be short.
iWrite ==
    /\ At("iWrite")
    /\ \/ /\ Answers /\ OnObject /\ obj.there /\ IntOffset(req.arg.offset) >= 0
          /\ \E n \in 1..req.arg.len :
               /\ obj' = [obj EXCEPT !.data = Put(@, IntOffset(req.arg.offset), n)]
               /\ agree' = (agree /\ OnMirror /\ req.arg.offset < INT_LIMIT /\ n = req.arg.len)
               /\ Then([req EXCEPT !.seen = IF req.arg.offset < INT_LIMIT THEN {n} ELSE {}])
          /\ quiet' = FALSE
       \/ /\ agree' = (agree /\ ~OnMirror)
          /\ Done
          /\ UNCHANGED <<obj, quiet>>
    /\ UNCHANGED <<conf, conns, mir, reply, reader, kept, shown, touched, outside>>

\* Of the rows for all users with access the query yields the first one's level,
\* and of none whatever was in the result before.  The query may fail.
fileMode ==
    LET rows == obj.shared \cup ({obj.acl} \ {"null"})
    IN  (IF rows = {} THEN Levels ELSE rows) \cup {"failed"}

\* The directory READDIR lists is one the file is in, at whatever depth.
Above == IsPrefix(SubSeq(req.real, 1, Len(req.real) - Len(File)) \o Slash, MirrorPath)

\* The mirror's directory is removed with all that is in it and filled again, as far
\* as that can be done; a listed object becomes a file that holds a blank line.  It
\* is the end of the process if the directory cannot be examined, and may be if
\* nobody has access to an object.
listCollection ==
    /\ At("listCollection")
    /\ \/ /\ OnMirror /\ OnObject /\ Answers /\ obj.there
          /\ \E level \in fileMode, i \in Inos :
               /\ mir' = [there |-> TRUE, ino |-> i, kind |-> "reg", mode |-> ModeOf(level),
                          data |-> <<" ">>]
               /\ shown' = [shown EXCEPT !.listed = level # "failed"]
          /\ agree' = FALSE
          /\ Done /\ UNCHANGED <<conf, conns, obj, reply, reader, kept, quiet, touched, outside>>
       \/ /\ Above
          /\ mir' = [mir EXCEPT !.there = FALSE]
          /\ agree' = FALSE
          /\ Done /\ UNCHANGED <<conf, conns, obj, reply, reader, kept, quiet, shown, touched, outside>>
       \/ /\ Done /\ UNCHANGED <<conf, conns, obj, mir, reply, reader, hist>>
       \/ Dies

\* A call of CREATE, LOOKUP, MKDIR, REMOVE, RMDIR or RENAME about another name
OtherCall ==
    /\ At("call")
    /\ Done
    /\ UNCHANGED <<conf, conns, obj, mir, reply, reader, hist>>

\* The replies of the procedures that look at nothing more.
Reply ==
    /\ \/ At("done") /\ Finish(req.status, req.size, req.seen)
       \/ At("close") /\ \E s \in {req.status, "ERR"} : Finish(s, req.size, req.seen)
    /\ UNCHANGED <<conf, conns, obj, mir, reader, hist>>

----------------------------------------------------------------------------
(* SETATTR *)

\* The mirror's part ends; iRODS is told in any case.
Local(status) ==
    req' = [req EXCEPT !.status = status, !.fd = 0,
                       !.todo = <<"connect", "login", "changeAttr", "disconnect", "done">>]

SettingOf(attr) == IF attr \in req.arg.set THEN <<attr>> ELSE <<>>
Settings == SettingOf("size") \o SettingOf("owner") \o SettingOf("mode")

\* lstat; no device is opened, and what cannot be opened is treated by its path
SetAttrOpens ==
    /\ At("set_attr") /\ OnMirror
    /\ \/ ~mir.there /\ Local("STALE")
       \/ /\ mir.there /\ mir.kind = "reg"
          /\ req' = [req EXCEPT !.fd = mir.ino, !.todo = <<"fstat">>]
       \/ mir.there /\ req' = [req EXCEPT !.todo = <<"unsafe">>]
    /\ UNCHANGED <<conf, conns, obj, mir, reply, reader, hist>>

SetAttrElsewhere ==
    /\ At("set_attr") /\ ~OnMirror
    /\ \E status \in {"OK", "STALE", "ERR"} : Local(status)
    /\ UNCHANGED <<conf, conns, obj, mir, reply, reader, hist>>

\* Mutant: what was opened is believed to be the handle's object.
RaceUnchecked(ino) == TRUE

\* check local fs race
IsHandles(ino) == ino = req.ino

SetAttrChecks ==
    /\ \/ /\ At("fstat")
          /\ \/ Local("STALE")
             \/ /\ IsHandles(req.fd)
                /\ req' = [req EXCEPT !.todo = Settings \o <<"closefd", "times">>]
       \/ /\ At("unsafe")
          /\ \/ ~mir.there /\ Local("STALE")
             \/ mir.there /\ ~IsHandles(mir.ino) /\ Local("STALE")
             \/ /\ mir.there /\ IsHandles(mir.ino)
                /\ req' = [req EXCEPT !.fd = 0, !.todo = Settings \o <<"times">>]
    /\ UNCHANGED <<conf, conns, obj, mir, reply, reader, hist>>

\* Sets one attribute of the open file, or of what is at the path.
SetOne(attr) ==
    LET byPath == req.fd = 0 \/ attr = "times"
        target == IF byPath THEN mir.ino ELSE req.fd
    IN  /\ byPath => mir.there
        /\ touched' = touched \cup {[ino |-> target, attr |-> attr, by |-> IF byPath THEN "path" ELSE "fd"]}
        /\ mir' = IF ~mir.there \/ target # mir.ino THEN mir
                  ELSE [mir EXCEPT !.data = IF attr = "size" THEN <<>> ELSE @,
                                   !.mode = IF attr = "mode" THEN req.arg.mode ELSE @]
        /\ agree' = (agree /\ attr # "size")
        /\ shown' = [shown EXCEPT !.listed = FALSE]

SetAttrSets ==
    /\ \E attr \in {"size", "owner", "mode"} :
         /\ At(attr)
         /\ \/ SetOne(attr) /\ Done
            \/ Local("ERR") /\ UNCHANGED <<mir, touched, agree, shown>>
    /\ UNCHANGED <<conf, conns, obj, reply, reader, kept, quiet, outside>>

SetAttrCloses ==
    /\ At("closefd")
    /\ Done \/ Local("ERR")
    /\ UNCHANGED <<conf, conns, obj, mir, reply, reader, hist>>

set_time ==
    /\ At("times")
    /\ \/ "times" \notin req.arg.set /\ Local("OK") /\ UNCHANGED <<mir, touched, agree, shown>>
       \/ "times" \in req.arg.set /\ SetOne("times") /\ Local("OK")
       \/ "times" \in req.arg.set /\ Local("ERR") /\ UNCHANGED <<mir, touched, agree, shown>>
    /\ UNCHANGED <<conf, conns, obj, reply, reader, kept, quiet, outside>>

\* set_attr_irods: a mode together with a size or an owner is not passed on.
\* Without private collections there is no name to give the access level to.
changeAttr ==
    /\ At("changeAttr")
    /\ \/ /\ Answers /\ OnObject /\ obj.there
          /\ conf.private /\ req.uid \in DOMAIN UserNames
          /\ "mode" \in req.arg.set /\ {"size", "owner"} \cap req.arg.set = {}
          /\ obj' = [obj EXCEPT !.acl = AccessLevel(req.arg.mode)]
          /\ shown' = [asked |-> {req.arg.mode}, listed |-> FALSE]
          /\ Done
       \/ /\ UNCHANGED <<obj, shown>>
          /\ Then([req EXCEPT !.status = IF conf.private /\ req.uid \notin DOMAIN UserNames
                                         THEN "PERM" ELSE @])
    /\ UNCHANGED <<conf, conns, mir, reply, reader, kept, agree, quiet, touched, outside>>

----------------------------------------------------------------------------
(* Surroundings *)

\* Another iRODS client replaces, removes or shares the object.
Outsider ==
    /\ outside < MaxOutside /\ outside' = outside + 1
    /\ \/ /\ \E n \in 0..MaxSize : obj' = [there |-> TRUE, data |-> [i \in 1..n |-> "o"], acl |-> "own",
                                         shared |-> {}]
          /\ agree' = FALSE /\ quiet' = FALSE /\ shown' = [asked |-> {}, listed |-> FALSE]
       \/ /\ obj.there /\ obj' = [obj EXCEPT !.there = FALSE]
          /\ agree' = FALSE /\ quiet' = FALSE /\ shown' = [asked |-> {}, listed |-> FALSE]
       \/ /\ obj.there /\ obj' = [obj EXCEPT !.shared = {"read"}]
          /\ UNCHANGED <<agree, quiet, shown>>
    /\ UNCHANGED <<conf, conns, mir, req, reply, reader, kept, touched>>

\* A local process puts something else in the file's place.
LocalProcess ==
    /\ mir.there /\ req.op = "SETATTR"
    /\ \E i \in Inos \ {mir.ino}, k \in {"reg", "dev"} :
         mir' = [there |-> TRUE, ino |-> i, kind |-> k, mode |-> <<6, 0, 0>>, data |-> <<"x">>]
    /\ agree' = FALSE /\ shown' = [shown EXCEPT !.listed = FALSE]
    /\ UNCHANGED <<conf, conns, obj, req, reply, reader, kept, quiet, touched, outside>>

\* The client reads the file again from the start.
ReadAgain ==
    /\ req = NoReq /\ reader.got # <<>>
    /\ reader' = [got |-> <<>>, eof |-> FALSE]
    /\ quiet' = TRUE
    /\ UNCHANGED <<conf, conns, obj, mir, req, reply, kept, agree, shown, touched, outside>>

Restart == Dies /\ kept > 0 /\ req = NoReq

Init ==
    /\ conf \in Configurations
    /\ conns = 0
    /\ obj = [there |-> TRUE, data |-> <<"o", "x">>, acl |-> "own", shared |-> {}]
    /\ mir = [there |-> FALSE, ino |-> CHOOSE i \in Inos : TRUE, kind |-> "reg", mode |-> <<0, 0, 0>>,
              data |-> <<>>]
    /\ req = NoReq
    /\ reply = NoReply
    /\ reader = [got |-> <<>>, eof |-> FALSE]
    /\ kept = 0 /\ agree = FALSE /\ quiet = TRUE /\ touched = {} /\ outside = 0
    /\ shown = [asked |-> {}, listed |-> FALSE]

Serve ==
    \/ rodsConnecUser \/ rodsLogin \/ rcDisconnect \/ CallDies
    \/ fileSize \/ getFile \/ READ \/ pwrite \/ iWrite \/ listCollection \/ OtherCall \/ Reply
    \/ SetAttrOpens \/ SetAttrElsewhere \/ SetAttrChecks \/ SetAttrSets \/ SetAttrCloses
    \/ set_time \/ changeAttr

Next ==
    \/ \E op \in conf.ops, uid \in Uids : \E arg \in Args(op) :
          \E rods \in RodsPaths(op, uid, arg) : Begin(op, uid, arg, rods)
    \/ Serve
    \/ Outsider \/ LocalProcess \/ ReadAgain \/ Restart

Spec == Init /\ [][Next]_vars

----------------------------------------------------------------------------
(* Properties *)

Reports == {"OK", "ERR", "STALE", "ROFS", "INVAL", "PERM"}

\* A request goes on to its last step, connections stay within what iRODS accepts.
TypeOK ==
    /\ conns \in 0..MaxConns /\ kept \in 0..MaxConns
    /\ obj.acl \in Levels /\ obj.shared \subseteq Levels \ {"null"}
    /\ mir.mode \in Mode /\ mir.ino \in Inos
    /\ req # NoReq => req.todo # <<>> /\ req.status \in Reports
    /\ reply.status \in Reports /\ reply.size \in Nat

\* Every procedure but READ gives its connection back, whatever fails on the way
\* and though a failed login has closed it already; each READ that got in keeps
\* one until the process ends.
ConnectionsReturned ==
    conns = kept + (IF req # NoReq /\ req.comm \in {"open", "in"} THEN 1 ELSE 0)

\* A user's own requests work on the file in the mirror and on its object, and so
\* do everybody's where collections are not private; an ACCESS, WRITE or SETATTR
\* that another user makes with the file's handle works on neither, unless the
\* path of that user's directory is somewhere in the file's.
SameFile ==
    /\ req # NoReq /\ (req.op = "READDIR" => ~req.arg.root)
    => /\ isPublic \/ req.uid = Me => OnMirror /\ OnObject
       /\ ~isPublic /\ req.op \notin Untranslated /\ ~InPath(MirrorPath, req.uid)
          => ~OnMirror /\ ~OnObject

\* rodscapi.c:870 says of getRodsPath that it "Translates a local path to the iRODS
\* path".  Whoever asks, with whatever handle: the file in the mirror and its object
\* are worked on together or not at all.
OwnObject == req # NoReq => (OnMirror <=> OnObject)

\* README.md:7: files are "as if they were local ones".  A client that asks for one
\* piece after the other of an object that does not change gets what is in it, and
\* is told of the end only there.
ReadsInOrder ==
    quiet /\ obj.there =>
        /\ IsPrefix(reader.got, obj.data)
        /\ reader.eof => reader.got = obj.data

\* README.md:7 again.  The size in the attributes that GETATTR and READ answer is that
\* of the object.
SizeTrue == reply.op \in {"GETATTR", "READ"} => \A size \in reply.seen : reply.size = size

\* README.md:7: users "change iRODS directories as if they were local ones", and
\* rodscapi.c:769-770 says of iWrite that it "writes up to len bytes, starting from a
\* given offset".  The bytes that a WRITE answered OK counts are in the object at
\* their place.
WriteReaches ==
    reply.op = "WRITE" /\ reply.status = "OK" /\ reply.here =>
        \E n \in reply.seen : n >= reply.size

\* Once an ACCESS has downloaded the whole object, file and object stay equal over
\* any number of WRITEs, other users' included, of which both halves are done in
\* full, at offsets below 2^31.  (WriteReaches is about the others.)
DataAgree == req = NoReq /\ agree => mir.data = obj.data

\* SETATTR changes size, owner and mode of no file but the handle's, even if a
\* local process puts another one in its place at any moment, as long as it could
\* open the file.
OnlyHandlesObject == req.op = "SETATTR" => \A t \in touched : t.by = "fd" => t.ino = req.ino

\* README.md:14 lists chmod among what is provided.  A mode set by SETATTR is what
\* READDIR gives the file later, as far as the owner's reading and writing goes: if
\* the owner may read or write at all, and neither the group nor others may write
\* without reading.
ModeShown ==
    \A mode \in shown.asked :
        /\ shown.listed /\ mir.there
        /\ mode[1] \notin {0, 1} /\ mode[2] \notin {2, 3} /\ mode[3] \notin {2, 3}
        => \A b \in {R, W} : Bit(mir.mode[1], b) <=> Bit(mode[1], b)
=============================================================================
