-------------------------------- MODULE Rpc --------------------------------
(***************************************************************************)
(* One request through the server: the dispatchers nfs3_program_3 and      *)
(* mountprog_3 of daemon.c, the XDR decoding of the arguments, the         *)
(* handler's static result structure, and the encoding of the reply.       *)
(*                                                                         *)
(* A handler is reduced to what it leaves in its result: the status, and   *)
(* the fields of resok it assigned.  mem says for every field of every     *)
(* static result which call wrote it last, so that a reply built from what *)
(* an earlier call (of another client, about another file) left behind can *)
(* be told from one that belongs to its request.                           *)
(***************************************************************************)
EXTENDS Xdr, Errors

CONSTANTS MaxCalls,          \* bound on the requests
          ReadCounts,        \* counts that READ requests ask for, in words
          ListLengths        \* entries of the mount list and the export list

ASSUME RpcAssumption == /\ MaxCalls \in Nat
                        /\ ReadCounts \subseteq Nat
                        /\ ListLengths \subseteq Nat

VARIABLES phase,             \* "idle", "decode", "handler", "reply"
          req,               \* the request being served
          todo,              \* XDR routines still to decode
          mem,               \* who wrote the fields of the static results
          status,            \* result.status
          answer,            \* what the client got for the last request
          calls              \* requests so far

rpcVars == <<phase, req, todo, mem, status, answer, calls>>

Zero  == 0                   \* zeroed: at start, or by the memset of PREP
Undef == -1                  \* at least in part of an uninitialised variable

(***************************************************************************)
(* The two dispatch tables, by procedure number from 0.                    *)
(***************************************************************************)
nfs3_program_3 ==
  <<"NULL", "GETATTR", "SETATTR", "LOOKUP", "ACCESS", "READLINK", "READ",
    "WRITE", "CREATE", "MKDIR", "SYMLINK", "MKNOD", "REMOVE", "RMDIR",
    "RENAME", "LINK", "READDIR", "READDIRPLUS", "FSSTAT", "FSINFO",
    "PATHCONF", "COMMIT">>

mountprog_3 == <<"NULL", "MNT", "DUMP", "UMNT", "UMNTALL", "EXPORT">>

Table == [nfs |-> nfs3_program_3, mount |-> mountprog_3]

Wire == [GETATTR |-> xdr_GETATTR3, SETATTR |-> xdr_SETATTR3,
         LOOKUP |-> xdr_LOOKUP3, ACCESS |-> xdr_ACCESS3,
         READLINK |-> xdr_READLINK3, READ |-> xdr_READ3, WRITE |-> xdr_WRITE3,
         CREATE |-> xdr_CREATE3, MKDIR |-> xdr_MKDIR3,
         SYMLINK |-> xdr_SYMLINK3, MKNOD |-> xdr_MKNOD3,
         REMOVE |-> xdr_REMOVE3, RMDIR |-> xdr_RMDIR3,
         RENAME |-> xdr_RENAME3, LINK |-> xdr_LINK3,
         READDIR |-> xdr_READDIR3, READDIRPLUS |-> xdr_READDIRPLUS3,
         FSSTAT |-> xdr_FSSTAT3, FSINFO |-> xdr_FSINFO3,
         PATHCONF |-> xdr_PATHCONF3, COMMIT |-> xdr_COMMIT3,
         MNT |-> xdr_mountres3]

NoRequest == [prog |-> "nfs", proc |-> "NULL", via |-> "tcp"]

NoAnswer == [kind |-> "none", words |-> 0]

AllZero == [p \in Procs |-> [f \in {g.name : g \in Range(Decl[p].resok)} |-> Zero]]

RpcInit == /\ phase = "idle"
        /\ req = NoRequest
        /\ todo = <<>>
        /\ mem = AllZero
        /\ status = nfsstat3.OK
        /\ answer = NoAnswer
        /\ calls = 0

(***************************************************************************)
(* A request arrives; an unknown procedure number is refused at once.      *)
(***************************************************************************)
Arguments(proc) ==
  CASE proc \in Procs -> Wire[proc].args
    [] proc = "UMNT"  -> xdr_mountres3.args
    [] OTHER          -> <<>>

Arrive ==
  /\ phase = "idle"
  /\ calls < MaxCalls
  /\ calls' = calls + 1
  /\ \E prog \in DOMAIN Table, via \in {"udp", "tcp"} :
       \E n \in 0 .. Len(Table[prog]) :
         IF n = Len(Table[prog])
         THEN /\ answer' = [kind |-> "noproc", words |-> 6]
              /\ UNCHANGED <<phase, req, todo>>
         ELSE /\ req' = [prog |-> prog, proc |-> Table[prog][n + 1], via |-> via]
              /\ LET a == Arguments(Table[prog][n + 1])
                 IN  todo' = [i \in DOMAIN a |-> a[i].type]
              /\ phase' = "decode"
              /\ answer' = NoAnswer
  /\ UNCHANGED <<mem, status>>

(***************************************************************************)
(* svc_getargs runs the routine of the arguments over the record that was  *)
(* received.  xdr_bool turns every word but zero into TRUE; an enum is     *)
(* taken as it comes.                                                      *)
(***************************************************************************)
Tags(r) == IF r.tag = "bool" THEN {0, 1} ELSE 0 .. Max(DOMAIN r.arms) + 1

Continue(s) == /\ todo' = s \o Tail(todo)
               /\ UNCHANGED <<phase, req, mem, status, answer, calls>>

(* Mutant: a failed decoding returns without an error reply. *)
DecodeUnanswered == /\ phase' = "idle"
                    /\ todo' = <<>>
                    /\ UNCHANGED <<req, mem, status, answer, calls>>

svcerr_decode == /\ phase' = "idle"
                 /\ todo' = <<>>
                 /\ answer' = [kind |-> "decode", words |-> 6]
                 /\ UNCHANGED <<req, mem, status, calls>>

Decode ==
  /\ phase = "decode"
  /\ todo # <<>>
  /\ LET r == Routine[Head(todo)]
     IN  \/ r.kind \in {"fixed", "counted"} /\ Continue(<<>>)
         \/ r.kind = "struct" /\ Continue(r.parts)
         \/ /\ r.kind = "union"
            /\ \E v \in Tags(r) :
                 IF v \in DOMAIN r.arms THEN Continue(r.arms[v])
                 ELSE IF r.default = "void" THEN Continue(<<>>)
                 ELSE svcerr_decode

(* The record is too short, or a counted field exceeds its limit.          *)
DecodeFails ==
  /\ phase = "decode"
  /\ todo # <<>>
  /\ Routine[Head(todo)].kind # "struct"
  /\ svcerr_decode

Decoded ==
  /\ phase = "decode"
  /\ todo = <<>>
  /\ phase' = "handler"
  /\ UNCHANGED <<req, todo, mem, status, answer, calls>>

(***************************************************************************)
(* What the handlers leave in their static results.                        *)
(***************************************************************************)
Leaves(s, fields) ==
  [status |-> s, writes |-> fields, torn |-> {}, copied |-> FALSE]

Errs(op(_)) == {op(e) : e \in DOMAIN errnos}

Failures(S) == S \ {nfsstat3.OK}

cat_name == {nfsstat3.OK, nfsstat3.STALE, nfsstat3.ACCES, nfsstat3.NAMETOOLONG}

exports_rw == {nfsstat3.OK, nfsstat3.ROFS}

is_reg == {nfsstat3.OK, nfsstat3.STALE, nfsstat3.INVAL}

atomic_attr == {nfsstat3.OK, nfsstat3.INVAL}

exports_compat == {nfsstat3.OK, nfsstat3.ACCES, nfsstat3.XDEV}

Joined(A, B) == {join(a, b) : a \in A, b \in B}

nfsproc3_getattr == {Leaves(nfsstat3.OK, {"obj_attributes"})}

nfsproc3_setattr ==
  {Leaves(s, {"obj_wcc"}) : s \in exports_rw \cup Errs(setattr_err)
                                  \cup {nfsstat3.STALE, nfsstat3.IO, nfsstat3.PERM}}

nfsproc3_lookup ==
  {Leaves(s, {"dir_attributes"}) : s \in Failures(cat_name) \cup Errs(lookup_err)}
  \cup {Leaves(nfsstat3.OK, {"object", "obj_attributes", "dir_attributes"})}

nfsproc3_access == {Leaves(nfsstat3.OK, {"access", "obj_attributes"})}

Unsupported == {Leaves(nfsstat3.NOTSUPP, {})}

(* The size in the attributes is bytesRead, which nobody has set when the  *)
(* object is no file or iRODS did not open it.                             *)
nfsproc3_read ==
  {Leaves(s, {"file_attributes"}) : s \in Errs(read_err)}
  \cup {[Leaves(s, {"file_attributes"}) EXCEPT !.torn = {"file_attributes"}] :
           s \in Failures(is_reg) \cup Errs(read_err)}
  \cup {Leaves(nfsstat3.OK, {"count", "data", "eof", "file_attributes"})}

nfsproc3_write ==
  {Leaves(s, {"file_wcc"}) : s \in Failures(Joined(is_reg, exports_rw))
                                   \cup Errs(write_open_err)
                                   \cup Errs(write_write_err)}
  \cup {Leaves(nfsstat3.OK, {"count", "committed", "verf", "file_wcc"})}

nfsproc3_create ==
  {Leaves(s, {"dir_wcc"}) :
      s \in Failures(Joined(Joined(cat_name, exports_rw), atomic_attr))
            \cup Errs(create_err) \cup {nfsstat3.IO, nfsstat3.EXIST}}
  \cup {Leaves(nfsstat3.OK, {"obj", "obj_attributes", "dir_wcc"})}

nfsproc3_mkdir ==
  {Leaves(s, {"dir_wcc"}) :
      s \in Failures({join3(a, b, c) : a \in cat_name, b \in atomic_attr,
                                       c \in exports_rw})
            \cup Errs(mkdir_err)}
  \cup {Leaves(nfsstat3.OK, {"obj", "obj_attributes", "dir_wcc"})}

nfsproc3_remove ==
  {Leaves(s, {"dir_wcc"}) : s \in Joined(cat_name, exports_rw) \cup Errs(remove_err)}

nfsproc3_rmdir ==
  {Leaves(s, {"dir_wcc"}) : s \in Joined(cat_name, exports_rw) \cup Errs(rmdir_err)}

nfsproc3_rename ==
  {Leaves(s, {"fromdir_wcc", "todir_wcc"}) :
      s \in Joined(cat_name, exports_rw) \cup Joined(cat_name, exports_compat)
            \cup Errs(rename_err)}

(* The whole result of read_dir is copied over the static one, also when   *)
(* it has only a status.                                                   *)
nfsproc3_readdir ==
  {[status |-> s, copied |-> TRUE, torn |-> {},
    writes |-> IF s = nfsstat3.OK THEN {"cookieverf", "reply", "dir_attributes"}
               ELSE {"dir_attributes"}] :
      s \in {nfsstat3.OK, nfsstat3.IO} \cup Errs(readdir_err)}

nfsproc3_fsstat ==
  {Leaves(nfsstat3.IO, {"obj_attributes"}),
   Leaves(nfsstat3.OK, {"obj_attributes", "tbytes", "fbytes", "abytes",
                        "tfiles", "ffiles", "afiles", "invarsec"})}

nfsproc3_fsinfo ==
  {Leaves(nfsstat3.OK, {"obj_attributes", "rtmax", "rtpref", "rtmult", "wtmax",
                        "wtpref", "wtmult", "dtpref", "maxfilesize",
                        "time_delta", "properties"})}

nfsproc3_pathconf ==
  {Leaves(nfsstat3.OK, {"obj_attributes", "linkmax", "name_max", "no_trunc",
                        "chown_restricted", "case_insensitive",
                        "case_preserving"})}

mountproc_mnt ==
  {Leaves(s, {}) : s \in {nfsstat3.INVAL, nfsstat3.IO, nfsstat3.NOENT,
                          nfsstat3.NAMETOOLONG, nfsstat3.ACCES, nfsstat3.NOTDIR}}
  \cup {Leaves(nfsstat3.OK, {"fhandle", "auth_flavors"})}

Handler ==
  [GETATTR |-> nfsproc3_getattr, SETATTR |-> nfsproc3_setattr,
   LOOKUP |-> nfsproc3_lookup, ACCESS |-> nfsproc3_access,
   READLINK |-> Unsupported, READ |-> nfsproc3_read, WRITE |-> nfsproc3_write,
   CREATE |-> nfsproc3_create, MKDIR |-> nfsproc3_mkdir,
   SYMLINK |-> Unsupported, MKNOD |-> Unsupported, REMOVE |-> nfsproc3_remove,
   RMDIR |-> nfsproc3_rmdir, RENAME |-> nfsproc3_rename, LINK |-> Unsupported,
   READDIR |-> nfsproc3_readdir, READDIRPLUS |-> Unsupported,
   FSSTAT |-> nfsproc3_fsstat, FSINFO |-> nfsproc3_fsinfo,
   PATHCONF |-> nfsproc3_pathconf, COMMIT |-> Unsupported,
   MNT |-> mountproc_mnt]

Prepares(p) == p \in Procs \ {"MNT"} /\ Handler[p] # Unsupported

(* Mutant: the static result is not zeroed. *)
PREPKeepsResult ==
  /\ phase = "handler"
  /\ Prepares(req.proc)
  /\ status' \in {nfsstat3.ACCES, nfsstat3.STALE}
  /\ phase' = "reply"
  /\ UNCHANGED <<req, todo, mem, answer, calls>>

(* PREP refuses a handle: the result is zeroed but for the status.         *)
PREP ==
  /\ phase = "handler"
  /\ Prepares(req.proc)
  /\ mem' = [mem EXCEPT ![req.proc] = AllZero[req.proc]]
  /\ status' \in {nfsstat3.ACCES, nfsstat3.STALE}
  /\ phase' = "reply"
  /\ UNCHANGED <<req, todo, answer, calls>>

Handle ==
  /\ phase = "handler"
  /\ req.proc \in Procs
  /\ \E o \in Handler[req.proc] :
       /\ status' = o.status
       /\ mem' = [mem EXCEPT ![req.proc] =
                    [f \in DOMAIN @ |-> IF f \in o.torn THEN Undef
                                        ELSE IF f \in o.writes THEN calls
                                        ELSE IF o.copied THEN Undef ELSE @[f]]]
  /\ phase' = "reply"
  /\ UNCHANGED <<req, todo, answer, calls>>

(* The procedures without a result structure: NULL, DUMP, UMNT, ...        *)
HandlePlain ==
  /\ phase = "handler"
  /\ req.proc \notin Procs
  /\ phase' = "reply"
  /\ status' = nfsstat3.OK
  /\ UNCHANGED <<req, todo, mem, answer, calls>>

(***************************************************************************)
(* svc_sendreply encodes the result.  Words a field may add to the fixed   *)
(* part: the data of READ, cut to the transport's maximum; the entries of  *)
(* READDIR, cut to 4096 bytes; the lists of the mount protocol, uncut.     *)
(***************************************************************************)
NFS_MAXDATA_TCP    == 524288 \div 4
NFS_MAXDATA_UDP    == 32768 \div 4
NFS_MAX_UDP_PACKET == NFS_MAXDATA_UDP + 4096 \div 4
HeaderWords        == 6

maxdata(via) == IF via = "tcp" THEN NFS_MAXDATA_TCP ELSE NFS_MAXDATA_UDP

(* Mutant: the count of a READ is not cut. *)
CountTrusted(via, count) == count

BytesRead(via, count) == Min({count, maxdata(via)})

EntryWords == [DUMP |-> 2 + words["name"] + words["dirpath"],
               EXPORT |-> 2 + words["name"] + words["dirpath"]]

Arm == IF status = nfsstat3.OK THEN "resok" ELSE "resfail"

Extra ==
  CASE req.proc = "READ" /\ Arm = "resok" -> {BytesRead(req.via, c) : c \in ReadCounts}
    [] req.proc = "READDIR" /\ Arm = "resok" -> {4096 \div 4}
    [] req.proc \in DOMAIN EntryWords -> {n * EntryWords[req.proc] : n \in ListLengths}
    [] OTHER -> {0}

FixedWords ==
  IF req.proc \notin Procs THEN 1
  ELSE LET a == Wire[req.proc][Arm]
           upto[i \in 0 .. Len(a)] == IF i = 0 THEN 1
                                      ELSE upto[i - 1] + words[a[i].type]
       IN  upto[Len(a)]

Fits(via, n) == via = "tcp" \/ n <= NFS_MAX_UDP_PACKET

(* What the reply shows for a field of the arm: the names and the writers  *)
(* of the cells it is read from.                                           *)
Shown(f) ==
  LET arm == Decl[req.proc][Arm]
      i   == CHOOSE k \in DOMAIN arm : arm[k].name = f.name
  IN  {<<g.name, mem[req.proc][g.name]>> : g \in Under(req.proc, arm, i)}

Reply ==
  /\ phase = "reply"
  /\ \E x \in Extra :
       LET n == HeaderWords + FixedWords + x
       IN  answer' = IF Fits(req.via, n)
                     THEN [kind |-> "reply", words |-> n]
                     ELSE [kind |-> "systemerr", words |-> HeaderWords]
  /\ phase' = "idle"
  /\ UNCHANGED <<req, todo, mem, status, calls>>

(* The server ends in the middle of anything and is started again.         *)
Restart ==
  /\ phase # "idle"
  /\ phase' = "idle"
  /\ todo' = <<>>
  /\ mem' = AllZero
  /\ answer' = [kind |-> "lost", words |-> 0]
  /\ UNCHANGED <<req, status, calls>>

Serve == Decode \/ DecodeFails \/ Decoded \/ PREP \/ Handle \/ HandlePlain \/ Reply

RpcNext == Arrive \/ Serve \/ Restart

RpcSpec == RpcInit /\ [][RpcNext]_rpcVars

RpcFairSpec == RpcSpec /\ WF_rpcVars(Serve)

-----------------------------------------------------------------------------
(* A zeroed field is a reply without attributes or without a handle.       *)
MayBeAbsent == {"post_op_attr", "wcc_data", "post_op_fh3"}

(* READ leaves bytesRead unset when it fails early.                        *)
SizeUnset(f) == req.proc = "READ" /\ Arm = "resfail" /\ f.name = "file_attributes"

(* Every field of a reply is what the handler put there, under that name,  *)
(* for this very call, or is absent: nothing of an earlier call's result,  *)
(* which the static structures keep, reaches a client, neither after a     *)
(* refused handle (PREP zeroes the result) nor through the failure arm,    *)
(* which the handlers fill by way of resok.  The status is one the         *)
(* protocol knows.  The one exception is the size in the attributes of a   *)
(* READ that failed before rcDataObjRead: it is undefined.                 *)
ReplyOfThisCall ==
  phase = "reply" /\ req.proc \in Procs =>
    /\ status \in Statuses
    /\ \A f \in Range(Wire[req.proc][Arm]) :
         \/ Shown(f) = {<<f.name, calls>>}
         \/ f.type \in MayBeAbsent /\ \A c \in Shown(f) : c[2] = Zero
         \/ SizeUnset(f) /\ Shown(f) = {<<f.name, Undef>>}

(* Every reply of the NFS program fits into its transport's buffer, so     *)
(* svc_sendreply does not fail: READ cuts the count to what rtmax          *)
(* promises, READDIR the listing.  Only the lists of the mount program can *)
(* be too long, and then only over UDP.                                    *)
RepliesFit ==
  answer.kind = "systemerr" => req.prog = "mount" /\ req.via = "udp"

(* Every request that reaches the dispatcher is answered, with a reply or  *)
(* an RPC error, unless the server ends first.                             *)
Answered == phase = "decode" ~> answer # NoAnswer
=============================================================================
