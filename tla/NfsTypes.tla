------------------------------ MODULE NfsTypes ------------------------------
(***************************************************************************)
(* The protocol structures of nfs.h and mount.h as they lie in memory.     *)
(* A structure is the sequence of its parts, in the order of the header;   *)
(* a type that has no parts (an integer, an enum, a pointer) is one cell.  *)
(* A union is its discriminant followed by its largest arm, which is where *)
(* every other arm lies too.                                               *)
(*                                                                         *)
(* The result of a procedure is a static variable of its handler: a status *)
(* and a union of resok and resfail.  The handlers fill resok and rely on  *)
(* resfail lying over its beginning ("overlaps with resfail"), so the      *)
(* order of the fields is what makes their failure replies right.          *)
(***************************************************************************)
EXTENDS Integers, Sequences, SequencesExt, FiniteSets, FiniteSetsExt

Cell == <<>>

specdata3    == <<"uint32", "uint32">>
nfs_fh3      == <<"uint32", "pointer">>
nfstime3     == <<"uint32", "uint32">>
fattr3       == <<"ftype3", "uint32", "uint32", "uint32", "uint32", "uint64",
                  "uint64", "specdata3", "uint64", "uint64", "nfstime3",
                  "nfstime3", "nfstime3">>
post_op_attr == <<"bool", "fattr3">>
wcc_attr     == <<"uint64", "nfstime3", "nfstime3">>
pre_op_attr  == <<"bool", "wcc_attr">>
wcc_data     == <<"pre_op_attr", "post_op_attr">>
post_op_fh3  == <<"bool", "nfs_fh3">>
set_mode3    == <<"bool", "uint32">>
set_uid3     == <<"bool", "uint32">>
set_gid3     == <<"bool", "uint32">>
set_size3    == <<"bool", "uint64">>
set_atime    == <<"time_how", "nfstime3">>
set_mtime    == <<"time_how", "nfstime3">>
sattr3       == <<"set_mode3", "set_uid3", "set_gid3", "set_size3",
                  "set_atime", "set_mtime">>
diropargs3   == <<"nfs_fh3", "pointer">>
sattrguard3  == <<"bool", "nfstime3">>
createhow3   == <<"createmode3", "sattr3">>
symlinkdata3 == <<"sattr3", "pointer">>
devicedata3  == <<"sattr3", "specdata3">>
mknoddata3   == <<"ftype3", "devicedata3">>
dirlist3     == <<"pointer", "bool">>
fhandle3     == <<"uint32", "pointer">>

Types == [bool |-> Cell, uint32 |-> Cell, uint64 |-> Cell, ftype3 |-> Cell,
          time_how |-> Cell, createmode3 |-> Cell, stable_how |-> Cell,
          verf |-> Cell, pointer |-> Cell,
          specdata3 |-> specdata3, nfs_fh3 |-> nfs_fh3,
          nfstime3 |-> nfstime3, fattr3 |-> fattr3,
          post_op_attr |-> post_op_attr, wcc_attr |-> wcc_attr,
          pre_op_attr |-> pre_op_attr, wcc_data |-> wcc_data,
          post_op_fh3 |-> post_op_fh3, set_mode3 |-> set_mode3,
          set_uid3 |-> set_uid3, set_gid3 |-> set_gid3,
          set_size3 |-> set_size3, set_atime |-> set_atime,
          set_mtime |-> set_mtime, sattr3 |-> sattr3,
          diropargs3 |-> diropargs3, sattrguard3 |-> sattrguard3,
          createhow3 |-> createhow3, symlinkdata3 |-> symlinkdata3,
          devicedata3 |-> devicedata3, mknoddata3 |-> mknoddata3,
          dirlist3 |-> dirlist3, fhandle3 |-> fhandle3,
          opaque |-> nfs_fh3]

(***************************************************************************)
(* A procedure's structures: fields with their types, in memory order.     *)
(* A fixed array (a verifier) is one cell of type verf; counted data is a  *)
(* length and a pointer (opaque); a string or a list is a pointer.         *)
(***************************************************************************)
F(name, type) == [name |-> name, type |-> type]

GETATTR3 == [args    |-> <<F("object", "nfs_fh3")>>,
             resok   |-> <<F("obj_attributes", "fattr3")>>,
             resfail |-> <<>>]

SETATTR3 == [args    |-> <<F("object", "nfs_fh3"),
                           F("new_attributes", "sattr3"),
                           F("guard", "sattrguard3")>>,
             resok   |-> <<F("obj_wcc", "wcc_data")>>,
             resfail |-> <<F("obj_wcc", "wcc_data")>>]

LOOKUP3 == [args    |-> <<F("what", "diropargs3")>>,
            resok   |-> <<F("dir_attributes", "post_op_attr"),
                          F("object", "nfs_fh3"),
                          F("obj_attributes", "post_op_attr")>>,
            resfail |-> <<F("dir_attributes", "post_op_attr")>>]

ACCESS3 == [args    |-> <<F("object", "nfs_fh3"), F("access", "uint32")>>,
            resok   |-> <<F("obj_attributes", "post_op_attr"),
                          F("access", "uint32")>>,
            resfail |-> <<F("obj_attributes", "post_op_attr")>>]

READLINK3 == [args    |-> <<F("symlink", "nfs_fh3")>>,
              resok   |-> <<F("symlink_attributes", "post_op_attr"),
                            F("data", "pointer")>>,
              resfail |-> <<F("symlink_attributes", "post_op_attr")>>]

READ3 == [args    |-> <<F("file", "nfs_fh3"), F("offset", "uint64"),
                        F("count", "uint32")>>,
          resok   |-> <<F("file_attributes", "post_op_attr"),
                        F("count", "uint32"), F("eof", "bool"),
                        F("data", "opaque")>>,
          resfail |-> <<F("file_attributes", "post_op_attr")>>]

WRITE3 == [args    |-> <<F("file", "nfs_fh3"), F("offset", "uint64"),
                         F("count", "uint32"), F("stable", "stable_how"),
                         F("data", "opaque")>>,
           resok   |-> <<F("file_wcc", "wcc_data"), F("count", "uint32"),
                         F("committed", "stable_how"), F("verf", "verf")>>,
           resfail |-> <<F("file_wcc", "wcc_data")>>]

Made == <<F("dir_wcc", "wcc_data"), F("obj", "post_op_fh3"),
          F("obj_attributes", "post_op_attr")>>

CREATE3 == [args    |-> <<F("where", "diropargs3"), F("how", "createhow3")>>,
            resok   |-> Made,
            resfail |-> <<F("dir_wcc", "wcc_data")>>]

MKDIR3 == [args    |-> <<F("where", "diropargs3"), F("attributes", "sattr3")>>,
           resok   |-> Made,
           resfail |-> <<F("dir_wcc", "wcc_data")>>]

SYMLINK3 == [args    |-> <<F("where", "diropargs3"),
                           F("symlink", "symlinkdata3")>>,
             resok   |-> Made,
             resfail |-> <<F("dir_wcc", "wcc_data")>>]

MKNOD3 == [args    |-> <<F("where", "diropargs3"), F("what", "mknoddata3")>>,
           resok   |-> Made,
           resfail |-> <<F("dir_wcc", "wcc_data")>>]

REMOVE3 == [args    |-> <<F("object", "diropargs3")>>,
            resok   |-> <<F("dir_wcc", "wcc_data")>>,
            resfail |-> <<F("dir_wcc", "wcc_data")>>]

RMDIR3 == [args    |-> <<F("object", "diropargs3")>>,
           resok   |-> <<F("dir_wcc", "wcc_data")>>,
           resfail |-> <<F("dir_wcc", "wcc_data")>>]

RENAME3 == [args    |-> <<F("from", "diropargs3"), F("to", "diropargs3")>>,
            resok   |-> <<F("fromdir_wcc", "wcc_data"),
                          F("todir_wcc", "wcc_data")>>,
            resfail |-> <<F("fromdir_wcc", "wcc_data"),
                          F("todir_wcc", "wcc_data")>>]

LINK3 == [args    |-> <<F("file", "nfs_fh3"), F("link", "diropargs3")>>,
          resok   |-> <<F("file_attributes", "post_op_attr"),
                        F("linkdir_wcc", "wcc_data")>>,
          resfail |-> <<F("file_attributes", "post_op_attr"),
                        F("linkdir_wcc", "wcc_data")>>]

READDIR3 == [args    |-> <<F("dir", "nfs_fh3"), F("cookie", "uint64"),
                           F("cookieverf", "verf"), F("count", "uint32")>>,
             resok   |-> <<F("dir_attributes", "post_op_attr"),
                           F("cookieverf", "verf"), F("reply", "dirlist3")>>,
             resfail |-> <<F("dir_attributes", "post_op_attr")>>]

READDIRPLUS3 == [args    |-> <<F("dir", "nfs_fh3"), F("cookie", "uint64"),
                               F("cookieverf", "verf"), F("dircount", "uint32"),
                               F("maxcount", "uint32")>>,
                 resok   |-> <<F("dir_attributes", "post_op_attr"),
                               F("cookieverf", "verf"),
                               F("reply", "dirlist3")>>,
                 resfail |-> <<F("dir_attributes", "post_op_attr")>>]

FSSTAT3 == [args    |-> <<F("fsroot", "nfs_fh3")>>,
            resok   |-> <<F("obj_attributes", "post_op_attr"),
                          F("tbytes", "uint64"), F("fbytes", "uint64"),
                          F("abytes", "uint64"), F("tfiles", "uint64"),
                          F("ffiles", "uint64"), F("afiles", "uint64"),
                          F("invarsec", "uint32")>>,
            resfail |-> <<F("obj_attributes", "post_op_attr")>>]

FSINFO3 == [args    |-> <<F("fsroot", "nfs_fh3")>>,
            resok   |-> <<F("obj_attributes", "post_op_attr"),
                          F("rtmax", "uint32"), F("rtpref", "uint32"),
                          F("rtmult", "uint32"), F("wtmax", "uint32"),
                          F("wtpref", "uint32"), F("wtmult", "uint32"),
                          F("dtpref", "uint32"), F("maxfilesize", "uint64"),
                          F("time_delta", "nfstime3"),
                          F("properties", "uint32")>>,
            resfail |-> <<F("obj_attributes", "post_op_attr")>>]

PATHCONF3 == [args    |-> <<F("object", "nfs_fh3")>>,
              resok   |-> <<F("obj_attributes", "post_op_attr"),
                            F("linkmax", "uint32"), F("name_max", "uint32"),
                            F("no_trunc", "bool"),
                            F("chown_restricted", "bool"),
                            F("case_insensitive", "bool"),
                            F("case_preserving", "bool")>>,
              resfail |-> <<F("obj_attributes", "post_op_attr")>>]

COMMIT3 == [args    |-> <<F("file", "nfs_fh3"), F("offset", "uint64"),
                          F("count", "uint32")>>,
            resok   |-> <<F("file_wcc", "wcc_data"), F("verf", "verf")>>,
            resfail |-> <<F("file_wcc", "wcc_data")>>]

mountres3 == [args    |-> <<F("dirpath", "pointer")>>,
              resok   |-> <<F("fhandle", "fhandle3"),
                            F("auth_flavors", "opaque")>>,
              resfail |-> <<>>]

Decl == [GETATTR |-> GETATTR3, SETATTR |-> SETATTR3, LOOKUP |-> LOOKUP3,
         ACCESS |-> ACCESS3, READLINK |-> READLINK3, READ |-> READ3,
         WRITE |-> WRITE3, CREATE |-> CREATE3, MKDIR |-> MKDIR3,
         SYMLINK |-> SYMLINK3, MKNOD |-> MKNOD3, REMOVE |-> REMOVE3,
         RMDIR |-> RMDIR3, RENAME |-> RENAME3, LINK |-> LINK3,
         READDIR |-> READDIR3, READDIRPLUS |-> READDIRPLUS3,
         FSSTAT |-> FSSTAT3, FSINFO |-> FSINFO3, PATHCONF |-> PATHCONF3,
         COMMIT |-> COMMIT3, MNT |-> mountres3]

Procs == DOMAIN Decl

(***************************************************************************)
(* Cells of a type, and the cells a field of an arm occupies.              *)
(***************************************************************************)
sizeof[t \in DOMAIN Types] ==
  IF Types[t] = Cell THEN 1
  ELSE LET upto[i \in 0 .. Len(Types[t])] ==
             IF i = 0 THEN 0 ELSE upto[i - 1] + sizeof[Types[t][i]]
       IN  upto[Len(Types[t])]

Offset(arm, i) ==
  LET upto[j \in 0 .. i - 1] == IF j = 0 THEN 0
                                ELSE upto[j - 1] + sizeof[arm[j].type]
  IN  upto[i - 1]

CellsOf(arm, i) == Offset(arm, i) .. Offset(arm, i) + sizeof[arm[i].type] - 1

(***************************************************************************)
(* The fields of resok that lie under a field of the other arm.            *)
(***************************************************************************)
Under(p, arm, i) ==
  {Decl[p].resok[j] : j \in {k \in DOMAIN Decl[p].resok :
                             CellsOf(Decl[p].resok, k) \cap CellsOf(arm, i) # {}}}
=============================================================================
