-------------------------------- MODULE Xdr --------------------------------
(***************************************************************************)
(* The XDR routines of xdr.c: what goes over the wire, in which order.     *)
(* A routine is a descriptor; the XDR operations of the RPC library (read  *)
(* a word, a counted array, a string, a pointer) are its building blocks.  *)
(* Sizes are in XDR words of four bytes.                                   *)
(***************************************************************************)
EXTENDS NfsTypes

NoLimit == -1                                       \* ~0 in the C code

Fixed(n)     == [kind |-> "fixed", words |-> n]
Counted(max) == [kind |-> "counted", max |-> max]
Struct(s)    == [kind |-> "struct", parts |-> s]
Chain(node)  == [kind |-> "chain", parts |-> node]

(* A union: the routine of its discriminant, the routines of its arms, and *)
(* whether the default arm is empty ("void") or an error ("refuse").       *)
Union(tag, arms, default) ==
  [kind |-> "union", tag |-> tag, arms |-> arms, default |-> default]

Optional(part) == Union("bool", [v \in 0 .. 1 |-> IF v = 1 THEN <<part>> ELSE <<>>], "refuse")
IfSet(part)    == Union("bool", [v \in {1} |-> <<part>>], "void")

xdr_bool        == Fixed(1)
xdr_enum        == Fixed(1)
xdr_fhandle3    == Counted(16)
xdr_dirpath     == Counted(256)
xdr_name        == Counted(64)
xdr_mountlist   == Chain(<<"name", "dirpath">>)
xdr_groups      == Chain(<<"name">>)
xdr_exports     == Chain(<<"dirpath", "groups">>)
xdr_uint64      == Fixed(2)
xdr_uint32      == Fixed(1)
xdr_filename3   == Counted(NoLimit)
xdr_nfspath3    == Counted(NoLimit)
xdr_fileid3     == xdr_uint64
xdr_cookie3     == xdr_uint64
xdr_cookieverf3 == Fixed(2)
xdr_createverf3 == Fixed(2)
xdr_writeverf3  == Fixed(2)
xdr_uid3        == xdr_uint32
xdr_gid3        == xdr_uint32
xdr_size3       == xdr_uint64
xdr_offset3     == xdr_uint64
xdr_mode3       == xdr_uint32
xdr_count3      == xdr_uint32
xdr_ftype3      == xdr_enum
xdr_specdata3   == Struct(<<"uint32", "uint32">>)
xdr_nfs_fh3     == Counted(16)
xdr_nfstime3    == Struct(<<"uint32", "uint32">>)
xdr_fattr3      == Struct(<<"ftype3", "mode3", "uint32", "uid3", "gid3",
                            "size3", "size3", "specdata3", "uint64", "fileid3",
                            "nfstime3", "nfstime3", "nfstime3">>)
xdr_post_op_attr == Optional("fattr3")
xdr_wcc_attr     == Struct(<<"size3", "nfstime3", "nfstime3">>)
xdr_pre_op_attr  == Optional("wcc_attr")
xdr_wcc_data     == Struct(<<"pre_op_attr", "post_op_attr">>)
xdr_post_op_fh3  == Optional("nfs_fh3")
xdr_set_mode3    == IfSet("mode3")
xdr_set_uid3     == IfSet("uid3")
xdr_set_gid3     == IfSet("gid3")
xdr_set_size3    == IfSet("size3")
xdr_set_atime    == Union("enum", [v \in {2} |-> <<"nfstime3">>], "void")
xdr_set_mtime    == Union("enum", [v \in {2} |-> <<"nfstime3">>], "void")
xdr_sattr3       == Struct(<<"set_mode3", "set_uid3", "set_gid3", "set_size3",
                             "set_atime", "set_mtime">>)
xdr_diropargs3   == Struct(<<"nfs_fh3", "filename3">>)
xdr_sattrguard3  == Optional("nfstime3")
xdr_stable_how   == xdr_enum
xdr_createhow3   == Union("enum", [v \in 0 .. 2 |-> IF v = 2 THEN <<"createverf3">>
                                                    ELSE <<"sattr3">>], "refuse")
xdr_symlinkdata3 == Struct(<<"sattr3", "nfspath3">>)
xdr_devicedata3  == Struct(<<"sattr3", "specdata3">>)
xdr_mknoddata3   == Union("enum", [v \in {3, 4, 6, 7} |-> IF v \in {3, 4} THEN <<"devicedata3">>
                                                          ELSE <<"sattr3">>], "void")
xdr_entry3       == Chain(<<"fileid3", "filename3", "cookie3">>)
xdr_dirlist3     == Struct(<<"entry3", "bool">>)
xdr_entryplus3   == Chain(<<"fileid3", "filename3", "cookie3", "post_op_attr",
                            "post_op_fh3">>)
xdr_dirlistplus3 == Struct(<<"entryplus3", "bool">>)
xdr_bytes        == Counted(NoLimit)

Routine ==
  [bool |-> xdr_bool, enum |-> xdr_enum, fhandle3 |-> xdr_fhandle3,
   dirpath |-> xdr_dirpath, name |-> xdr_name, mountlist |-> xdr_mountlist,
   groups |-> xdr_groups, exports |-> xdr_exports, uint64 |-> xdr_uint64,
   uint32 |-> xdr_uint32, filename3 |-> xdr_filename3,
   nfspath3 |-> xdr_nfspath3, fileid3 |-> xdr_fileid3,
   cookie3 |-> xdr_cookie3, cookieverf3 |-> xdr_cookieverf3,
   createverf3 |-> xdr_createverf3, writeverf3 |-> xdr_writeverf3,
   uid3 |-> xdr_uid3, gid3 |-> xdr_gid3, size3 |-> xdr_size3,
   offset3 |-> xdr_offset3, mode3 |-> xdr_mode3, count3 |-> xdr_count3,
   ftype3 |-> xdr_ftype3, specdata3 |-> xdr_specdata3,
   nfs_fh3 |-> xdr_nfs_fh3, nfstime3 |-> xdr_nfstime3, fattr3 |-> xdr_fattr3,
   post_op_attr |-> xdr_post_op_attr, wcc_attr |-> xdr_wcc_attr,
   pre_op_attr |-> xdr_pre_op_attr, wcc_data |-> xdr_wcc_data,
   post_op_fh3 |-> xdr_post_op_fh3, set_mode3 |-> xdr_set_mode3,
   set_uid3 |-> xdr_set_uid3, set_gid3 |-> xdr_set_gid3,
   set_size3 |-> xdr_set_size3, set_atime |-> xdr_set_atime,
   set_mtime |-> xdr_set_mtime, sattr3 |-> xdr_sattr3,
   diropargs3 |-> xdr_diropargs3, sattrguard3 |-> xdr_sattrguard3,
   stable_how |-> xdr_stable_how, createhow3 |-> xdr_createhow3,
   symlinkdata3 |-> xdr_symlinkdata3, devicedata3 |-> xdr_devicedata3,
   mknoddata3 |-> xdr_mknoddata3, entry3 |-> xdr_entry3,
   dirlist3 |-> xdr_dirlist3, entryplus3 |-> xdr_entryplus3,
   dirlistplus3 |-> xdr_dirlistplus3, bytes |-> xdr_bytes]

(***************************************************************************)
(* The structures of a procedure in wire order, each field with its        *)
(* routine.  A result is its status, then resok when it is NFS3_OK and     *)
(* resfail otherwise.                                                      *)
(***************************************************************************)
xdr_GETATTR3 == [args    |-> <<F("object", "nfs_fh3")>>,
                 resok   |-> <<F("obj_attributes", "fattr3")>>,
                 resfail |-> <<>>]

xdr_SETATTR3 == [args    |-> <<F("object", "nfs_fh3"),
                               F("new_attributes", "sattr3"),
                               F("guard", "sattrguard3")>>,
                 resok   |-> <<F("obj_wcc", "wcc_data")>>,
                 resfail |-> <<F("obj_wcc", "wcc_data")>>]

xdr_LOOKUP3 == [args    |-> <<F("what", "diropargs3")>>,
                resok   |-> <<F("object", "nfs_fh3"),
                              F("obj_attributes", "post_op_attr"),
                              F("dir_attributes", "post_op_attr")>>,
                resfail |-> <<F("dir_attributes", "post_op_attr")>>]

xdr_ACCESS3 == [args    |-> <<F("object", "nfs_fh3"), F("access", "uint32")>>,
                resok   |-> <<F("obj_attributes", "post_op_attr"),
                              F("access", "uint32")>>,
                resfail |-> <<F("obj_attributes", "post_op_attr")>>]

xdr_READLINK3 == [args    |-> <<F("symlink", "nfs_fh3")>>,
                  resok   |-> <<F("symlink_attributes", "post_op_attr"),
                                F("data", "nfspath3")>>,
                  resfail |-> <<F("symlink_attributes", "post_op_attr")>>]

xdr_READ3 == [args    |-> <<F("file", "nfs_fh3"), F("offset", "offset3"),
                            F("count", "count3")>>,
              resok   |-> <<F("file_attributes", "post_op_attr"),
                            F("count", "count3"), F("eof", "bool"),
                            F("data", "bytes")>>,
              resfail |-> <<F("file_attributes", "post_op_attr")>>]

xdr_WRITE3 == [args    |-> <<F("file", "nfs_fh3"), F("offset", "offset3"),
                             F("count", "count3"), F("stable", "stable_how"),
                             F("data", "bytes")>>,
               resok   |-> <<F("file_wcc", "wcc_data"), F("count", "count3"),
                             F("committed", "stable_how"),
                             F("verf", "writeverf3")>>,
               resfail |-> <<F("file_wcc", "wcc_data")>>]

MadeOk == <<F("obj", "post_op_fh3"), F("obj_attributes", "post_op_attr"),
            F("dir_wcc", "wcc_data")>>

xdr_CREATE3 == [args    |-> <<F("where", "diropargs3"), F("how", "createhow3")>>,
                resok   |-> MadeOk,
                resfail |-> <<F("dir_wcc", "wcc_data")>>]

xdr_MKDIR3 == [args    |-> <<F("where", "diropargs3"),
                             F("attributes", "sattr3")>>,
               resok   |-> MadeOk,
               resfail |-> <<F("dir_wcc", "wcc_data")>>]

xdr_SYMLINK3 == [args    |-> <<F("where", "diropargs3"),
                               F("symlink", "symlinkdata3")>>,
                 resok   |-> MadeOk,
                 resfail |-> <<F("dir_wcc", "wcc_data")>>]

xdr_MKNOD3 == [args    |-> <<F("where", "diropargs3"), F("what", "mknoddata3")>>,
               resok   |-> MadeOk,
               resfail |-> <<F("dir_wcc", "wcc_data")>>]

xdr_REMOVE3 == [args    |-> <<F("object", "diropargs3")>>,
                resok   |-> <<F("dir_wcc", "wcc_data")>>,
                resfail |-> <<F("dir_wcc", "wcc_data")>>]

xdr_RMDIR3 == [args    |-> <<F("object", "diropargs3")>>,
               resok   |-> <<F("dir_wcc", "wcc_data")>>,
               resfail |-> <<F("dir_wcc", "wcc_data")>>]

xdr_RENAME3 == [args    |-> <<F("from", "diropargs3"), F("to", "diropargs3")>>,
                resok   |-> <<F("fromdir_wcc", "wcc_data"),
                              F("todir_wcc", "wcc_data")>>,
                resfail |-> <<F("fromdir_wcc", "wcc_data"),
                              F("todir_wcc", "wcc_data")>>]

xdr_LINK3 == [args    |-> <<F("file", "nfs_fh3"), F("link", "diropargs3")>>,
              resok   |-> <<F("file_attributes", "post_op_attr"),
                            F("linkdir_wcc", "wcc_data")>>,
              resfail |-> <<F("file_attributes", "post_op_attr"),
                            F("linkdir_wcc", "wcc_data")>>]

xdr_READDIR3 == [args    |-> <<F("dir", "nfs_fh3"), F("cookie", "cookie3"),
                               F("cookieverf", "cookieverf3"),
                               F("count", "count3")>>,
                 resok   |-> <<F("dir_attributes", "post_op_attr"),
                               F("cookieverf", "cookieverf3"),
                               F("reply", "dirlist3")>>,
                 resfail |-> <<F("dir_attributes", "post_op_attr")>>]

xdr_READDIRPLUS3 == [args    |-> <<F("dir", "nfs_fh3"), F("cookie", "cookie3"),
                                   F("cookieverf", "cookieverf3"),
                                   F("dircount", "count3"),
                                   F("maxcount", "count3")>>,
                     resok   |-> <<F("dir_attributes", "post_op_attr"),
                                   F("cookieverf", "cookieverf3"),
                                   F("reply", "dirlistplus3")>>,
                     resfail |-> <<F("dir_attributes", "post_op_attr")>>]

xdr_FSSTAT3 == [args    |-> <<F("fsroot", "nfs_fh3")>>,
                resok   |-> <<F("obj_attributes", "post_op_attr"),
                              F("tbytes", "size3"), F("fbytes", "size3"),
                              F("abytes", "size3"), F("tfiles", "size3"),
                              F("ffiles", "size3"), F("afiles", "size3"),
                              F("invarsec", "uint32")>>,
                resfail |-> <<F("obj_attributes", "post_op_attr")>>]

xdr_FSINFO3 == [args    |-> <<F("fsroot", "nfs_fh3")>>,
                resok   |-> <<F("obj_attributes", "post_op_attr"),
                              F("rtmax", "uint32"), F("rtpref", "uint32"),
                              F("rtmult", "uint32"), F("wtmax", "uint32"),
                              F("wtpref", "uint32"), F("wtmult", "uint32"),
                              F("dtpref", "uint32"), F("maxfilesize", "size3"),
                              F("time_delta", "nfstime3"),
                              F("properties", "uint32")>>,
                resfail |-> <<F("obj_attributes", "post_op_attr")>>]

xdr_PATHCONF3 == [args    |-> <<F("object", "nfs_fh3")>>,
                  resok   |-> <<F("obj_attributes", "post_op_attr"),
                                F("linkmax", "uint32"), F("name_max", "uint32"),
                                F("no_trunc", "bool"),
                                F("chown_restricted", "bool"),
                                F("case_insensitive", "bool"),
                                F("case_preserving", "bool")>>,
                  resfail |-> <<F("obj_attributes", "post_op_attr")>>]

xdr_COMMIT3 == [args    |-> <<F("file", "nfs_fh3"), F("offset", "offset3"),
                              F("count", "count3")>>,
                resok   |-> <<F("file_wcc", "wcc_data"),
                              F("verf", "writeverf3")>>,
                resfail |-> <<F("file_wcc", "wcc_data")>>]

xdr_mountres3 == [args    |-> <<F("dirpath", "dirpath")>>,
                  resok   |-> <<F("fhandle", "fhandle3"),
                                F("auth_flavors", "bytes")>>,
                  resfail |-> <<>>]

(***************************************************************************)
(* The words a routine writes at most; what has no limit of its own (data, *)
(* names, lists) counts only its length word, its caller adds the rest.    *)
(***************************************************************************)
words[t \in DOMAIN Routine] ==
  LET total(s) == LET upto[i \in 0 .. Len(s)] ==
                        IF i = 0 THEN 0 ELSE upto[i - 1] + words[s[i]]
                  IN  upto[Len(s)]
      r        == Routine[t]
  IN  CASE r.kind = "fixed"   -> r.words
        [] r.kind = "counted" -> 1 + Max({0, r.max})
        [] r.kind = "chain"   -> 1
        [] r.kind = "struct"  -> total(r.parts)
        [] r.kind = "union"   -> 1 + Max({total(r.arms[a]) : a \in DOMAIN r.arms})
=============================================================================
