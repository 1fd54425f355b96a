------------------------------- MODULE Errors -------------------------------
(***************************************************************************)
(* error.c: how the errno of a failed system call becomes the status of a  *)
(* reply.  Statuses and errnos are numbers because the code takes one for  *)
(* the other: remove_err returns the errno ENOENT itself, and every reply  *)
(* is encoded by comparing the status with NFS3_OK.                        *)
(***************************************************************************)
EXTENDS Integers

nfsstat3 ==
  [OK |-> 0, PERM |-> 1, NOENT |-> 2, IO |-> 5, NXIO |-> 6, ACCES |-> 13,
   EXIST |-> 17, XDEV |-> 18, NODEV |-> 19, NOTDIR |-> 20, ISDIR |-> 21,
   INVAL |-> 22, FBIG |-> 27, NOSPC |-> 28, ROFS |-> 30, MLINK |-> 31,
   NAMETOOLONG |-> 63, NOTEMPTY |-> 66, DQUOT |-> 69, STALE |-> 70,
   REMOTE |-> 71, BADHANDLE |-> 10001, NOT_SYNC |-> 10002,
   BAD_COOKIE |-> 10003, NOTSUPP |-> 10004, TOOSMALL |-> 10005,
   SERVERFAULT |-> 10006, BADTYPE |-> 10007, JUKEBOX |-> 10008]

(* The errnos of the platform that error.c names, and none at all: errno   *)
(* is read after calls that may have succeeded since.                      *)
errnos ==
  [none |-> 0, EPERM |-> 1, ENOENT |-> 2, EIO |-> 5, ENXIO |-> 6,
   EACCES |-> 13, EEXIST |-> 17, EXDEV |-> 18, ENODEV |-> 19, ENOTDIR |-> 20,
   EISDIR |-> 21, EINVAL |-> 22, EFBIG |-> 27, ENOSPC |-> 28, EROFS |-> 30,
   EMLINK |-> 31, ENAMETOOLONG |-> 36, ENOSYS |-> 38, ENOTEMPTY |-> 39,
   ELOOP |-> 40, EDQUOT |-> 122, ENOMEDIUM |-> 123]

Statuses == {nfsstat3[s] : s \in DOMAIN nfsstat3}

(* The status of the same name. *)
Like ==
  [EPERM |-> nfsstat3.PERM, ENOENT |-> nfsstat3.NOENT, EACCES |-> nfsstat3.ACCES,
   EEXIST |-> nfsstat3.EXIST, EXDEV |-> nfsstat3.XDEV,
   ENOTDIR |-> nfsstat3.NOTDIR, EISDIR |-> nfsstat3.ISDIR,
   EINVAL |-> nfsstat3.INVAL, EFBIG |-> nfsstat3.FBIG,
   ENOSPC |-> nfsstat3.NOSPC, EROFS |-> nfsstat3.ROFS,
   EMLINK |-> nfsstat3.MLINK, ENOTEMPTY |-> nfsstat3.NOTEMPTY,
   EDQUOT |-> nfsstat3.DQUOT]

is_stale(e) == e \in {"ENOTDIR", "ELOOP", "ENOENT", "ENAMETOOLONG"}

symlink_err(e) ==
  CASE e \in {"EACCES", "EPERM"} -> nfsstat3.ACCES
    [] is_stale(e)               -> nfsstat3.STALE
    [] e \in {"EROFS", "EEXIST", "ENOSPC", "EDQUOT", "EINVAL"} -> Like[e]
    [] e = "ENOSYS"              -> nfsstat3.NOTSUPP
    [] OTHER                     -> nfsstat3.IO

mkdir_err(e) == symlink_err(e)

lookup_err(e) ==
  CASE e \in {"ENOENT", "ENOMEDIUM"} -> nfsstat3.NOENT
    [] e \in {"EACCES", "EINVAL"}    -> Like[e]
    [] e \in {"ENOTDIR", "ELOOP", "ENAMETOOLONG"} -> nfsstat3.STALE
    [] OTHER                         -> nfsstat3.IO

read_err(e) ==
  CASE e \in {"EINVAL", "EACCES"} -> Like[e]
    [] is_stale(e)                -> nfsstat3.STALE
    [] e \in {"ENXIO", "ENODEV"}  -> nfsstat3.NXIO
    [] OTHER                      -> nfsstat3.IO

write_open_err(e) ==
  CASE e \in {"EACCES", "EINVAL", "EROFS"} -> Like[e]
    [] is_stale(e)                         -> nfsstat3.STALE
    [] OTHER                               -> nfsstat3.IO

write_write_err(e) ==
  IF e \in {"EINVAL", "EFBIG", "ENOSPC", "EDQUOT"} THEN Like[e] ELSE nfsstat3.IO

create_err(e) ==
  CASE e \in {"EACCES", "EROFS", "ENOSPC", "EEXIST", "EDQUOT"} -> Like[e]
    [] is_stale(e) -> nfsstat3.STALE
    [] OTHER       -> nfsstat3.IO

rename_err(e) ==
  CASE e \in {"EISDIR", "EXDEV", "EEXIST", "ENOTEMPTY", "EINVAL", "ENOTDIR",
              "ENOENT", "EROFS", "ENOSPC", "EDQUOT"} -> Like[e]
    [] e \in {"EACCES", "EPERM"}       -> nfsstat3.ACCES
    [] e \in {"ELOOP", "ENAMETOOLONG"} -> nfsstat3.STALE
    [] OTHER                           -> nfsstat3.IO

remove_err(e) ==
  CASE e \in {"EACCES", "EPERM"} -> nfsstat3.ACCES
    [] e = "ENOENT"              -> errnos.ENOENT
    [] e \in {"ENOTDIR", "ELOOP", "ENAMETOOLONG"} -> nfsstat3.STALE
    [] e \in {"EINVAL", "EROFS"} -> Like[e]
    [] OTHER                     -> nfsstat3.IO

rmdir_err(e) ==
  IF e = "ENOTEMPTY" THEN nfsstat3.NOTEMPTY ELSE remove_err(e)

setattr_err(e) ==
  CASE e \in {"EPERM", "EROFS", "EACCES", "EDQUOT", "EINVAL"} -> Like[e]
    [] is_stale(e) -> nfsstat3.STALE
    [] OTHER       -> nfsstat3.IO

readdir_err(e) ==
  CASE e \in {"EPERM", "EACCES", "ENOTDIR", "EINVAL"} -> Like[e]
    [] is_stale(e) /\ e # "ENOTDIR" -> nfsstat3.STALE
    [] OTHER                        -> nfsstat3.IO

join(x, y) == IF x # nfsstat3.OK THEN x ELSE y

join3(x, y, z) == IF x # nfsstat3.OK THEN x ELSE join(y, z)
=============================================================================
