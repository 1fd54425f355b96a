------------------------------- MODULE Mount -------------------------------
(***************************************************************************)
(* The MOUNT service (mount.c): the list of mounts and its counter, the    *)
(* one-time passwords (password.c) and the global export options that      *)
(* exports_options (Config/exports.y) leaves behind for whoever reads them *)
(* next.                                                                   *)
(*                                                                         *)
(* There is one nonce for all clients.  "@getnonce" replaces it, and so    *)
(* does every attempt to mount with "@otp:".  A one-time password is       *)
(* represented by the nonce it was computed from: the server accepts it    *)
(* when that is the nonce it holds.  Requests travel over UDP, so the      *)
(* server may get an @otp request late, several times, or never.           *)
(***************************************************************************)
EXTENDS Integers, Sequences, FiniteSets

CONSTANTS
    Hosts,       \* clients
    Dirs,        \* export points
    Admitted,    \* <<host, dir>>: dir is exported to host
    Protected,   \* export points with a password
    Removable,   \* export points with the option "removable"
    Nonces,      \* values of the random nonce
    NoNonce,     \* the empty nonce before the first "@getnonce"
    MaxMounts    \* bound on the length of the mount list

ASSUME ExportAssumption ==
    /\ Admitted \subseteq Hosts \X Dirs
    /\ Protected \subseteq Dirs
    /\ Removable \subseteq Dirs
    /\ NoNonce \notin Nonces
    /\ MaxMounts \in Nat

VARIABLES
    mount_list,    \* sequence of [host, dir]
    mount_cnt,
    nonce,         \* the nonce the server holds
    spent,         \* every nonce generated so far
    used,          \* nonces that authenticated a mount
    exports_opts,  \* options found by the last exports_options
    present,       \* export points whose path exists
    held,          \* host -> the nonce it fetched and has not tried yet
    sent,          \* "@otp:" requests under way: [host, dir, otp]
    reply          \* the reply to the MNT just served

mountVars == <<mount_list, mount_cnt, nonce, spent, used, exports_opts, present, held,
          sent, reply>>
otpVars == <<nonce, spent, used, held, sent>>

NoReply == [host |-> "none", dir |-> "none", status |-> "none"]

\* What exports_options leaves in exports_opts: -1, every bit of which is set,
\* if the directory is not exported to the host.
exports_options(c, d) ==
    CASE <<c, d>> \notin Admitted -> "all"
      [] d \in Removable -> "removable"
      [] OTHER -> "fixed"

\* exports_opts & OPT_REMOVABLE
OPT_REMOVABLE(opts) == opts # "fixed"

MountInit ==
    /\ mount_list = <<>>
    /\ mount_cnt = 0
    /\ nonce = NoNonce
    /\ spent = {}
    /\ used = {}
    /\ exports_opts = "all"
    /\ present \in {Dirs \ gone : gone \in SUBSET Removable}
    /\ held = [c \in Hosts |-> NoNonce]
    /\ sent = {}
    /\ reply = NoReply

----------------------------------------------------------------------------
(* The mount list *)

add_mount(c, d) ==
    /\ mount_list' = Append(mount_list, [host |-> c, dir |-> d])
    /\ mount_cnt' = mount_cnt + 1

\* The entries that stay, in their order.
Stay(c, dirs) ==
    {k \in DOMAIN mount_list : ~(mount_list[k].host = c /\ mount_list[k].dir \in dirs)}
Nth(S, i) == CHOOSE k \in S : Cardinality({j \in S : j <= k}) = i
Rest(c, dirs) ==
    LET S == Stay(c, dirs) IN [i \in 1..Cardinality(S) |-> mount_list[Nth(S, i)]]

\* Mutant: the counter is adjusted once, however many entries go.
RemoveCountsOnce(c, dirs) ==
    /\ mount_list' = Rest(c, dirs)
    /\ mount_cnt' = IF mount_list' # mount_list /\ mount_cnt > 0
                    THEN mount_cnt - 1
                    ELSE mount_cnt

\* Every matching entry of the host goes; the counter stops at 0.
remove_mount(c, dirs) ==
    /\ mount_list' = Rest(c, dirs)
    /\ LET removed == Len(mount_list) - Len(mount_list')
       IN  mount_cnt' = IF mount_cnt > removed THEN mount_cnt - removed ELSE 0

----------------------------------------------------------------------------
(* MNT *)

gen_nonce ==
    /\ nonce' \in Nonces \ spent
    /\ spent' = spent \cup {nonce'}

\* The part of MNT that follows the "mount command".  opts are the options in
\* force when it starts: those of this directory after a command, and whatever
\* the previous request left behind for a plain path.  realpath, the export
\* list, the password, the port and the directory are checked in this order.
Admit(c, d, opts, authenticated) ==
    \/ /\ ~OPT_REMOVABLE(opts) /\ d \notin present
       /\ reply' = [host |-> c, dir |-> d, status |-> "NOENT"]
       /\ exports_opts' = opts
       /\ UNCHANGED <<mount_list, mount_cnt>>
    \/ /\ OPT_REMOVABLE(opts) \/ d \in present
       /\ reply' = [host |-> c, dir |-> d, status |-> "ACCES"]
       /\ exports_opts' = exports_options(c, d)
       /\ UNCHANGED <<mount_list, mount_cnt>>
    \/ /\ OPT_REMOVABLE(opts) \/ d \in present
       /\ <<c, d>> \in Admitted
       /\ d \in Protected => authenticated
       /\ Len(mount_list) < MaxMounts
       /\ reply' = [host |-> c, dir |-> d, status |-> "OK"]
       /\ exports_opts' = exports_options(c, d)
       /\ add_mount(c, d)

MntPlain(c, d) ==
    /\ Admit(c, d, exports_opts, FALSE)
    /\ UNCHANGED <<otpVars, present>>

\* "@password:": right says whether the password is the directory's.
MntPassword(c, d, right) ==
    /\ Admit(c, d, exports_options(c, d), right /\ <<c, d>> \in Admitted)
    /\ UNCHANGED <<otpVars, present>>

\* "@getnonce"
MntGetNonce(c) ==
    /\ gen_nonce
    /\ held' = [held EXCEPT ![c] = nonce']
    /\ reply' = NoReply
    /\ UNCHANGED <<mount_list, mount_cnt, used, exports_opts, present, sent>>

\* The client tries the nonce it fetched.
SendOtp(c, d) ==
    /\ held[c] # NoNonce
    /\ sent' = sent \cup {[host |-> c, dir |-> d, otp |-> held[c]]}
    /\ held' = [held EXCEPT ![c] = NoNonce]
    /\ reply' = NoReply
    /\ UNCHANGED <<mount_list, mount_cnt, nonce, spent, used, exports_opts, present>>

\* Mutant: the nonce is only changed when the password was wrong.
OtpKeepsNonce(m) ==
    LET right == m.otp = nonce IN
    /\ IF right THEN UNCHANGED <<nonce, spent>> ELSE gen_nonce
    /\ used' = IF right THEN used \cup {m.otp} ELSE used

\* The one-time password is compared, then the nonce is changed, right or wrong.
OtpCheck(m) ==
    /\ gen_nonce
    /\ used' = IF m.otp = nonce THEN used \cup {m.otp} ELSE used

\* "@otp:": any request under way arrives; it stays under way, so it may arrive
\* again.
MntOtp(m) ==
    /\ m \in sent
    /\ IF <<m.host, m.dir>> \in Admitted THEN OtpCheck(m) ELSE UNCHANGED <<nonce, spent, used>>
    /\ Admit(m.host, m.dir, exports_options(m.host, m.dir),
             <<m.host, m.dir>> \in Admitted /\ m.otp = nonce)
    /\ UNCHANGED <<present, held, sent>>

----------------------------------------------------------------------------
\* UMNT removes the host's entries for the path, if that is the path as stored:
\* add_mount stores it without the mount command.
Umnt(c, d) ==
    /\ remove_mount(c, {d})
    /\ reply' = NoReply
    /\ UNCHANGED <<otpVars, exports_opts, present>>

UmntAll(c) ==
    /\ remove_mount(c, Dirs)
    /\ reply' = NoReply
    /\ UNCHANGED <<otpVars, exports_opts, present>>

\* An NFS request: PREP calls exports_options.
NfsRequest(c, d) ==
    /\ exports_opts' = exports_options(c, d)
    /\ reply' = NoReply
    /\ UNCHANGED <<mount_list, mount_cnt, otpVars, present>>

\* A removable medium is inserted or taken out.
Media(d) ==
    /\ d \in Removable
    /\ present' = IF d \in present THEN present \ {d} ELSE present \cup {d}
    /\ reply' = NoReply
    /\ UNCHANGED <<mount_list, mount_cnt, otpVars, exports_opts>>

MountNext ==
    \/ \E c \in Hosts, d \in Dirs :
        \/ MntPlain(c, d)
        \/ \E right \in BOOLEAN : MntPassword(c, d, right)
        \/ SendOtp(c, d)
        \/ Umnt(c, d)
        \/ NfsRequest(c, d)
    \/ \E c \in Hosts : MntGetNonce(c) \/ UmntAll(c)
    \/ \E m \in sent : MntOtp(m)
    \/ \E d \in Dirs : Media(d)

MountSpec == MountInit /\ [][MountNext]_mountVars
----------------------------------------------------------------------------
(* Properties *)

\* Type invariant of the mount service, its clients and the requests under way.
MountTypeOK ==
    /\ mount_list \in Seq([host : Hosts, dir : Dirs])
    /\ mount_cnt \in Nat
    /\ nonce \in Nonces \cup {NoNonce}
    /\ spent \in SUBSET Nonces
    /\ used \in SUBSET Nonces
    /\ exports_opts \in {"all", "removable", "fixed"}
    /\ present \in SUBSET Dirs
    /\ held \in [Hosts -> Nonces \cup {NoNonce}]
    /\ sent \in SUBSET [host : Hosts, dir : Dirs, otp : Nonces]
    /\ reply \in [host : Hosts \cup {"none"}, dir : Dirs \cup {"none"},
                  status : {"none", "OK", "ACCES", "NOENT"}]

\* The counter that decides when UMNT and UMNTALL flush the descriptors is the
\* length of the list, after any sequence of mounts and unmounts of any hosts.
CountMatches == mount_cnt = Len(mount_list)

\* A one-time password is good for one mount: the nonce the server holds, and
\* any request still under way that would be accepted, has not authenticated
\* anybody before, however often requests are repeated.
OtpUsedOnce == nonce \notin used
=============================================================================
