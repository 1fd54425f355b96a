------------------------------- MODULE Daemon -------------------------------
(***************************************************************************)
(* The life of the server process (main, daemon_exit and the functions     *)
(* they call in daemon.c), and what it leaves where other programs look:   *)
(* the portmapper's registrations and the pid file.  Several instances may *)
(* be started; they share both, and compete for ports.                     *)
(*                                                                         *)
(* The portmapper, the kernel's ports and the signals are external.  The   *)
(* UDP and the TCP transport of a service are taken together: binding the  *)
(* TCP port is what fails when the port is taken.                          *)
(***************************************************************************)
EXTENDS Naturals, FiniteSets

CONSTANTS Instances,         \* server processes
          NfsPort,           \* option -n of each
          MountPort,         \* option -m of each
          opt_portmapper,    \* FALSE with option -p
          Absent, Empty,     \* a pid file that does not exist, or has no pid
          MaxStarts          \* bound on the starts

Ports == {NfsPort[i] : i \in Instances} \cup {MountPort[i] : i \in Instances}

ASSUME DaemonAssumption ==
  /\ Instances \subseteq Nat \ {0}
  /\ Absent # Empty /\ {Absent, Empty} \cap Instances = {}
  /\ opt_portmapper \in BOOLEAN
  /\ MaxStarts \in Nat
  /\ \A i \in Instances : NfsPort[i] \in Nat \ {0} /\ MountPort[i] \in Nat \ {0}

None == 0                                           \* no port, nobody
Services == {"nfs3", "mount1", "mount3"}

VARIABLES pc,                \* where in main each instance is
          bound,             \* ports each instance holds
          pmap,              \* the portmapper: the port of each service
          pidfile,           \* absent, empty, or the instance named in it
          locker,            \* instance that holds the lock on the pid file
          warned,            \* its last work on the pid file failed: in syslog
          alone,             \* no other instance has run since its start
          ended,             \* how each instance ended last
          starts             \* starts so far

vars == <<pc, bound, pmap, pidfile, locker, warned, alone, ended, starts>>

Running == {i \in Instances : pc[i] # "off"}

TypeOK ==
  /\ pc \in [Instances -> {"off", "config", "nfs_bound", "nfs_unset", "nfs",
                           "mount_bound", "mount_unset", "mount", "child",
                           "pid_open", "up"}]
  /\ bound \in [Instances -> SUBSET Ports]
  /\ pmap \in [Services -> Ports \cup {None}]
  /\ pidfile \in {Absent, Empty} \cup Instances
  /\ locker \in {None} \cup Instances
  /\ warned \in [Instances -> BOOLEAN]
  /\ alone \in [Instances -> BOOLEAN]
  /\ ended \in [Instances -> [why : {"never", "failed", "stopped"}, clean : BOOLEAN]]
  /\ starts \in 0 .. MaxStarts

Init ==
  /\ pc = [i \in Instances |-> "off"]
  /\ bound = [i \in Instances |-> {}]
  /\ pmap = [s \in Services |-> None]
  /\ pidfile = Absent
  /\ locker = None
  /\ warned = [i \in Instances |-> FALSE]
  /\ alone = [i \in Instances |-> FALSE]
  /\ ended = [i \in Instances |-> [why |-> "never", clean |-> FALSE]]
  /\ starts = 0

(***************************************************************************)
(* The two ways to end.  exit(1), a signal before the handlers are set and *)
(* a crash only end the process; daemon_exit withdraws the registrations   *)
(* and removes the pid file first, whoever made them; that the file cannot *)
(* be removed is only logged.  The lock goes with the file.                *)
(***************************************************************************)
exit(i, why) ==
  /\ pc' = [pc EXCEPT ![i] = "off"]
  /\ bound' = [bound EXCEPT ![i] = {}]
  /\ ended' = [ended EXCEPT ![i] = [why |-> why, clean |-> FALSE]]
  /\ locker' = IF locker = i THEN None ELSE locker
  /\ UNCHANGED <<pmap, pidfile, warned, alone, starts>>

(* Mutant: version 1 of the mount protocol stays registered. *)
MountV1Kept == IF opt_portmapper
               THEN [s \in Services |-> IF s = "mount1" THEN pmap[s] ELSE None]
               ELSE pmap

svc_unregister == IF opt_portmapper THEN [s \in Services |-> None] ELSE pmap

remove_pid_file(i) ==
  \/ /\ pidfile' = Absent
     /\ locker' = None
     /\ warned' = [warned EXCEPT ![i] = FALSE]
  \/ /\ pidfile # Absent
     /\ locker' = IF locker = i THEN None ELSE locker
     /\ warned' = [warned EXCEPT ![i] = TRUE]
     /\ UNCHANGED pidfile

daemon_exit(i, why) ==
  /\ pmap' = svc_unregister
  /\ remove_pid_file(i)
  /\ pc' = [pc EXCEPT ![i] = "off"]
  /\ bound' = [bound EXCEPT ![i] = {}]
  /\ ended' = [ended EXCEPT ![i] = [why |-> why, clean |-> TRUE]]
  /\ UNCHANGED <<alone, starts>>

(***************************************************************************)
(* main, step by step.                                                     *)
(***************************************************************************)
Goes(i, from, to) == /\ pc[i] = from
                     /\ pc' = [pc EXCEPT ![i] = to]

Start(i) ==
  /\ starts < MaxStarts
  /\ Goes(i, "off", "config")
  /\ starts' = starts + 1
  /\ alone' = [j \in Instances |-> j = i /\ Running = {}]
  /\ warned' = [warned EXCEPT ![i] = FALSE]
  /\ UNCHANGED <<bound, pmap, pidfile, locker, ended>>

(* -T, an unusable option, an extra argument                               *)
Refuse(i) == pc[i] = "config" /\ exit(i, "stopped")

Taken(i, port) == \E j \in Instances \ {i} : port \in bound[j]

create_transport(i, from, to, port) ==
  /\ ~Taken(i, port)
  /\ Goes(i, from, to)
  /\ bound' = [bound EXCEPT ![i] = @ \cup {port}]
  /\ UNCHANGED <<pmap, pidfile, locker, warned, alone, ended, starts>>

(* bind fails: exit(1)                                                     *)
BindFails(i, from, port) == pc[i] = from /\ Taken(i, port) /\ exit(i, "failed")

(* svcudp_bufcreate or svctcp_create has no memory: daemon_exit            *)
TransportFails(i) ==
  /\ \/ pc[i] = "config" /\ ~Taken(i, NfsPort[i])
     \/ pc[i] = "nfs" /\ MountPort[i] # NfsPort[i] /\ ~Taken(i, MountPort[i])
  /\ daemon_exit(i, "stopped")

(* Mutant: registrations of an earlier server are not withdrawn. *)
NothingUnset(S) == pmap

pmap_unset(S) == IF opt_portmapper
                 THEN [s \in Services |-> IF s \in S THEN None ELSE pmap[s]]
                 ELSE pmap

(* pmap_set refuses a service that is registered with another port.        *)
svc_register(i, from, to, S, port) ==
  /\ pc[i] = from
  /\ IF opt_portmapper /\ \E s \in S : pmap[s] \notin {None, port}
     THEN daemon_exit(i, "failed")
     ELSE /\ Goes(i, from, to)
          /\ pmap' = [s \in Services |->
                        IF opt_portmapper /\ s \in S THEN port ELSE pmap[s]]
          /\ UNCHANGED <<bound, pidfile, locker, warned, alone, ended, starts>>

BindNfs(i) == \/ create_transport(i, "config", "nfs_bound", NfsPort[i])
              \/ BindFails(i, "config", NfsPort[i])

UnsetNfs(i) ==
  /\ Goes(i, "nfs_bound", "nfs_unset")
  /\ pmap' = pmap_unset({"nfs3"})
  /\ UNCHANGED <<bound, pidfile, locker, warned, alone, ended, starts>>

register_nfs_service(i) == svc_register(i, "nfs_unset", "nfs", {"nfs3"}, NfsPort[i])

(* Equal ports share the transports of NFS.                                *)
BindMount(i) == \/ create_transport(i, "nfs", "mount_bound", MountPort[i])
                \/ BindFails(i, "nfs", MountPort[i])

UnsetMount(i) ==
  /\ Goes(i, "mount_bound", "mount_unset")
  /\ pmap' = pmap_unset({"mount1", "mount3"})
  /\ UNCHANGED <<bound, pidfile, locker, warned, alone, ended, starts>>

register_mount_service(i) ==
  svc_register(i, "mount_unset", "mount", {"mount1", "mount3"}, MountPort[i])

(* fork; the child sets the signal handlers                                *)
Fork(i) ==
  /\ Goes(i, "mount", "child")
  /\ UNCHANGED <<bound, pmap, pidfile, locker, warned, alone, ended, starts>>

ForkFails(i) == pc[i] = "mount" /\ daemon_exit(i, "stopped")

(* create_pid_file opens the file with O_TRUNC before it asks for the lock *)
(* (open, flock), writes the pid and closes the file, which releases the   *)
(* lock.  Each may fail: it is logged and the server goes on.  A file that *)
(* another instance has removed meanwhile is written to all the same, but  *)
(* nobody finds it: its writer is no longer `locker`.                      *)
OpenPidFile(i) ==
  /\ locker = None
  /\ Goes(i, "child", "pid_open")
  /\ pidfile' = Empty
  /\ locker' = i
  /\ UNCHANGED <<bound, pmap, warned, alone, ended, starts>>

PidFileFails(i) ==
  /\ Goes(i, "child", "up")
  /\ pidfile' \in {pidfile, Empty}
  /\ warned' = [warned EXCEPT ![i] = TRUE]
  /\ UNCHANGED <<bound, pmap, locker, alone, ended, starts>>

WritePidFile(i) ==
  /\ Goes(i, "pid_open", "up")
  /\ \/ pidfile' = (IF locker = i THEN i ELSE pidfile) /\ UNCHANGED warned
     \/ warned' = [warned EXCEPT ![i] = TRUE] /\ UNCHANGED pidfile
  /\ locker' = IF locker = i THEN None ELSE locker
  /\ UNCHANGED <<bound, pmap, alone, ended, starts>>

create_pid_file(i) == OpenPidFile(i) \/ PidFileFails(i) \/ WritePidFile(i)

(* unfs3_svc_run returns when select fails, and main exits.                *)
SelectFails(i) == pc[i] = "up" /\ exit(i, "stopped")

Handled == {"child", "pid_open", "up"}

Terminate(i) == pc[i] # "off" /\ IF pc[i] \in Handled THEN daemon_exit(i, "stopped")
                                 ELSE exit(i, "stopped")

Crash(i) == pc[i] # "off" /\ exit(i, "stopped")

main(i) == \/ BindNfs(i) \/ UnsetNfs(i) \/ register_nfs_service(i)
           \/ BindMount(i) \/ UnsetMount(i) \/ register_mount_service(i)
           \/ Fork(i) \/ create_pid_file(i)

Disturbed(i) == \/ Refuse(i) \/ TransportFails(i) \/ ForkFails(i)
                \/ SelectFails(i) \/ Terminate(i) \/ Crash(i)

Next == \E i \in Instances : Start(i) \/ main(i) \/ Disturbed(i)

Spec == Init /\ [][Next]_vars

(* main runs on as long as nobody stops the process.                       *)
FairSpec == Spec /\ \A i \in Instances : WF_vars(main(i))

-----------------------------------------------------------------------------
(* What others see of a server that runs alone, whatever earlier instances *)
(* left behind (registrations and a pid file after a crash or a failed     *)
(* start): once it serves, every service is registered with its port, and  *)
(* the pid file names it unless create_pid_file has logged a failure.      *)
(* Once it has ended through daemon_exit, nothing is registered, and there *)
(* is no pid file unless remove_pid_file has logged a failure (unfsd.8:    *)
(* neither is fatal, both are reported).                                   *)
Advertised ==
  \A i \in Instances : alone[i] =>
    /\ pc[i] = "up" =>
         /\ pidfile = i \/ warned[i]
         /\ opt_portmapper => /\ pmap["nfs3"] = NfsPort[i]
                              /\ pmap["mount1"] = MountPort[i]
                              /\ pmap["mount3"] = MountPort[i]
    /\ pc[i] = "off" /\ ended[i].clean =>
         /\ pidfile = Absent \/ warned[i]
         /\ opt_portmapper => \A s \in Services : pmap[s] = None

(* A server that is started alone, with valid options, comes up unless     *)
(* somebody ends it, another is started, or fork or the RPC library has no *)
(* memory: registrations left by a crash with other ports do not stop it,  *)
(* since pmap_unset precedes every svc_register.                           *)
StartsUp ==
  \A i \in Instances :
    pc[i] = "config" /\ alone[i]
      ~> \/ pc[i] = "up" \/ ~alone[i]
         \/ pc[i] = "off" /\ ended[i].why = "stopped"
=============================================================================
