------------------------------ MODULE MCDaemon ------------------------------
EXTENDS Daemon

(* Three servers: 1 and 2 share the mount port but not the NFS port, 3 uses *)
(* one port of its own for both services.                                   *)
MCNfsPort   == <<2049, 2050, 2051>>
MCMountPort == <<635, 635, 2051>>
=============================================================================
