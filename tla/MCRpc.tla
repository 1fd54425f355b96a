------------------------------- MODULE MCRpc -------------------------------
EXTENDS Rpc

(* A small read, one above the UDP maximum, one above the TCP maximum.     *)
MCReadCounts == {1, 8192, 20000, 200000}
=============================================================================
