---------------------------- MODULE MCAddrPool ----------------------------
(* AddrPool with few addresses, for TLC. *)
EXTENDS AddrPool
=============================================================================
