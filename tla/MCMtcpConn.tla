----------------------------- MODULE MCMtcpConn -----------------------------
(* Two sockets, so that a connection reconnects once, and queues of 6 slots, *)
(* for which EventQueLen takes a length of 2 for 0.                          *)
EXTENDS MtcpConn

=============================================================================
