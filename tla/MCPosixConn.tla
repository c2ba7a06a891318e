---------------------------- MODULE MCPosixConn ----------------------------
(* PosixConn for TLC: one connection where liveness is checked, else two.   *)
EXTENDS PosixConn
=============================================================================
