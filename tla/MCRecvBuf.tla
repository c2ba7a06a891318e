----------------------------- MODULE MCRecvBuf -----------------------------
(* A stream longer than the buffer whose sequence numbers wrap around.      *)
EXTENDS RecvBuf

=============================================================================
