----------------------------- MODULE ByteStream -----------------------------
(***************************************************************************)
(* What a TCP connection promises its reader: the bytes that the peer sent,*)
(* each once and in order, and the end of the stream after the last one,   *)
(* or after a reset.                                                       *)
(***************************************************************************)
EXTENDS Naturals, Sequences

CONSTANT Length     \* bytes that the peer sends: 1, 2, ... Length

VARIABLES output, ended, reset

Init == output = <<>> /\ ended = FALSE /\ reset = FALSE

Read ==
    /\ ~ended
    /\ \E n \in Len(output) + 1 .. Length : output' = [k \in 1 .. n |-> k]
    /\ UNCHANGED <<ended, reset>>

End == (Len(output) = Length \/ reset) /\ ended' = TRUE /\ UNCHANGED <<output, reset>>

Reset == reset' = TRUE /\ UNCHANGED <<output, ended>>

Spec == Init /\ [][Read \/ End \/ Reset]_<<output, ended, reset>>

================================================================================
