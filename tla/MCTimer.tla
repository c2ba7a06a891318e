------------------------------- MODULE MCTimer ------------------------------
(* Timer on a small instance: one-shot, two-shot and infinite timers. *)
EXTENDS Timer
MCRepeats == {Infinite, 1, 2}
=============================================================================
