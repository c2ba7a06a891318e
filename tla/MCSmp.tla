------------------------------- MODULE MCSmp -------------------------------
(* Instances of Smp for TLC: the constants are given in the .cfg files.     *)
EXTENDS Smp
=============================================================================
