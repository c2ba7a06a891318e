----------------------------- MODULE MCLoader -----------------------------
(* Loader on a few cores, for TLC. *)
EXTENDS Loader
=============================================================================
