------------------------------- MODULE MCDist -------------------------------
(* Two workers, one of which can be started again: registrations, ends and   *)
(* resets meet in every order that three connections allow.                  *)
EXTENDS Dist

=============================================================================
