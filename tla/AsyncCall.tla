----------------------------- MODULE AsyncCall -----------------------------
(***************************************************************************)
(* What smp::submit_to promises to its callers, with no rings, no staging  *)
(* vectors and no batches: for every ordered pair of cores an unbounded    *)
(* first-in first-out list of calls.  The oldest call that has not run may *)
(* run on the destination, the oldest that ran and has not been completed  *)
(* may be completed on the source.  Nothing is promised about when.        *)
(***************************************************************************)
EXTENDS Naturals

CONSTANT Pairs   \* the ordered pairs <<dst, src>> of cores

VARIABLES
    called,    \* [Pairs -> Nat]: calls submitted
    run,       \* [Pairs -> Nat]: of these, how many ran (the first ones)
    finished   \* [Pairs -> Nat]: of these, how many were completed

vars == <<called, run, finished>>

Init ==
    /\ called = [p \in Pairs |-> 0]
    /\ run = [p \in Pairs |-> 0]
    /\ finished = [p \in Pairs |-> 0]

\* One call on each pair of P (reactor::stop calls all the workers at once).
Call(P) ==
    /\ called' = [p \in Pairs |-> IF p \in P THEN called[p] + 1 ELSE called[p]]
    /\ UNCHANGED <<run, finished>>

Run(p) ==
    /\ run[p] < called[p]
    /\ run' = [run EXCEPT ![p] = @ + 1]
    /\ UNCHANGED <<called, finished>>

Finish(p) ==
    /\ finished[p] < run[p]
    /\ finished' = [finished EXCEPT ![p] = @ + 1]
    /\ UNCHANGED <<called, run>>

Next ==
    \/ \E P \in SUBSET Pairs : Call(P)
    \/ \E p \in Pairs : Run(p) \/ Finish(p)

Spec == Init /\ [][Next]_vars
=============================================================================
