----------------------------- MODULE MCCancelScope -----------------------------
(***************************************************************************)
(* Model-checking instances of CancelScope: a program whose with-blocks    *)
(* are well nested, with a shield; one with a single scope that also has a *)
(* deadline; and one that calls __exit__ in any order and from any task.   *)
(***************************************************************************)
EXTENDS CancelScope, TLC

CONSTANTS root, s1, s2, t1, t2

VARIABLE program    \* which of the three this is

Timed == INSTANCE CancelScope WITH Deadlined <- {s1}

Misnested == INSTANCE CancelScope WITH Misnesting <- TRUE, Shielding <- {}

MCInit == Init /\ program \in {"nested", "timed", "misnested"}

MCSpec ==
    /\ MCInit
    /\ [][/\ \/ program = "nested" /\ Next
             \/ program = "timed" /\ Timed!Next /\ s2 \notin has_been_entered'
             \/ program = "misnested" /\ Misnested!Next
          /\ UNCHANGED program]_<<vars, program>>

\* The tasks are interchangeable.
Symmetry == Permutations({t1, t2})
================================================================================
