------------------------------- MODULE MCNursery -------------------------------
(***************************************************************************)
(* Model-checking instances of Nursery.  In the first, the main task opens *)
(* two nurseries, and any of three tasks calls start() on either.  In the  *)
(* second, one nursery with a deadline, two tasks, a shield around the     *)
(* start() and a scope inside the child.                                   *)
(***************************************************************************)
EXTENDS Nursery, FiniteSets, TLC

CONSTANTS root, n1, n2, o1, s1, s2, t1, t2, t3

VARIABLE program    \* which of the two this is

Shielded ==
    INSTANCE Nursery
    WITH Shielding <- {s1}, Deadlined <- {n1}, Cancellable <- {n1}

\* One child, spawned or about to be.
OneChild ==
    Cardinality({t \in Task : pc[t] # "unborn"})
        + Cardinality({t \in Task : pc[t] = "spawn"}) <= 2

\* The main task uses the shield, the child the other scope.
ShieldAround == owner[s1] \in {Main, None} /\ owner[s2] # Main

\* Only the main task opens nurseries.
MainOpens == \A n \in NurseryScope : owner[n] \in {Main, None}

MCInit == NurseryInit /\ program \in {"children", "shielded"}

MCSpec ==
    /\ MCInit
    /\ [][/\ \/ /\ program = "children"
                /\ NurseryNext
                /\ has_been_entered' \cap {s1, s2} = {}
                /\ MainOpens'
             \/ /\ program = "shielded"
                /\ Shielded!NurseryNext
                /\ n2 \notin has_been_entered'
                /\ OneChild' /\ ShieldAround'
          /\ UNCHANGED program]_<<allVars, program>>

\* The children are interchangeable.
Symmetry == Permutations({t2, t3})
================================================================================
