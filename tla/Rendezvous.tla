----------------------------- MODULE Rendezvous ------------------------------
(***************************************************************************)
(* What the barriers of control/control.cpp promise: a rank that has       *)
(* arrived stays until every rank has, and the last arrival lets all go.   *)
(* inside is the set of ranks held.                                        *)
(***************************************************************************)
EXTENDS Integers

CONSTANT SIZE          \* number of ranks (PLASMA_SIZE)

VARIABLE inside

Ranks == 0 .. SIZE - 1

Init == inside = {}

Arrive(r) == /\ r \notin inside
             /\ inside' = IF inside \cup {r} = Ranks THEN {} ELSE inside \cup {r}

Next == \E r \in Ranks : Arrive(r)

Spec == Init /\ [][Next]_inside
=============================================================================
