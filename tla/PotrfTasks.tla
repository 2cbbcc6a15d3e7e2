------------------------------ MODULE PotrfTasks ------------------------------
(***************************************************************************)
(* The tasks of plasma_pdpotrf_quark (compute/pdpotrf.c, lower triangle):  *)
(* which tiles each of them reads and writes, and the order in which the   *)
(* loops of the routine insert them.  <<m, n, k>> is the task that panel k *)
(* applies to tile <<m, n>>: an update (dsyrk, dgemm) for k < n, the       *)
(* tile's own task (dpotrf, dtrsm) for k = n.                              *)
(***************************************************************************)
EXTENDS Integers

CONSTANT NT            \* A.mt: tile rows and columns

ASSUME NTAssumption == NT \in Nat

Index == 0 .. NT - 1
Tiles == {x \in Index \X Index : x[2] =< x[1]}
TileTasks == {t \in Index \X Index \X Index : t[3] =< t[2] /\ t[2] =< t[1]}

IsPotrf(t)  == t[3] = t[2] /\ t[2] = t[1]
IsTrsm(t)   == t[3] = t[2] /\ t[2] < t[1]
IsUpdate(t) == t[3] < t[2]

Tile(t) == <<t[1], t[2]>>

\* Mutant of Inputs: a dgemm has one operand only.
InputsOne(t) == IF IsUpdate(t) THEN {<<t[2], t[3]>>} ELSE {<<t[2], t[2]>>} \ {Tile(t)}

\* The INPUT arguments; the INOUT argument is the tile itself.
Inputs(t) == IF IsUpdate(t) THEN {<<t[1], t[3]>>, <<t[2], t[3]>>}
             ELSE {<<t[2], t[2]>>} \ {Tile(t)}

\* In one panel: dpotrf, the dtrsm of each row, the updates row by row; the dsyrk of
\* a row comes first.
InPanel(s, t) ==
  \/ IsPotrf(s) /\ ~IsPotrf(t)
  \/ IsTrsm(s) /\ IsTrsm(t) /\ s[1] < t[1]
  \/ IsTrsm(s) /\ IsUpdate(t)
  \/ /\ IsUpdate(s) /\ IsUpdate(t)
     /\ \/ s[1] < t[1]
        \/ s[1] = t[1] /\ s[2] = s[1] /\ t[2] # t[1]
        \/ s[1] = t[1] /\ t[2] # t[1] /\ s[2] < t[2]

Before(s, t) == \/ s[3] < t[3]
                \/ s[3] = t[3] /\ InPanel(s, t)
=============================================================================
