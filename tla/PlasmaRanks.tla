----------------------------- MODULE PlasmaRanks -----------------------------
(***************************************************************************)
(* The ranks that meet in the barriers of control/control.cpp: the master  *)
(* is rank 0, the workers are the others.                                  *)
(***************************************************************************)
EXTENDS Integers

CONSTANT SIZE          \* number of ranks (PLASMA_SIZE)

ASSUME SizeAssumption == SIZE \in Nat \ {0}

Ranks   == 0 .. SIZE - 1
Workers == Ranks \ {0}
=============================================================================
