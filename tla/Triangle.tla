------------------------------ MODULE Triangle ------------------------------
(***************************************************************************)
(* The lower triangle of tiles that the ranks of a static schedule share,  *)
(* and the loop that carries a position that has run past the last row     *)
(* into the next columns.                                                  *)
(***************************************************************************)
EXTENDS Integers

CONSTANTS NT,      \* tile rows and columns (A.nt)
          SIZE     \* number of ranks that share the triangle (PLASMA_SIZE)

ASSUME NTAssumption   == NT \in Nat \ {0}
ASSUME SizeAssumption == SIZE \in Nat \ {0}

Ranks == 0 .. SIZE - 1
Index == 0 .. NT - 1
Tiles == {t \in Index \X Index : t[2] =< t[1]}

\* while (m >= nt && k < nt) { k++; m = m - nt + k; }
Carried(p) ==
  LET carry[q \in [k : Nat, m : Nat, n : Nat]] ==
        IF q.m >= NT /\ q.k < NT
        THEN carry[[k |-> q.k + 1, m |-> q.m - NT + q.k + 1, n |-> q.n]]
        ELSE q
  IN  carry[p]

\* A tile is the number of tasks applied to it, as in TileCholesky.
Garbage    == -1
Done(v, t) == v = t[2] + 1
=============================================================================
