---------------------------- MODULE TileCholesky ----------------------------
(***************************************************************************)
(* What every tile Cholesky routine of the library promises, whatever its  *)
(* schedule: the lower triangle of NT x NT tiles is transformed in place   *)
(* by a partial order of tile tasks.  Tile <<m, k>> (row m, column k) is   *)
(* updated by panels 0, 1, .., k-1 in this order and is then finished by   *)
(* the task of its own panel k.  A tile is represented by the number of    *)
(* tasks applied to it: 0 is the caller's matrix, k+1 is the finished tile *)
(* of column k.  A task may only run on finished operands.  The diagonal   *)
(* task of a panel may discover that the matrix is not positive definite;  *)
(* its tile is then Garbage and is an operand of nothing.                  *)
(***************************************************************************)
EXTENDS Integers

CONSTANT NT            \* number of tile rows and columns (A.nt)

VARIABLE tile          \* tile[t]: tasks applied to tile t, or Garbage

Garbage == -1
Index   == 0 .. NT - 1
Tiles   == {t \in Index \X Index : t[2] =< t[1]}

\* The tile <<m, k>> holds its part of the factor.
Finished(v, t) == v = t[2] + 1

\* The tiles that the task of panel n on tile t = <<m, k>> reads.
Operands(t, n) == IF n = t[2] THEN {<<t[2], t[2]>>} \ {t}
                              ELSE {<<t[2], n>>, <<t[1], n>>}

Ready(t) == /\ tile[t] \in 0 .. t[2]
            /\ \A o \in Operands(t, tile[t]) : Finished(tile[o], o)

\* The run is over: the factor is complete, or some diagonal task failed.
Settled == \/ \A t \in Tiles : Finished(tile[t], t)
           \/ \E k \in Index : tile[<<k, k>>] = Garbage
-----------------------------------------------------------------------------
Init == tile = [t \in Tiles |-> 0]

Task(t) == /\ Ready(t)
           /\ tile' = [tile EXCEPT ![t] = @ + 1]

Breakdown(k) == /\ Ready(<<k, k>>)
                /\ tile[<<k, k>>] = k
                /\ tile' = [tile EXCEPT ![<<k, k>>] = Garbage]

\* A new call brings a new matrix, but never before the last one settled.
NewMatrix == /\ Settled
             /\ tile' = [t \in Tiles |-> 0]

Next == \/ \E t \in Tiles : Task(t)
        \/ \E k \in Index : Breakdown(k)
        \/ NewMatrix

Spec == Init /\ [][Next]_tile
=============================================================================
