------------------------------ MODULE TileWalk ------------------------------
(***************************************************************************)
(* The walk of a rank through the lower triangle as the schedulers of      *)
(* compute/pdpotrf_gpu_hpcasia24.cpp compute it from their local k, m, n:  *)
(* a position is the record [k, m, n] of task n on tile A(m, k).           *)
(***************************************************************************)
EXTENDS Triangle

\* Every rank has a tile: the code's first loop has no test of k, and for a
\* rank beyond the triangle it runs until its int overflows.
ASSUME TilesAssumption == 2 * SIZE =< NT * (NT + 1)

StartOf(r) == Carried([k |-> 0, m |-> r, n |-> 0])

\* next_n++; if (next_n > next_k) the tile SIZE places further on.
NextOf(p) ==
  IF p.n < p.k
  THEN [p EXCEPT !.n = @ + 1]
  ELSE Carried([k |-> p.k, m |-> p.m + SIZE, n |-> 0])

InTriangle(p) == p.k < NT /\ p.m < NT

TileOf(p)  == <<p.m, p.k>>
First(p)   == <<p.k, p.n>>      \* A(k, n), and A(k, k) for a trsm
Second(p)  == <<p.m, p.n>>      \* A(m, n)
IsPotrf(p) == p.m = p.k /\ p.n = p.k
IsSyrk(p)  == p.m = p.k /\ p.n # p.k
IsTrsm(p)  == p.m # p.k /\ p.n = p.k
IsGemm(p)  == p.m # p.k /\ p.n # p.k
=============================================================================
