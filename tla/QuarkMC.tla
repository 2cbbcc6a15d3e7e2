------------------------------- MODULE QuarkMC -------------------------------
(***************************************************************************)
(* The programs on which module Quark is checked: that of                  *)
(* plasma_pdpotrf_quark, and others of a few tasks each, for what the      *)
(* Cholesky factorization does not use.                                    *)
(***************************************************************************)
EXTENDS Quark, PotrfTasks

Arg(a, w)  == [addr |-> a, write |-> w, region |-> All, gather |-> FALSE]
In(a)      == Arg(a, FALSE)
InOut(a)   == Arg(a, TRUE)
Gather(a)  == [InOut(a) EXCEPT !.gather = TRUE]
Part(d, g) == [d EXCEPT !.region = g]

\* A program without priorities, LOCALITY arguments, sequence or limit.
Plain(args) ==
  [args |-> args, addrs |-> Addrs(args), order |-> Order(args),
   prio |-> [t \in DOMAIN args |-> 0], local |-> Locality(args),
   member |-> {}, fails |-> {}, water |-> 0, backlogs |-> {20}, robins |-> {1}]
-----------------------------------------------------------------------------
(* Cholesky factorization of NT x NT tiles                                 *)

\* The tasks in the order of insertion, and the address of a tile.
Inserted   == [i \in 1 .. Cardinality(TileTasks) |->
                 CHOOSE t \in TileTasks : Cardinality({s \in TileTasks : Before(s, t)}) = i - 1]
Address(x) == NT * x[2] + x[1] + 1

Potrf == Plain([i \in DOMAIN Inserted |->
                  [j \in 1 .. Cardinality(Inputs(Inserted[i])) |->
                     In(Address(SetToSeq(Inputs(Inserted[i]))[j]))]
                  \o <<InOut(Address(Tile(Inserted[i])))>>])

\* The dpotrf of panel k may find that the matrix is not positive definite.
Breaks(k, p) == [p EXCEPT !.member = DOMAIN p.args,
                          !.fails = {i \in DOMAIN p.args : Inserted[i] = <<k, k, k>>}]

Window(w, p) == [p EXCEPT !.water = w]
-----------------------------------------------------------------------------
(* Small programs                                                          *)

\* Readers between writers; task 2 cancels the sequence, of which task 4 is no member.
Cancels == [Plain(<< <<InOut(1)>>, <<In(1), InOut(2)>>, <<In(1)>>, <<InOut(1), In(2)>> >>)
            EXCEPT !.member = {1, 2, 3}, !.fails = {2}]

\* Writers of the two triangles of a tile, and a reader of one of them.
Regions == Plain(<< <<InOut(1)>>, <<Part(InOut(1), {"L"})>>, <<Part(InOut(1), {"U"})>>,
                    <<Part(In(1), {"L", "D"})>> >>)

\* Gathered writers with a priority; then a task that has the same tile three times and
\* LOCALITY at another one.
Gathers == [Plain(<< <<InOut(1)>>, <<Gather(1)>>, <<Gather(1)>>, <<In(1), In(2), InOut(1)>> >>)
            EXCEPT !.prio = <<0, 1, 2, 1>>, !.local[4] = 2]

\* Work for everybody, and a successor that thread 1 may release during its insertion.
Helped == [Plain(<< <<InOut(1)>>, <<InOut(2)>>, <<InOut(2)>> >>)
           EXCEPT !.backlogs = {0}, !.robins = {0}]

\* A task that fails; then a member that need not wait for it, which thread 1 may release
\* and skip while the master inserts it.
Skips == [Plain(<< <<InOut(1)>>, <<InOut(2)>>, <<InOut(2)>> >>)
          EXCEPT !.backlogs = {0}, !.member = {1, 3}, !.fails = {1}]

MCPrograms == {Cancels, Regions, Gathers, Helped, Skips, Window(2, Breaks(1, Potrf))}
MCHelped   == {Helped}

\* On[x]: the tasks that write tile x.
On == [x \in Tiles |-> {i \in DOMAIN Inserted : Tile(Inserted[i]) = x}]

\* What the tasks done so far have made of tile x (module TileCholesky).
Applied(x) ==
  LET done == {i \in On[x] : q.status[i] = "DONE"}
  IN  IF done \cap prog.fails # {} THEN -1 ELSE Cardinality(done)

T == INSTANCE TileCholesky WITH
       tile <- [x \in Tiles |-> IF prog.args = Potrf.args THEN Applied(x) ELSE 0] @@ <<>>

\* The dynamic Cholesky factorization does what a tile Cholesky factorization may do: no
\* task is applied to a tile before its operands are finished, and after a dpotrf has
\* failed nothing reads its tile.
TilesFollow == T!Spec
=============================================================================
