------------------------------ MODULE PotrfOrder ------------------------------
(***************************************************************************)
(* The dynamic Cholesky factorization as QUARK runs it (module TaskOrder): *)
(* plasma_pdpotrf_quark inserts the tasks of module PotrfTasks, all in one *)
(* sequence, and the order is that of their data.  A tile changes when a   *)
(* task on it is over.  A dpotrf fails if its block is not positive        *)
(* definite; its tile is then Garbage, as in TileCholesky.                 *)
(***************************************************************************)
EXTENDS PotrfTasks

VARIABLES order, member, fails, state, sequence,
          tile         \* tile[x]: tasks applied to tile x, or Garbage

Q == INSTANCE TaskOrder WITH Tasks <- TileTasks
T == INSTANCE TileCholesky

\* Tasks that share a tile which one of them writes, in the order of insertion.
DataOrder ==
  {p \in TileTasks \X TileTasks :
     /\ Before(p[1], p[2])
     /\ \/ Tile(p[1]) = Tile(p[2])
        \/ Tile(p[1]) \in Inputs(p[2])
        \/ Tile(p[2]) \in Inputs(p[1])}

Init == /\ order = DataOrder
        /\ member = TileTasks
        /\ fails \in SUBSET {t \in TileTasks : IsPotrf(t)}
        /\ Q!Init
        /\ tile = [x \in Tiles |-> 0]

Finish(t) == /\ Q!Finish(t)
             /\ tile' = [tile EXCEPT ![Tile(t)] = IF t \in fails THEN T!Garbage ELSE @ + 1]

Schedule == /\ \/ \E t \in TileTasks : Q!Start(t) \/ Q!Skip(t) \/ Q!Reject(t)
               \/ Q!BeginCancel
               \/ Q!EndCancel
            /\ UNCHANGED tile

Next == \/ \E t \in TileTasks : Finish(t)
        \/ Schedule

vars == <<order, member, fails, state, sequence, tile>>

Spec == Init /\ [][Next]_vars
-----------------------------------------------------------------------------
(* The inductive invariant                                                 *)

TypeOK == /\ order = DataOrder
          /\ member = TileTasks
          /\ fails \in SUBSET {t \in TileTasks : IsPotrf(t)}
          /\ state \in [TileTasks -> Q!States]
          /\ sequence \in {"on", "ending", "off"}
          /\ tile \in [Tiles -> Int]

\* What runs or has run was preceded by all it depends on, none of which had failed.
Sound == \A t \in TileTasks : state[t] \in {"running", "done"} =>
           \A s \in TileTasks : <<s, t>> \in order => state[s] = "done" /\ s \notin fails

\* A failed task is over only when the sequence is cancelled.
Stopped == \A t \in fails : state[t] = "done" => sequence = "off"

Own(x)    == <<x[1], x[2], x[2]>>
Failed(x) == Own(x) \in fails /\ state[Own(x)] = "done"

\* The tasks done on a tile are the first ones, and the tile counts them.
Counts == \A x \in Tiles :
            IF Failed(x) THEN tile[x] = T!Garbage
            ELSE /\ tile[x] \in 0 .. x[2] + 1
                 /\ \A k \in 0 .. x[2] : state[<<x[1], x[2], k>>] = "done" <=> k < tile[x]

Inv == TypeOK /\ Sound /\ Stopped /\ Counts
=============================================================================
