------------------------------ MODULE BarriersMC ------------------------------
(***************************************************************************)
(* The two barriers of control/control.cpp, as the ranks of one routine    *)
(* use them: again and again one and the same of the two.                  *)
(***************************************************************************)
EXTENDS Barrier, BarrierBw

VARIABLE busy            \* the routine calls plasma_barrier_bw

BothInit == Init /\ BwInit /\ busy \in BOOLEAN

BothNext == /\ UNCHANGED busy
            /\ \/ ~busy /\ Next /\ UNCHANGED bwVars
               \/ busy /\ BwNext /\ UNCHANGED vars

BothSpec == BothInit /\ [][BothNext]_<<busy, vars, bwVars>> /\ BwFair
=============================================================================
