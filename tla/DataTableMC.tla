----------------------------- MODULE DataTableMC -----------------------------
(***************************************************************************)
(* The machines on which module DataTable is checked.                      *)
(***************************************************************************)
EXTENDS DataTable

\* One GPU with the smallest table that the code accepts.
OneGpu == [dist |-> FALSE, perDevice |-> SIZE, free |-> 2 * SIZE, roots |-> {0}]

\* The ranks n to a GPU, with room for free tiles on each, and the first of them
\* its root, as libstdc++ has it for up to 12 ranks inserted in order.
Spread(n, free) == [dist |-> TRUE, perDevice |-> n, free |-> free, roots |-> {0}]

MCMachines == {OneGpu, Spread(1, 3 * SIZE)}

\* All ranks on one GPU, whose root may be any of them.
MCAnyRoot == {[Spread(SIZE, 3) EXCEPT !.roots = Ranks]}
=============================================================================
