----------------------------- MODULE PotrfStatic -----------------------------
(***************************************************************************)
(* The statically scheduled tile Cholesky of compute/pdpotrf_gpu.c, one    *)
(* thread per rank, on the progress table of control/common.h.             *)
(*                                                                         *)
(* Every rank walks its own share of the lower triangle, column by column, *)
(* and applies all the tasks of a tile before it takes its next tile.      *)
(* Ranks are ordered only by the progress table (ss_cond_set, ss_cond_wait)*)
(* and by the barriers of ss_init, ss_finalize and plasma_static_call.     *)
(* A rank's step of the task loop (k, m, n in the code) is col, row, step. *)
(*                                                                         *)
(* Data: a tile is the number of tasks applied to it, as in TileCholesky;  *)
(* a kernel run on anything but the operands its panel needs makes Garbage.*)
(* The two reads of ss_cond_wait (the progress cell, then ss_abort) are    *)
(* one step: a progress cell is never reset during a call, so the step can *)
(* be placed at the second read.                                           *)
(***************************************************************************)
EXTENDS Triangle

CONSTANT MaxCalls     \* bound: factorizations asked for in one run

ASSUME CallsAssumption == MaxCalls \in Nat

VARIABLES
  pc,          \* pc[r]: where rank r is
  col, row, step,   \* k, m, n of rank r
  dst, op1, op2,    \* device buffers of rank r: the tile it updates, operands
  info,        \* info[r]: the last factorization of rank r broke down
  host,        \* host[t]: tile t in host memory
  progress,    \* ss_progress
  allocated,   \* ss_progress points to a table
  abort,       \* ss_abort
  status,      \* sequence->status
  calls        \* calls made so far

work == <<col, row, step>>
bufs == <<dst, op1, op2, info>>
shared == <<host, progress, allocated, abort, status, calls>>
vars == <<pc, work, bufs, shared>>

Value   == {Garbage} \cup 0 .. NT

\* sequence->status: PLASMA_SUCCESS, the panel that broke down (its number
\* plus one stands for info + nb * k), PLASMA_ERR_SEQUENCE_FLUSHED.
Success == 0
Failed(k) == k + 1
Flushed == NT + 1

PC == {"idle", "enter", "init", "init_bar", "start", "roll", "top", "load",
       "wait1", "load1", "wait2", "load2", "kernel", "store", "fail", "abort",
       "publish", "next", "fini_bar", "free", "exit_bar"}

Goto(r, l) == pc' = [pc EXCEPT ![r] = l]

Mine(r)     == <<row[r], col[r]>>         \* the tile A(m, k) of the step
Operand1(r) == <<col[r], step[r]>>        \* A(k, n), and A(k, k) when n = k
Operand2(r) == <<row[r], step[r]>>        \* A(m, n)
IsPotrf(r)  == row[r] = col[r] /\ step[r] = col[r]
IsGemm(r)   == row[r] # col[r] /\ step[r] # col[r]
-----------------------------------------------------------------------------
Init == /\ pc = [r \in Ranks |-> "idle"]
        /\ col = [r \in Ranks |-> 0]
        /\ row = [r \in Ranks |-> 0]
        /\ step = [r \in Ranks |-> 0]
        /\ dst = [r \in Ranks |-> Garbage]
        /\ op1 = [r \in Ranks |-> Garbage]
        /\ op2 = [r \in Ranks |-> Garbage]
        /\ info = [r \in Ranks |-> FALSE]
        /\ host = [t \in Tiles |-> 0]
        /\ progress = [t \in Tiles |-> 0]
        /\ allocated = FALSE
        /\ abort = FALSE
        /\ status = Success
        /\ calls = 0

\* PLASMA_dpotrf_gpu_Tile_Async by the master on a new matrix, with a new
\* sequence or one that has not failed; plasma_static_call starts every rank.
StartCall ==
  /\ calls < MaxCalls
  /\ \A r \in Ranks : pc[r] = "idle"
  /\ calls' = calls + 1
  /\ status' = Success
  /\ host' = [t \in Tiles |-> 0]
  /\ pc' = [r \in Ranks |-> "enter"]
  /\ UNCHANGED <<work, bufs, progress, allocated, abort>>

\* The same call on a sequence that has failed: refused before any rank runs.
RefuseCall ==
  /\ calls < MaxCalls
  /\ \A r \in Ranks : pc[r] = "idle"
  /\ status # Success
  /\ calls' = calls + 1
  /\ status' = Flushed
  /\ UNCHANGED <<pc, work, bufs, host, progress, allocated, abort>>

\* if (sequence->status != PLASMA_SUCCESS) return;
Enter(r) ==
  /\ pc[r] = "enter"
  /\ Goto(r, IF status # Success THEN "exit_bar" ELSE "init")
  /\ UNCHANGED <<work, bufs, shared>>

\* Mutant of SsInit: the abort flag of the last call is not cleared.
SsInitStaleAbort(r) ==
  /\ pc[r] = "init"
  /\ IF r = 0
     THEN /\ allocated' = TRUE
          /\ progress' = [t \in Tiles |-> 0]
     ELSE UNCHANGED <<allocated, progress>>
  /\ Goto(r, "init_bar")
  /\ UNCHANGED <<work, bufs, host, abort, status, calls>>

\* ss_init: rank 0 makes the table; every rank clears ss_abort.
SsInit(r) ==
  /\ pc[r] = "init"
  /\ IF r = 0
     THEN /\ allocated' = TRUE
          /\ progress' = [t \in Tiles |-> 0]
     ELSE UNCHANGED <<allocated, progress>>
  /\ abort' = FALSE
  /\ Goto(r, "init_bar")
  /\ UNCHANGED <<work, bufs, host, status, calls>>

\* The barrier of ss_init; then k = 0, m = PLASMA_RANK.
InitBarrier ==
  /\ \A r \in Ranks : pc[r] = "init_bar"
  /\ pc' = [r \in Ranks |-> "start"]
  /\ col' = [r \in Ranks |-> 0]
  /\ row' = [r \in Ranks |-> r]
  /\ UNCHANGED <<step, bufs, shared>>

\* Mutant of Carry: m = m - nt - k.
CarrySign(r) == /\ row[r] >= NT
                /\ col' = [col EXCEPT ![r] = @ + 1]
                /\ row' = [row EXCEPT ![r] = @ - NT - col[r] - 1]

\* One turn of while (m >= nt) { k++; m = m - nt + k; }, without end for a rank
\* beyond the triangle, where the code's int overflows: the runs give every
\* rank a tile.
Carry(r) == /\ row[r] >= NT
            /\ col' = [col EXCEPT ![r] = @ + 1]
            /\ row' = [row EXCEPT ![r] = @ - NT + col[r] + 1]

StartTile(r) ==
  /\ pc[r] = "start"
  /\ \/ Carry(r) /\ UNCHANGED <<pc, step>>
     \/ /\ row[r] < NT
        /\ step' = [step EXCEPT ![r] = 0]
        /\ Goto(r, "top")
        /\ UNCHANGED <<col, row>>
  /\ UNCHANGED <<bufs, shared>>

\* while (k < nt && m < nt && !ss_aborted())
Top(r) ==
  /\ pc[r] = "top"
  /\ Goto(r, IF col[r] < NT /\ row[r] < NT /\ ~abort THEN "load" ELSE "fini_bar")
  /\ UNCHANGED <<work, bufs, shared>>

\* The tile to update goes to the device before any wait.
LoadTile(r) ==
  /\ pc[r] = "load"
  /\ dst' = [dst EXCEPT ![r] = host[Mine(r)]]
  /\ Goto(r, IF IsPotrf(r) THEN "kernel" ELSE "wait1")
  /\ UNCHANGED <<work, op1, op2, info, shared>>

\* Mutant of CondWait: the progress cell is not looked at.
CondWaitNot(r, t, next) ==
  \/ abort /\ Goto(r, "fini_bar")
  \/ ~abort /\ progress[t] \in {0, 1} /\ Goto(r, next)

\* ss_cond_wait: on abort the rank breaks out of the task loop.
CondWait(r, t, next) ==
  \/ abort /\ Goto(r, "fini_bar")
  \/ ~abort /\ progress[t] = 1 /\ Goto(r, next)

WaitFirst(r) ==
  /\ pc[r] = "wait1"
  /\ CondWait(r, Operand1(r), "load1")
  /\ UNCHANGED <<work, bufs, shared>>

\* Mutant of LoadFirst: a gemm task does not wait for its second operand.
LoadFirstOnly(r) ==
  /\ pc[r] = "load1"
  /\ op1' = [op1 EXCEPT ![r] = host[Operand1(r)]]
  /\ Goto(r, IF IsGemm(r) THEN "load2" ELSE "kernel")
  /\ UNCHANGED <<work, dst, op2, info, shared>>

LoadFirst(r) ==
  /\ pc[r] = "load1"
  /\ op1' = [op1 EXCEPT ![r] = host[Operand1(r)]]
  /\ Goto(r, IF IsGemm(r) THEN "wait2" ELSE "kernel")
  /\ UNCHANGED <<work, dst, op2, info, shared>>

WaitSecond(r) ==
  /\ pc[r] = "wait2"
  /\ CondWait(r, Operand2(r), "load2")
  /\ UNCHANGED <<work, bufs, shared>>

LoadSecond(r) ==
  /\ pc[r] = "load2"
  /\ op2' = [op2 EXCEPT ![r] = host[Operand2(r)]]
  /\ Goto(r, "kernel")
  /\ UNCHANGED <<work, dst, op1, info, shared>>

\* cusolverDnPotrf, cublasDsyrk, cublasDtrsm or cublasDgemm on the buffers.
\* Only the factorization reports: info # 0 when the block is not positive
\* definite.
OperandsGood(r) ==
  /\ ~IsPotrf(r) => Done(op1[r], Operand1(r))
  /\ IsGemm(r) => Done(op2[r], Operand2(r))

Kernel(r) ==
  /\ pc[r] = "kernel"
  /\ \E broke \in BOOLEAN :
       /\ broke => IsPotrf(r)
       /\ info' = [info EXCEPT ![r] = broke]
       /\ dst' = [dst EXCEPT ![r] =
            IF dst[r] = step[r] /\ OperandsGood(r) /\ ~broke
            THEN step[r] + 1 ELSE Garbage]
  /\ Goto(r, "store")
  /\ UNCHANGED <<work, op1, op2, shared>>

\* Mutant of StoreTile: only diagonal tiles are published.
StoreTileSilent(r) ==
  /\ pc[r] = "store"
  /\ host' = [host EXCEPT ![Mine(r)] = dst[r]]
  /\ Goto(r, CASE info[r] -> "fail"
               [] IsPotrf(r) /\ ~info[r] -> "publish"
               [] OTHER -> "next")
  /\ UNCHANGED <<work, bufs, progress, allocated, abort, status, calls>>

\* The copy back to the host has completed (cudaStreamSynchronize).
StoreTile(r) ==
  /\ pc[r] = "store"
  /\ host' = [host EXCEPT ![Mine(r)] = dst[r]]
  /\ Goto(r, CASE info[r] -> "fail"
               [] step[r] = col[r] /\ ~info[r] -> "publish"
               [] OTHER -> "next")
  /\ UNCHANGED <<work, bufs, progress, allocated, abort, status, calls>>

\* Mutant of RequestFail: ss_cond_set comes before ss_abort.
RequestFailEarlySet(r) ==
  /\ pc[r] = "fail"
  /\ status' = Failed(col[r])
  /\ progress' = [progress EXCEPT ![Mine(r)] = 1]
  /\ Goto(r, "abort")
  /\ UNCHANGED <<work, bufs, host, allocated, abort, calls>>

\* if (info != 0) { plasma_request_fail(..); ss_abort(); }
RequestFail(r) ==
  /\ pc[r] = "fail"
  /\ status' = Failed(col[r])
  /\ Goto(r, "abort")
  /\ UNCHANGED <<work, bufs, host, progress, allocated, abort, calls>>

SsAbort(r) ==
  /\ pc[r] = "abort"
  /\ abort' = TRUE
  /\ Goto(r, "publish")
  /\ UNCHANGED <<work, bufs, host, progress, allocated, status, calls>>

\* ss_cond_set(m, k, 1)
Publish(r) ==
  /\ pc[r] = "publish"
  /\ progress' = [progress EXCEPT ![Mine(r)] = 1]
  /\ Goto(r, "next")
  /\ UNCHANGED <<work, bufs, host, allocated, abort, status, calls>>

\* Mutant of NextStep: the stride misses one.
NextStepShort(r) ==
  /\ pc[r] = "next"
  /\ IF step[r] < col[r]
     THEN /\ step' = [step EXCEPT ![r] = @ + 1]
          /\ Goto(r, "top")
          /\ UNCHANGED row
     ELSE /\ row' = [row EXCEPT ![r] = @ + SIZE - 1]
          /\ step' = [step EXCEPT ![r] = 0]
          /\ Goto(r, "roll")
  /\ UNCHANGED <<col, bufs, shared>>

\* next_n++; if (next_n > next_k) the next tile, SIZE places further on.
NextStep(r) ==
  /\ pc[r] = "next"
  /\ IF step[r] < col[r]
     THEN /\ step' = [step EXCEPT ![r] = @ + 1]
          /\ Goto(r, "top")
          /\ UNCHANGED row
     ELSE /\ row' = [row EXCEPT ![r] = @ + SIZE]
          /\ step' = [step EXCEPT ![r] = 0]
          /\ Goto(r, "roll")
  /\ UNCHANGED <<col, bufs, shared>>

\* while (next_m >= nt && next_k < nt) ...
Roll(r) ==
  /\ pc[r] = "roll"
  /\ \/ col[r] < NT /\ Carry(r) /\ UNCHANGED pc
     \/ (row[r] < NT \/ col[r] >= NT) /\ Goto(r, "top") /\ UNCHANGED <<col, row>>
  /\ UNCHANGED <<step, bufs, shared>>

\* Mutant of FiniBarrier: rank 0 does not wait for the others.
FiniBarrierOpen ==
  \E r \in Ranks :
    /\ pc[r] = "fini_bar"
    /\ Goto(r, IF r = 0 THEN "free" ELSE "exit_bar")
    /\ UNCHANGED <<work, bufs, shared>>

\* ss_finalize: the barrier, then rank 0 frees the table.
FiniBarrier ==
  /\ \A r \in Ranks : pc[r] = "fini_bar"
  /\ pc' = [r \in Ranks |-> IF r = 0 THEN "free" ELSE "exit_bar"]
  /\ UNCHANGED <<work, bufs, shared>>

FreeTable(r) ==
  /\ pc[r] = "free"
  /\ allocated' = FALSE
  /\ Goto(r, "exit_bar")
  /\ UNCHANGED <<work, bufs, host, progress, abort, status, calls>>

\* The closing barrier of plasma_static_call: the call returns.
ExitBarrier ==
  /\ \A r \in Ranks : pc[r] = "exit_bar"
  /\ pc' = [r \in Ranks |-> "idle"]
  /\ UNCHANGED <<work, bufs, shared>>
-----------------------------------------------------------------------------
Rank(r) == \/ Enter(r) \/ SsInit(r) \/ StartTile(r) \/ Top(r) \/ LoadTile(r)
           \/ WaitFirst(r) \/ LoadFirst(r) \/ WaitSecond(r) \/ LoadSecond(r)
           \/ Kernel(r) \/ StoreTile(r) \/ RequestFail(r) \/ SsAbort(r)
           \/ Publish(r) \/ NextStep(r) \/ Roll(r) \/ FreeTable(r)

Barriers == InitBarrier \/ FiniBarrier \/ ExitBarrier

Next == StartCall \/ RefuseCall \/ Barriers \/ \E r \in Ranks : Rank(r)

Spec == Init /\ [][Next]_vars

\* Every thread is scheduled by the operating system; the caller need not call.
FairSpec == /\ Spec
            /\ WF_vars(Barriers)
            /\ \A r \in Ranks : WF_vars(Rank(r))
-----------------------------------------------------------------------------
TypeOK ==
  /\ pc \in [Ranks -> PC]
  /\ col \in [Ranks -> Nat]
  /\ row \in [Ranks -> Nat]
  /\ step \in [Ranks -> Nat]
  /\ dst \in [Ranks -> Value]
  /\ op1 \in [Ranks -> Value]
  /\ op2 \in [Ranks -> Value]
  /\ info \in [Ranks -> BOOLEAN]
  /\ host \in [Tiles -> Value]
  /\ progress \in [Tiles -> {0, 1}]
  /\ allocated \in BOOLEAN
  /\ abort \in BOOLEAN
  /\ status \in 0 .. NT + 1
  /\ calls \in 0 .. MaxCalls

Working == {"load", "wait1", "load1", "wait2", "load2", "kernel", "store",
            "fail", "abort", "publish", "next"}

\* Two ranks never work on the same tile: the walks of the ranks through the
\* triangle (start tile, stride SIZE, carry into the next column) are disjoint.
OneOwner ==
  \A r, s \in Ranks :
    /\ r # s
    /\ pc[r] \in Working
    /\ pc[s] \in Working
    => Mine(r) # Mine(s)

\* A kernel only ever runs on finished operand tiles and on a destination that
\* carries exactly the updates of the panels before this one, whatever the
\* interleaving of the ranks and also while an abort spreads.
KernelInputs ==
  \A r \in Ranks : pc[r] = "kernel" => dst[r] = step[r] /\ OperandsGood(r)

\* The progress table is in place whenever a rank may look at it or set it: the
\* barrier of ss_finalize keeps rank 0 from freeing it under a waiting rank.
TableLive ==
  \A r \in Ranks :
    pc[r] \in {"wait1", "wait2", "publish"} => allocated

\* The status is the first leading minor that is not positive definite: that
\* panel's diagonal tile alone is garbage, the diagonal tiles of the earlier
\* columns and the tiles to the left of it in its row are finished (other tiles
\* of these columns need not be), and the call says Success only when the whole
\* factor is there.
StatusTells ==
  /\ \A k \in Index : status = Failed(k) =>
       /\ host[<<k, k>>] = Garbage
       /\ \A t \in Tiles : host[t] = Garbage => t = <<k, k>>
       /\ \A j \in 0 .. k - 1 : Done(host[<<j, j>>], <<j, j>>)
                                /\ Done(host[<<k, j>>], <<k, j>>)
  /\ (\A r \in Ranks : pc[r] = "exit_bar") /\ status = Success =>
       \A t \in Tiles : Done(host[t], t)

\* Nobody goes on with a panel that failed: a published diagonal tile that is
\* garbage is always accompanied by the abort flag (ss_abort is set first).
FailureShadowed ==
  \A k \in Index : /\ progress[<<k, k>>] = 1
                   /\ host[<<k, k>>] = Garbage
                   /\ \E r \in Ranks : pc[r] \in Working \cup {"top", "roll"}
                   => abort

\* Every call returns, also one whose matrix is not positive definite.
CallReturns ==
  (\E r \in Ranks : pc[r] = "enter") ~> (\A r \in Ranks : pc[r] = "idle")

\* The schedule implements the abstract tile algorithm.
Abstract == INSTANCE TileCholesky WITH tile <- host
Refines == Abstract!Spec
=============================================================================
